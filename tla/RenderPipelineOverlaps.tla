----------------------- MODULE RenderPipelineOverlaps -----------------------
(* What is left, for every value of the constants, where threads of the      *)
(* pipeline overlap: how far a group can be overbooked, that a poll drops no *)
(* waiting job, that recovery settles the jobs of the last process, and that *)
(* only discards, rendered groups and the startup sweep cost chunks.         *)
(*                                                                           *)
(* OverlapInv says what each thread still knows of what it read: which jobs  *)
(* a poll found settled (PruneInv), which group the harvest owns             *)
(* (HarvestInv), that the group retention condemned has its movie            *)
(* (RetentionInv), and how many jobs of a group can be active while threads  *)
(* that found it free are on their way to the insertion (BookedInv).         *)
EXTENDS RenderPipelineSafety

\* The worker is between the mark and the end of the job, which it may write.
Writing == Rendering \cup {"release"}

\* The worker holds a job it has not let go of.
Holding == {"gate", "claim", "mark"} \cup Writing

\* A job of a poll's list is not waiting, and is active only if the worker
\* has taken it up again.
PruneInv ==
  \A c \in Clients : pc[c] = "prune" =>
    \A j \in todo[c] :
      /\ j < nextId /\ jobs[j] # "queued"
      /\ jobs[j] \in {"concat", "render"} => j = job /\ worker \in Rendering

\* Without the queue no request is under way.
UnbuiltInv == ~Built => \A c \in Clients : pc[c] = "idle"

\* The group being harvested holds no chunk the harvest does not know of.
HarvestInv ==
  pc["harvest"] = "pull" =>
    LET g == req["harvest"].group
    IN  g \in Groups /\ group[g].chunks \subseteq req["harvest"].chunks

\* The group retention is about to trash has a movie.
RetentionInv ==
  pc["retention"] = "trash" =>
    \E j \in JobIds : args[j].group = req["retention"].group /\ movies[j] > 0

\* Jobs of the last process: startup, which settles them, has begun, and once
\* it has reconciled none of them waits.
LoadedInv ==
  RenderEnabled =>
    /\ pc["startup"] # "idle"
    /\ \A j \in loaded : j < nextId
    /\ Past(BeforeReconcile) => \A j \in loaded : jobs[j] # "queued"

\* The jobs a group is booked for: the active ones, and the one the worker
\* holds, which it may bring back to life.
Claims(g) ==
  {j \in JobIds : /\ args[j].group = g
                  /\ \/ jobs[j] \in ActiveJobStates
                     \/ j = job /\ worker \in Holding}

\* The active ones the worker is not about to let go of.
Waiting(g) ==
  {j \in JobIds : /\ args[j].group = g
                  /\ jobs[j] \in ActiveJobStates
                  /\ ~(j = job /\ worker \in Writing)}

\* The active ones of jobs.json.
Recorded(g) ==
  {j \in JobIds : args[j].group = g /\ saved[j] \in ActiveJobStates}

\* The threads that found the group free and have not inserted their job.
Booking(g) ==
  {t \in Enqueuers : pc[t] \in {"check_count", "add"} /\ req[t].group = g}

Booked(g) ==
  /\ Cardinality(Claims(g)) <= Cardinality(Enqueuers) + 1
  /\ Cardinality(Recorded(g)) <= Cardinality(Enqueuers) + 1
  /\ Booking(g) # {} =>
       Cardinality(Waiting(g)) + Cardinality(Booking(g)) <= Cardinality(Enqueuers)

BookedInv ==
  /\ worker = "release" => jobs[job] \notin ActiveJobStates
  /\ \A g \in Groups : Booked(g)

OverlapInv ==
  /\ PruneInv /\ UnbuiltInv /\ HarvestInv /\ RetentionInv
  /\ LoadedInv /\ BookedInv

----------------------------------------------------------------------------
(* Whose step it is. *)

Same(s) ==
  /\ pc'[s] = pc[s] /\ req'[s] = req[s] /\ target'[s] = target[s]
  /\ seen'[s] = seen[s] /\ todo'[s] = todo[s]

\* No thread but t moves.
Only(t) == \A s \in Threads \ {t} : Same(s)

LEMMA StepOnly ==
  ASSUME ThreadTypeOK, NEW t, NEW to, Step(t, to), UNCHANGED <<target, seen>>,
         UNCHANGED req \/ \E x : req' = [req EXCEPT ![t] = x],
         UNCHANGED todo \/ \E x : todo' = [todo EXCEPT ![t] = x]
  PROVE  Only(t)
BY DEF ThreadTypeOK, Step, Only, Same

LEMMA ReturnOnly ==
  ASSUME ThreadTypeOK, NEW t, Return(t)
  PROVE  Only(t)
BY DEF ThreadTypeOK, Return, Step, Only, Same

LEMMA LocalsOnly ==
  ASSUME ThreadTypeOK, NEW t, NEW to, Step(t, to), UNCHANGED locals
  PROVE  Only(t)
BY DEF ThreadTypeOK, Step, Only, Same, locals

LEMMA EnqueueOnly ==
  ASSUME ThreadTypeOK, NEW t, EnqueueStep(t)
  PROVE  Only(t)
BY ReturnOnly, LocalsOnly DEF EnqueueStep, CheckGroup, CheckCount, AddJob

LEMMA ClientOnly ==
  ASSUME ThreadTypeOK, NEW c, Request(c) \/ Handler(c)
  PROVE  Only(c)
<1>1. CASE StartRender(c)
  BY <1>1, StepOnly DEF StartRender, Begin
<1>2. CASE CancelRender(c)
  BY <1>2 DEF CancelRender, Begin, ThreadTypeOK, Step, Only, Same
<1>3. CASE ListRawFootage(c)
  BY <1>3, StepOnly DEF ListRawFootage, Begin
<1>4. CASE DeleteGroup(c) \/ DeleteChunks(c)
  <2>1. PICK op, C, to : BeginDelete(c, op, C, to)
    BY <1>4 DEF DeleteGroup, DeleteChunks
  <2> QED BY <2>1, StepOnly DEF BeginDelete, Begin
<1>5. CASE EnqueueStep(c)
  BY <1>5, EnqueueOnly
<1>6. CASE CancelSignal(c)
  BY <1>6, ReturnOnly, LocalsOnly DEF CancelSignal
<1>7. CASE Prune(c)
  BY <1>7, StepOnly DEF Prune, RemoveNext
<1>8. CASE CancelMark(c) \/ DeleteTree(c) \/ UnlinkChunks(c)
  BY <1>8, ReturnOnly DEF CancelMark, DeleteTree, UnlinkChunks
<1> QED BY <1>1, <1>2, <1>3, <1>4, <1>5, <1>6, <1>7, <1>8 DEF Request, Handler

LEMMA HarvestOnly ==
  ASSUME ThreadTypeOK, Harvest
  PROVE  Only("harvest")
<1>1. CASE HarvestBegin
  BY <1>1, StepOnly DEF HarvestBegin, Begin
<1>2. CASE HarvestChunk
  BY <1>2 DEF HarvestChunk, ThreadTypeOK, Only, Same
<1>3. CASE HarvestEmpty \/ HarvestKept
  BY <1>3, ReturnOnly DEF HarvestEmpty, HarvestKept
<1>4. CASE HarvestAutoRender
  BY <1>4, LocalsOnly DEF HarvestAutoRender
<1>5. CASE EnqueueStep("harvest")
  BY <1>5, EnqueueOnly
<1> QED BY <1>1, <1>2, <1>3, <1>4, <1>5 DEF Harvest

LEMMA StartupOnly ==
  ASSUME ThreadTypeOK, Startup
  PROVE  Only("startup")
<1>s. CASE SweepFind \/ SweepDiscard
  BY <1>s, StepOnly DEF SweepFind, SweepDiscard
<1>1. CASE SweepOver \/ StartupBuild \/ ClearWork \/ Reconcile
  BY <1>1, LocalsOnly DEF SweepOver, StartupBuild, ClearWork, Reconcile
<1>2. CASE FindOrphans
  BY <1>2, StepOnly DEF FindOrphans
<1>3. CASE DropOrphan
  BY <1>3, StepOnly DEF DropOrphan, RemoveNext
<1>4. ASSUME NEW t \in Enqueuers, FirstUse(t) PROVE Only("startup")
  BY <1>4 DEF FirstUse, threadVars, locals, Only, Same
<1> QED BY <1>s, <1>1, <1>2, <1>3, <1>4 DEF Startup

LEMMA RetentionOnly ==
  ASSUME ThreadTypeOK, Retention
  PROVE  Only("retention")
<1>1. CASE RetentionCheck
  BY <1>1, StepOnly DEF RetentionCheck, Begin
<1>2. CASE RetentionTrash
  BY <1>2, ReturnOnly DEF RetentionTrash
<1> QED BY <1>1, <1>2 DEF Retention

\* The worker and the environment move no thread but startup (on_shutdown);
\* the end of the process ends them all.
LEMMA OthersOnly ==
  ASSUME ThreadTypeOK, Worker \/ Environment \/ UNCHANGED vars, ~Die
  PROVE  Only("startup")
<1>1. CASE \/ Worker \/ PrintStateChanges \/ Boot \/ UNCHANGED vars
           \/ \E g \in Groups : MarkerExpires(g)
  BY <1>1 DEF Worker, PrintStateChanges, Boot, MarkerExpires, vars, threadVars,
     locals, Only, Same
<1>2. CASE Shutdown
  BY <1>2 DEF Shutdown, ThreadTypeOK, locals, Only, Same
<1> QED BY <1>1, <1>2 DEF Environment

\* A client moves by a step of its own, unless the process ends.
LEMMA ClientMoves ==
  ASSUME TypeOK, [Next]_vars, NEW c \in Clients
  PROVE  Same(c) \/ Die \/ Request(c) \/ Handler(c)
<1>1. c \in Threads /\ c \notin {"harvest", "startup", "retention"}
  BY PipelineAssumption DEF Threads, Background
<1>2. ThreadTypeOK
  BY DEF TypeOK
<1>3. ASSUME NEW d \in Clients, Request(d) \/ Handler(d), d # c PROVE Same(c)
  BY <1>1, <1>2, <1>3, ClientOnly DEF Only
<1> QED BY <1>1, <1>2, <1>3, HarvestOnly, StartupOnly, RetentionOnly, OthersOnly
        DEF Next, Only

LEMMA HarvestMoves ==
  ASSUME TypeOK, [Next]_vars
  PROVE  Same("harvest") \/ Die \/ Harvest
<1>1. "harvest" \in Threads /\ "harvest" \notin Clients
  BY PipelineAssumption DEF Threads, Background
<1>2. ThreadTypeOK
  BY DEF TypeOK
<1>3. ASSUME NEW d \in Clients, Request(d) \/ Handler(d) PROVE Same("harvest")
  BY <1>1, <1>2, <1>3, ClientOnly DEF Only
<1> QED BY <1>1, <1>2, <1>3, StartupOnly, RetentionOnly, OthersOnly
        DEF Next, Only

----------------------------------------------------------------------------
(* The worker and the registry. *)

\* What the worker makes of a job: it queues none, it runs the one it holds,
\* and the one it lets go of has settled.
LEMMA WorkerQueues ==
  ASSUME TypeOK, Worker, NEW j \in JobIds, jobs'[j] = "queued"
  PROVE  jobs[j] = "queued"
<1>1. CASE UNCHANGED registryVars
  BY <1>1 DEF registryVars
<1>2. ASSUME NEW state \in {"concat", "render", "done", "failed", "cancelled"},
             Update(job, state), job \in JobIds
      PROVE  jobs[j] = "queued"
  BY <1>2, UpdateWrites DEF TypeOK, NoJob
<1> QED BY <1>1, <1>2, WorkerWrites

LEMMA WorkerActs ==
  ASSUME TypeOK, Worker, NEW j \in JobIds
  PROVE  \/ /\ jobs'[j] = jobs[j]
            /\ (j = job /\ worker \in Writing) => j = job' /\ worker' \in Writing
            /\ (j = job' /\ worker' \in Holding) =>
                 (j = job /\ worker \in Holding) \/ jobs[j] = "queued"
            /\ (j = job /\ worker \in Rendering) => j = job' /\ worker' \in Rendering
         \/ /\ j = job /\ j = job' /\ worker \in Holding
            /\ worker' \in Writing
            /\ worker' = "release" => jobs'[j] \notin ActiveJobStates
         \/ /\ worker = "release" /\ worker' = "loop" /\ jobs'[j] = jobs[j]
<1> USE DEF heldVars, Goto, Rendering, Claimed, Writing, Holding
<1>t. WorkerTypeOK /\ RegistryTypeOK
  BY DEF TypeOK
<1>u. ASSUME NEW state, Update(job, state), job \in JobIds
      PROVE  /\ \A k \in JobIds \ {job} : jobs'[k] = jobs[k]
             /\ jobs'[job] \in {NoJob, state}
  BY <1>t, <1>u, UpdateWrites
<1>1. CASE Pick
  BY <1>1 DEF Pick, Queued, registryVars
<1>2. CASE Gate \/ Claim \/ Resolve
  BY <1>2 DEF Gate, Claim, Resolve, registryVars
<1>3. CASE Release
  BY <1>3 DEF Release, registryVars
<1>4. CASE Mark \/ ConcatStart
  BY <1>4, <1>u, <1>t DEF Mark, ConcatStart, WorkerTypeOK
<1>5. CASE ConcatEnd
  BY <1>5, <1>u, <1>t DEF ConcatEnd, registryVars, WorkerTypeOK
<1>6. CASE EncodeProgress
  BY <1>6, <1>u, <1>t DEF EncodeProgress, workerVars, WorkerTypeOK
<1>7. CASE EncodeStart \/ EncodeEnd \/ Publish \/ Tidy \/ Stamp
  BY <1>7 DEF EncodeStart, EncodeEnd, Publish, Tidy, Stamp, registryVars
<1>8. CASE FinishDone \/ FinishFailed
  BY <1>8, <1>u, <1>t
     DEF FinishDone, FinishFailed, WorkerTypeOK, NoJob, ActiveJobStates
<1> QED BY <1>1, <1>2, <1>3, <1>4, <1>5, <1>6, <1>7, <1>8 DEF Worker, WorkerNext

LEMMA WorkerReleases ==
  ASSUME TypeOK, TypeOK', Worker, worker' = "release"
  PROVE  jobs'[job'] \notin ActiveJobStates
<1>1. job' \in JobIds
  BY DEF TypeOK, WorkerTypeOK
<1>2. worker # "release" /\ (FinishDone \/ FinishFailed)
  BY DEF Worker, WorkerNext, Pick, Gate, Claim, Mark, Resolve, ConcatStart,
     ConcatEnd, EncodeStart, EncodeProgress, EncodeEnd, Publish, Tidy, Stamp,
     FinishDone, FinishFailed, Release, Goto, workerVars
<1>3. job' = job
  BY <1>2 DEF FinishDone, FinishFailed, heldVars
<1>4. jobs'[job] \in {NoJob, "done", "failed", "cancelled"}
  BY <1>1, <1>2, <1>3, UpdateWrites DEF FinishDone, FinishFailed, TypeOK
<1> QED BY <1>3, <1>4 DEF ActiveJobStates, NoJob

LEMMA WorkerRuns ==
  ASSUME TypeOK, Worker, NEW j \in JobIds, jobs'[j] \in {"concat", "render"},
         jobs[j] \in {"concat", "render"} => j = job /\ worker \in Rendering
  PROVE  j = job' /\ worker' \in Rendering
BY WorkerActs DEF Rendering, Claimed, Writing, ActiveJobStates

----------------------------------------------------------------------------
(* The queue comes up. *)

LEMMA BuildingLoads ==
  ASSUME Building
  PROVE  /\ jobs' = saved /\ UNCHANGED <<saved, args, nextId>>
         /\ worker' = "loop" /\ ~Built
BY DEF Building, BuildQueue, Load, Goto

LEMMA UnbuiltPreserved ==
  ASSUME TypeOK, LifeInv, UnbuiltInv, [Next]_vars
  PROVE  UnbuiltInv'
<1> SUFFICES ASSUME ~Built', NEW c \in Clients PROVE pc'[c] = "idle"
  BY DEF UnbuiltInv
<1>1. c \in Threads /\ c # "startup"
  BY PipelineAssumption DEF Threads, Background
<1>2. CASE Die
  BY <1>1, <1>2 DEF Die, FirstPC
<1>3. CASE ~Die
  <2>1. ~Built
    BY <1>3, Steps, WorkerWrites, BuildingLoads, AddWrites
       DEF Quiet, QuietFiles, Boot, workerVars, Built
  <2>2. pc[c] = "idle"
    BY <2>1 DEF UnbuiltInv
  <2>3. ~Request(c) /\ ~Handler(c)
    BY <2>1, <2>2
       DEF Request, StartRender, CancelRender, ListRawFootage, DeleteGroup,
           DeleteChunks, BeginDelete, Handler, EnqueueStep, CheckGroup, CheckCount,
           AddJob, CancelSignal, CancelMark, Prune, RemoveNext, DeleteTree,
           UnlinkChunks, At
  <2> QED BY <1>3, <2>2, <2>3, ClientMoves DEF Same
<1> QED BY <1>2, <1>3

----------------------------------------------------------------------------
(* What becomes of the chunks. *)

\* The steps that remove chunks, or add one.
MovesChunks ==
  \/ \E c \in Clients : DeleteTree(c) \/ UnlinkChunks(c)
  \/ HarvestChunk \/ HarvestEmpty \/ SweepDiscard \/ RetentionTrash

KeepsChunks == \A g \in Groups : group'[g].chunks = group[g].chunks

LEMMA GroupKept == UNCHANGED group => KeepsChunks
BY DEF KeepsChunks

\* Stamping, aging or making a group leaves the chunks as they are.
LEMMA FieldKept ==
  ASSUME WorkerTypeOK, NEW g,
         \/ \E x : group' = [group EXCEPT ![g].marker = x]
         \/ \E x : group' = [group EXCEPT ![g].dir = x]
  PROVE  KeepsChunks
<1> SUFFICES ASSUME NEW h \in Groups PROVE group'[h].chunks = group[h].chunks
  BY DEF KeepsChunks
<1>1. group[h] \in GroupStates
  BY DEF WorkerTypeOK
<1>2. CASE \E x : group' = [group EXCEPT ![g].marker = x]
  <2>1. PICK x : group' = [group EXCEPT ![g] = [group[g] EXCEPT !.marker = x]]
    BY <1>2
  <2> QED BY <1>1, <2>1 DEF WorkerTypeOK, GroupStates
<1>3. CASE \E x : group' = [group EXCEPT ![g].dir = x]
  <2>1. PICK x : group' = [group EXCEPT ![g] = [group[g] EXCEPT !.dir = x]]
    BY <1>3
  <2> QED BY <1>1, <2>1 DEF WorkerTypeOK, GroupStates
<1> QED BY <1>2, <1>3

LEMMA ChunkSteps ==
  ASSUME TypeOK, [Next]_vars
  PROVE  KeepsChunks \/ MovesChunks
<1>w. WorkerTypeOK
  BY DEF TypeOK
<1>1. CASE Worker
  <2>1. CASE Stamp
    BY <1>w, <2>1, GroupKept, FieldKept DEF Stamp
  <2>2. CASE Pick \/ Gate \/ Claim \/ Mark \/ Resolve \/ ConcatStart \/ ConcatEnd
    BY <2>2, GroupKept DEF Pick, Gate, Claim, Mark, Resolve, ConcatStart, ConcatEnd,
       fileVars
  <2>3. CASE EncodeStart \/ EncodeProgress \/ EncodeEnd \/ Publish \/ Tidy
    BY <2>3, GroupKept DEF EncodeStart, EncodeProgress, EncodeEnd, Publish, Tidy,
       fileVars
  <2>4. CASE FinishDone \/ FinishFailed \/ Release
    BY <2>4, GroupKept DEF FinishDone, FinishFailed, Release, fileVars
  <2> QED BY <1>1, <2>1, <2>2, <2>3, <2>4 DEF Worker, WorkerNext
<1>2. ASSUME NEW c \in Clients, Request(c) \/ Handler(c)
      PROVE  KeepsChunks \/ MovesChunks
  <2>1. CASE Request(c)
    BY <2>1, GroupKept
       DEF Request, StartRender, CancelRender, ListRawFootage, DeleteGroup,
           DeleteChunks, BeginDelete, outsideVars, exceptRegistry, fileVars
  <2>2. CASE EnqueueStep(c) \/ CancelSignal(c)
    BY <2>2, GroupKept
       DEF EnqueueStep, CheckGroup, CheckCount, AddJob, CancelSignal, outsideVars,
           exceptRegistry, fileVars
  <2>3. CASE CancelMark(c) \/ Prune(c)
    BY <2>3, GroupKept DEF CancelMark, Prune, RemoveNext, exceptRegistry, fileVars
  <2> QED BY <1>2, <2>1, <2>2, <2>3 DEF Handler, MovesChunks
<1>3. CASE Harvest
  <2>1. CASE HarvestBegin
    BY <1>w, <2>1, FieldKept DEF HarvestBegin
  <2>2. CASE HarvestKept \/ HarvestAutoRender \/ EnqueueStep("harvest")
    BY <2>2, GroupKept
       DEF HarvestKept, HarvestAutoRender, EnqueueStep, CheckGroup, CheckCount,
           AddJob, outsideVars, exceptRegistry, fileVars
  <2> QED BY <1>3, <2>1, <2>2 DEF Harvest, MovesChunks
<1>4. CASE Startup
  <2>1. CASE StartupBuild \/ \E t \in Enqueuers : FirstUse(t)
    BY <2>1, GroupKept DEF StartupBuild, FirstUse, fileVars
  <2>2. CASE \/ SweepFind \/ SweepOver
             \/ ClearWork \/ Reconcile \/ FindOrphans \/ DropOrphan
    BY <2>2, GroupKept
       DEF SweepFind, SweepOver, ClearWork, Reconcile, FindOrphans, DropOrphan,
           RemoveNext, outsideVars,
           exceptRegistry, fileVars
  <2> QED BY <1>4, <2>1, <2>2 DEF Startup, MovesChunks
<1>5. CASE Retention
  BY <1>5, GroupKept DEF Retention, RetentionCheck, outsideVars, exceptRegistry,
     fileVars, MovesChunks
<1>6. CASE Environment
  <2>1. CASE PrintStateChanges \/ Shutdown \/ Die \/ Boot
    BY <2>1, GroupKept DEF PrintStateChanges, Shutdown, Die, Boot, fileVars
  <2>2. ASSUME NEW g \in Groups, MarkerExpires(g) PROVE KeepsChunks
    BY <1>w, <2>2, FieldKept DEF MarkerExpires
  <2> QED BY <1>6, <2>1, <2>2 DEF Environment
<1>7. CASE UNCHANGED vars
  BY <1>7, GroupKept DEF vars, outsideVars, exceptRegistry, fileVars
<1> QED BY <1>1, <1>2, <1>3, <1>4, <1>5, <1>6, <1>7 DEF Next

\* The removal of a group leaves the others alone.
LEMMA RemovesOne ==
  ASSUME WorkerTypeOK, NEW g, RemoveGroup(g)
  PROVE  /\ \A h \in Groups \ {g} : group'[h] = group[h]
         /\ \A h \in Groups : group'[h].chunks \subseteq group[h].chunks
<1>1. CASE group' = group
  BY <1>1
<1>2. ASSUME NEW left \in Remnants(g) \cup {Gone},
             group' = [group EXCEPT ![g] = left]
      PROVE  /\ \A h \in Groups \ {g} : group'[h] = group[h]
             /\ \A h \in Groups : group'[h].chunks \subseteq group[h].chunks
  <2>1. left.chunks \subseteq group[g].chunks
    BY DEF Remnants, Gone
  <2> QED BY <1>2, <2>1 DEF WorkerTypeOK
<1>3. group' = group \/ \E left \in Remnants(g) \cup {Gone} :
                           group' = [group EXCEPT ![g] = left]
  BY DEF RemoveGroup
<1> QED BY <1>1, <1>2, <1>3

LEMMA UnlinksOne ==
  ASSUME WorkerTypeOK, NEW g, NEW C, group' = [group EXCEPT ![g].chunks = @ \ C]
  PROVE  /\ \A h \in Groups \ {g} : group'[h] = group[h]
         /\ \A h \in Groups : group'[h].chunks \subseteq group[h].chunks
<1>1. group' = [group EXCEPT ![g] = [group[g] EXCEPT !.chunks = group[g].chunks \ C]]
  OBVIOUS
<1>2. \A h \in Groups : group[h] \in GroupStates
  BY DEF WorkerTypeOK
<1> QED BY <1>1, <1>2 DEF WorkerTypeOK, GroupStates

\* Only a harvest adds chunks.
LEMMA ChunksShrink ==
  ASSUME TypeOK, [Next]_vars, ~HarvestChunk
  PROVE  \A g \in Groups : group'[g].chunks \subseteq group[g].chunks
<1>w. WorkerTypeOK
  BY DEF TypeOK
<1>1. ASSUME NEW c \in Clients, DeleteTree(c) \/ UnlinkChunks(c)
      PROVE  \A g \in Groups : group'[g].chunks \subseteq group[g].chunks
  BY <1>w, <1>1, RemovesOne, UnlinksOne DEF DeleteTree, UnlinkChunks
<1>2. CASE HarvestEmpty \/ RetentionTrash
  BY <1>w, <1>2, RemovesOne DEF HarvestEmpty, RetentionTrash
<1>3. CASE SweepDiscard
  BY <1>w, <1>3, RemovesOne DEF SweepDiscard
<1>4. CASE KeepsChunks
  BY <1>4 DEF KeepsChunks
<1> QED BY <1>1, <1>2, <1>3, <1>4, ChunkSteps DEF MovesChunks

LEMMA HarvestPreserved ==
  ASSUME TypeOK, TypeOK', HarvestInv, [Next]_vars
  PROVE  HarvestInv'
<1> SUFFICES ASSUME pc'["harvest"] = "pull"
             PROVE  /\ req'["harvest"].group \in Groups
                    /\ group'[req'["harvest"].group].chunks
                         \subseteq req'["harvest"].chunks
  BY DEF HarvestInv
<1>0. "harvest" \in Threads /\ ThreadTypeOK /\ WorkerTypeOK
  BY DEF Threads, Background, TypeOK
<1>1. CASE HarvestBegin
  <2>1. PICK g \in Groups :
          /\ group[g] = Unmade
          /\ group' = [group EXCEPT ![g].dir = "there"]
          /\ req' = [req EXCEPT !["harvest"] = [group |-> g, chunks |-> {}]]
    BY <1>1 DEF HarvestBegin
  <2>2. KeepsChunks
    BY <1>0, <2>1, FieldKept
  <2> QED BY <1>0, <2>1, <2>2 DEF KeepsChunks, Unmade, ThreadTypeOK
<1>2. CASE HarvestChunk
  <2> DEFINE r == req["harvest"]
  <2>1. PICK c \in Chunks :
          /\ group' = [group EXCEPT ![r.group] =
                         [group[r.group] EXCEPT !.chunks = group[r.group].chunks \cup {c}]]
          /\ req' = [req EXCEPT !["harvest"] = [r EXCEPT !.chunks = r.chunks \cup {c}]]
    BY <1>2 DEF HarvestChunk
  <2>2. r.group \in Groups /\ group[r.group].chunks \subseteq r.chunks
    BY <1>2 DEF HarvestChunk, At, HarvestInv
  <2>3. r \in Selection /\ group[r.group] \in GroupStates
    BY <1>0, <2>2 DEF ThreadTypeOK, WorkerTypeOK
  <2>4. /\ req'["harvest"].group = r.group
        /\ req'["harvest"].chunks = r.chunks \cup {c}
    BY <1>0, <2>1, <2>3 DEF ThreadTypeOK, Selection
  <2>5. group'[r.group].chunks = group[r.group].chunks \cup {c}
    BY <1>0, <2>1, <2>2, <2>3 DEF WorkerTypeOK, GroupStates
  <2> QED BY <2>2, <2>4, <2>5
<1>3. CASE Same("harvest") /\ ~HarvestChunk
  <2>1. /\ pc["harvest"] = "pull" /\ req'["harvest"] = req["harvest"]
    BY <1>3 DEF Same
  <2>2. /\ req["harvest"].group \in Groups
        /\ group[req["harvest"].group].chunks \subseteq req["harvest"].chunks
    BY <2>1 DEF HarvestInv
  <2> QED BY <1>3, <2>1, <2>2, ChunksShrink
<1>4. CASE Die
  BY <1>0, <1>4 DEF Die, FirstPC
<1>5. CASE HarvestEmpty \/ HarvestKept \/ HarvestAutoRender
  BY <1>0, <1>5 DEF HarvestEmpty, HarvestKept, HarvestAutoRender, Return, Step,
     ThreadTypeOK
<1>6. CASE EnqueueStep("harvest")
  BY <1>0, <1>6 DEF EnqueueStep, CheckGroup, CheckCount, AddJob, Return, Step,
     ThreadTypeOK
<1> QED BY <1>1, <1>2, <1>3, <1>4, <1>5, <1>6, HarvestMoves DEF Harvest

----------------------------------------------------------------------------
(* The jobs of the last process. *)

\* Only the building of the queue and the end of the process touch loaded.
LEMMA LoadedSteps ==
  ASSUME TypeOK, [Next]_vars
  PROVE  loaded' = loaded \/ Building \/ Die
<1>1. ASSUME NEW c \in Clients, Request(c) PROVE loaded' = loaded
  BY <1>1 DEF Request, StartRender, CancelRender, ListRawFootage, DeleteGroup,
     DeleteChunks, BeginDelete, outsideVars, exceptRegistry, lifeVars
<1>2. ASSUME NEW c \in Clients, Handler(c) PROVE loaded' = loaded
  BY <1>2 DEF Handler, EnqueueStep, CheckGroup, CheckCount, AddJob, CancelSignal,
     CancelMark, Prune, RemoveNext, DeleteTree, UnlinkChunks, outsideVars,
     exceptRegistry, exceptGroups, lifeVars
<1>3. CASE Harvest
  BY <1>3 DEF Harvest, HarvestBegin, HarvestChunk, HarvestEmpty, HarvestKept,
     HarvestAutoRender, EnqueueStep, CheckGroup, CheckCount, AddJob, outsideVars,
     exceptRegistry, exceptGroups, lifeVars
<1>4. CASE Startup
  <2>1. CASE \/ SweepFind \/ SweepDiscard \/ SweepOver
             \/ ClearWork \/ Reconcile \/ FindOrphans \/ DropOrphan
    BY <2>1 DEF SweepFind, SweepDiscard, SweepOver, ClearWork, Reconcile,
                FindOrphans, DropOrphan,
       RemoveNext, outsideVars, exceptRegistry, exceptGroups, lifeVars
  <2>2. CASE StartupBuild
    <3>1. Step("startup", "clear") /\ "clear" \in PCs
      BY <2>2 DEF StartupBuild, PCs
    <3> QED BY <2>2, <3>1, StartupStep DEF StartupBuild, At, Building
  <2>3. ASSUME NEW t \in Enqueuers, FirstUse(t) PROVE Building
    BY <2>3 DEF FirstUse, At, Building, threadVars
  <2> QED BY <1>4, <2>1, <2>2, <2>3 DEF Startup
<1>5. CASE Retention
  BY <1>5 DEF Retention, RetentionCheck, RetentionTrash, outsideVars,
     exceptRegistry, exceptGroups, lifeVars
<1>6. CASE Environment /\ ~Die
  BY <1>6 DEF Environment, PrintStateChanges, Shutdown, Boot, MarkerExpires,
     exceptGroups, lifeVars
<1>7. CASE Worker \/ UNCHANGED vars
  BY <1>7 DEF Worker, vars, outsideVars, exceptRegistry, lifeVars
<1> QED BY <1>1, <1>2, <1>3, <1>4, <1>5, <1>6, <1>7 DEF Next, Environment

\* The startup thread never returns to where it does not begin.
LEMMA StartupAwake ==
  ASSUME TypeOK, [Next]_vars, RenderEnabled, pc["startup"] # "idle"
  PROVE  pc'["startup"] # "idle"
<1>0. /\ "startup" \in Threads /\ "startup" \notin Enqueuers
      /\ "startup" \notin Clients /\ ThreadTypeOK
  BY PipelineAssumption DEF Threads, Enqueuers, Background, TypeOK
<1>1. CASE Die
  BY <1>0, <1>1 DEF Die, FirstPC
<1>2. ASSUME NEW c \in Clients, Request(c) \/ Handler(c)
      PROVE  pc'["startup"] # "idle"
  BY <1>0, <1>2, ClientOnly DEF Only, Same
<1>3. CASE Harvest \/ Retention
  BY <1>0, <1>3, HarvestOnly, RetentionOnly DEF Only, Same
<1>4. CASE Startup
  <2>1. CASE \/ SweepFind \/ SweepDiscard \/ SweepOver
             \/ StartupBuild \/ ClearWork \/ Reconcile \/ FindOrphans
    BY <1>0, <2>1 DEF SweepFind, SweepDiscard, SweepOver, StartupBuild, ClearWork,
                      Reconcile, FindOrphans,
       Step, ThreadTypeOK
  <2>2. CASE DropOrphan
    BY <1>0, <2>2 DEF DropOrphan, RemoveNext, Step, ThreadTypeOK
  <2>3. ASSUME NEW t \in Enqueuers, FirstUse(t) PROVE pc'["startup"] # "idle"
    BY <2>3 DEF FirstUse, threadVars
  <2> QED BY <1>4, <2>1, <2>2, <2>3 DEF Startup
<1>5. CASE Environment /\ ~Die
  BY <1>0, <1>5 DEF Environment, PrintStateChanges, Shutdown, Boot, MarkerExpires,
     threadVars, ThreadTypeOK
<1>6. CASE Worker \/ UNCHANGED vars
  BY <1>6 DEF Worker, vars, threadVars
<1> QED BY <1>1, <1>2, <1>3, <1>4, <1>5, <1>6 DEF Next

LEMMA LoadedPreserved ==
  ASSUME TypeOK, LifeInv, IdsInv, LoadedInv, [Next]_vars
  PROVE  LoadedInv'
<1> SUFFICES ASSUME RenderEnabled PROVE LoadedInv'
  BY DEF LoadedInv
<1>0. pc'["startup"] # "idle"
  BY StartupAwake DEF LoadedInv
<1>j. loaded \subseteq JobIds /\ RegistryTypeOK
  BY DEF TypeOK, LifeTypeOK
<1>k. ~Building /\ ~Die => loaded' = loaded
  BY LoadedSteps
<1>1. CASE Worker
  <2>1. up /\ Built /\ UNCHANGED <<pc, up, nextId>>
    BY <1>1, WorkerWrites
  <2>2. loaded' = loaded
    BY <1>1 DEF Worker, lifeVars
  <2>3. \A j \in JobIds : jobs'[j] = "queued" => jobs[j] = "queued"
    BY <1>1, WorkerQueues
  <2> QED BY <1>0, <1>j, <2>1, <2>2, <2>3 DEF LoadedInv, Past
<1>2. CASE Quiet
  <2>1. UNCHANGED <<worker, nextId, up>>
    BY <1>2 DEF Quiet, QuietFiles, Settles
  <2>2. loaded' = loaded
    BY <1>k, <2>1, BuildingLoads DEF Built, Die
  <2>3. \A j \in JobIds : jobs'[j] \in {jobs[j], NoJob, "failed", "cancelled"}
    BY <1>2 DEF Quiet, Settles
  <2>4. Past(BeforeReconcile)' => Past(BeforeReconcile) \/ Active' = {}
    BY <1>2 DEF Quiet, QuietThreads
  <2>5. ASSUME Past(BeforeReconcile)', NEW j \in loaded
        PROVE  jobs'[j] # "queued"
    BY <1>j, <2>3, <2>4, <2>5 DEF LoadedInv, Active, ActiveJobStates, NoJob
  <2> QED BY <1>0, <2>1, <2>2, <2>5 DEF LoadedInv
<1>3. CASE Building
  <2>1. /\ loaded' = {j \in JobIds : saved[j] # NoJob}
        /\ worker' = "loop" /\ UNCHANGED nextId
    BY <1>3 DEF Building, BuildQueue, Load, Goto
  <2>2. \A j \in loaded' : j < nextId
    BY <1>j, <2>1 DEF IdsInv, RegistryTypeOK, JobIds
  <2>3. ~Past(BeforeReconcile)'
    <3>1. up /\ ~Past(BeforeQueue)
      BY <1>3 DEF Building, LifeInv
    <3> QED BY <1>3, <3>1 DEF Building, Past, BeforeQueue, BeforeReconcile
  <2> QED BY <1>0, <2>1, <2>2, <2>3 DEF LoadedInv
<1>4. CASE Die
  <2>1. loaded' = {} /\ worker' = "off"
    BY <1>4 DEF Die
  <2> QED BY <1>0, <2>1 DEF LoadedInv
<1>5. CASE Boot
  <2>1. UNCHANGED <<pc, loaded, nextId>> /\ pc = FirstPC
    BY <1>5 DEF Boot, threadVars, registryVars, LifeInv
  <2>2. pc'["startup"] = "sweep"
    BY <2>1 DEF FirstPC, Threads, Background
  <2> QED BY <1>0, <2>1, <2>2 DEF LoadedInv, Past, BeforeReconcile
<1>6. ASSUME NEW t \in Enqueuers, AddJob(t) PROVE LoadedInv'
  <2>1. UNCHANGED <<loaded, up>> /\ pc'["startup"] = pc["startup"]
    BY <1>6, AddWrites DEF AddJob, exceptRegistry, lifeVars
  <2>2. nextId' = nextId + 1 /\ jobs' = [jobs EXCEPT ![nextId] = "queued"]
    BY <1>6, AddWrites
  <2>3. \A j \in loaded : j \in Nat /\ nextId \in Nat /\ j < nextId
    BY <1>j DEF LoadedInv, JobIds, RegistryTypeOK
  <2>4. \A j \in loaded : j < nextId' /\ jobs'[j] = jobs[j]
    BY <1>j, <2>2, <2>3 DEF RegistryTypeOK
  <2>5. Past(BeforeReconcile)' => Past(BeforeReconcile)
    BY <2>1 DEF Past
  <2> QED BY <1>0, <2>1, <2>4, <2>5 DEF LoadedInv
<1> QED BY <1>1, <1>2, <1>3, <1>4, <1>5, <1>6, Steps

----------------------------------------------------------------------------
(* The poll. *)

LEMMA PrunePreserved ==
  ASSUME TypeOK, TypeOK', LifeInv, IdsInv, UnbuiltInv, PruneInv, [Next]_vars
  PROVE  PruneInv'
<1> SUFFICES ASSUME NEW c \in Clients, pc'[c] = "prune", NEW j \in todo'[c]
             PROVE  /\ j < nextId' /\ jobs'[j] # "queued"
                    /\ jobs'[j] \in {"concat", "render"} =>
                         j = job' /\ worker' \in Rendering
  BY DEF PruneInv
<1>0. c \in Threads /\ j \in JobIds /\ ~Die
  BY PipelineAssumption DEF Threads, Die, FirstPC, TypeOK, ThreadTypeOK, Background
<1>1. Built
  <2>1. CASE pc[c] = "idle"
    BY <1>0, <2>1, ClientMoves
       DEF Same, Request, StartRender, CancelRender, ListRawFootage,
           DeleteGroup, DeleteChunks, BeginDelete, Handler, EnqueueStep,
           CheckGroup, CheckCount, AddJob, CancelSignal, CancelMark, Prune,
           RemoveNext, DeleteTree, UnlinkChunks, At
  <2> QED BY <2>1 DEF UnbuiltInv
<1> DEFINE Settled == /\ j < nextId /\ jobs[j] # "queued"
                      /\ jobs[j] \in {"concat", "render"} =>
                           j = job /\ worker \in Rendering
<1>2. Settled
  <2>1. CASE pc[c] = "prune" /\ j \in todo[c]
    BY <2>1 DEF PruneInv
  <2>2. CASE ListRawFootage(c)
    <3>1. j \in Terminal
      BY <1>0, <2>2 DEF ListRawFootage, TypeOK, ThreadTypeOK
    <3> QED BY <1>0, <3>1
            DEF Terminal, TerminalJobStates, IdsInv, NoJob, TypeOK, RegistryTypeOK,
                JobIds
  <2>3. CASE Same(c)
    BY <2>1, <2>3 DEF Same
  <2>4. CASE Prune(c)
    BY <1>0, <2>1, <2>4 DEF Prune, RemoveNext, At, TypeOK, ThreadTypeOK
  <2>5. CASE StartRender(c) \/ CancelRender(c) \/ DeleteGroup(c) \/ DeleteChunks(c)
    BY <1>0, <2>5
       DEF StartRender, CancelRender, DeleteGroup, DeleteChunks, BeginDelete, Begin,
           Step, TypeOK, ThreadTypeOK
  <2>6. CASE CheckGroup(c) \/ CheckCount(c) \/ AddJob(c)
    BY <1>0, <2>6 DEF CheckGroup, CheckCount, AddJob, Return, Step, TypeOK,
       ThreadTypeOK
  <2>7. CASE CancelSignal(c) \/ CancelMark(c) \/ DeleteTree(c) \/ UnlinkChunks(c)
    BY <1>0, <2>7 DEF CancelSignal, CancelMark, DeleteTree, UnlinkChunks, Return,
       Step, TypeOK, ThreadTypeOK
  <2> QED BY <1>0, <2>2, <2>3, <2>4, <2>5, <2>6, <2>7, ClientMoves
          DEF Request, Handler, EnqueueStep
<1>3. CASE Worker
  <2>1. UNCHANGED nextId /\ (jobs'[j] = "queued" => jobs[j] = "queued")
    BY <1>0, <1>3, WorkerWrites, WorkerQueues
  <2>2. jobs'[j] \in {"concat", "render"} => j = job' /\ worker' \in Rendering
    BY <1>0, <1>2, <1>3, WorkerRuns
  <2> QED BY <1>2, <2>1, <2>2
<1>4. CASE Quiet
  BY <1>0, <1>2, <1>4 DEF Quiet, QuietFiles, Settles, NoJob
<1>5. ~Building
  BY <1>1 DEF Building
<1>6. CASE Boot
  BY <1>2, <1>6 DEF Boot, registryVars, workerVars
<1>7. ASSUME NEW t \in Enqueuers, AddJob(t)
      PROVE  /\ j < nextId' /\ jobs'[j] # "queued"
             /\ jobs'[j] \in {"concat", "render"} =>
                  j = job' /\ worker' \in Rendering
  <2>1. /\ nextId' = nextId + 1 /\ UNCHANGED <<worker, job>>
        /\ jobs' = [jobs EXCEPT ![nextId] = "queued"]
    BY <1>7, AddWrites
  <2>2. j \in Nat /\ nextId \in Nat /\ jobs'[j] = jobs[j]
    BY <1>0, <1>2, <2>1 DEF TypeOK, RegistryTypeOK, JobIds
  <2> QED BY <1>2, <2>1, <2>2
<1> QED BY <1>0, <1>3, <1>4, <1>5, <1>6, <1>7, Steps

----------------------------------------------------------------------------
(* Retention. *)

\* A movie is never lost.
LEMMA MoviesStay ==
  ASSUME TypeOK, LifeInv, IdsInv, [Next]_vars, NEW j \in JobIds, movies[j] > 0
  PROVE  movies'[j] > 0 /\ args'[j] = args[j]
<1>t. movies \in [JobIds -> Nat] /\ RegistryTypeOK
  BY DEF TypeOK, WorkerTypeOK
<1>1. CASE Worker
  <2>1. UNCHANGED args
    BY <1>1, WorkerWrites
  <2>2. CASE Publish
    BY <1>t, <2>1, <2>2 DEF Publish
  <2>3. CASE \/ Pick \/ Gate \/ Claim \/ Mark \/ Resolve
    BY <2>1, <2>3 DEF Pick, Gate, Claim, Mark, Resolve, fileVars
  <2>4. CASE ConcatStart \/ ConcatEnd \/ EncodeStart \/ EncodeProgress \/ EncodeEnd
    BY <2>1, <2>4 DEF ConcatStart, ConcatEnd, EncodeStart, EncodeProgress,
       EncodeEnd, fileVars
  <2>5. CASE Tidy \/ Stamp \/ FinishDone \/ FinishFailed \/ Release
    BY <2>1, <2>5 DEF Tidy, Stamp, FinishDone, FinishFailed, Release, fileVars
  <2> QED BY <1>1, <2>2, <2>3, <2>4, <2>5 DEF Worker, WorkerNext
<1>2. CASE Quiet
  BY <1>2 DEF Quiet, QuietFiles, Settles
<1>3. CASE Building \/ Die \/ Boot
  BY <1>3, BuildingLoads DEF Building, Die, Boot, fileVars, registryVars
<1>4. ASSUME NEW t \in Enqueuers, AddJob(t)
      PROVE  movies'[j] > 0 /\ args'[j] = args[j]
  <2>1. /\ nextId \in JobIds /\ UNCHANGED movies
        /\ args' = [args EXCEPT ![nextId] = req[t]]
    BY <1>4, AddWrites
  <2>2. j # nextId
    BY <1>t, <2>1 DEF IdsInv, JobIds
  <2> QED BY <1>t, <2>1, <2>2 DEF RegistryTypeOK
<1> QED BY <1>1, <1>2, <1>3, <1>4, Steps

LEMMA RetentionMoves ==
  ASSUME TypeOK, [Next]_vars
  PROVE  Same("retention") \/ Die \/ Retention
<1>1. "retention" \in Threads /\ "retention" \notin Clients
  BY PipelineAssumption DEF Threads, Background
<1>2. ThreadTypeOK
  BY DEF TypeOK
<1>3. ASSUME NEW d \in Clients, Request(d) \/ Handler(d) PROVE Same("retention")
  BY <1>1, <1>2, <1>3, ClientOnly DEF Only
<1> QED BY <1>1, <1>2, <1>3, HarvestOnly, StartupOnly, OthersOnly DEF Next, Only

LEMMA RetentionPreserved ==
  ASSUME TypeOK, LifeInv, IdsInv, MovieInv, RetentionInv, [Next]_vars
  PROVE  RetentionInv'
<1> SUFFICES ASSUME pc'["retention"] = "trash"
             PROVE  \E j \in JobIds : /\ args'[j].group = req'["retention"].group
                                      /\ movies'[j] > 0
  BY DEF RetentionInv
<1>0. "retention" \in Threads /\ ThreadTypeOK
  BY DEF Threads, Background, TypeOK
<1>1. CASE Same("retention")
  <2>1. PICK j \in JobIds : args[j].group = req["retention"].group /\ movies[j] > 0
    BY <1>1 DEF Same, RetentionInv
  <2> QED BY <1>1, <2>1, MoviesStay DEF Same
<1>2. CASE RetentionCheck
  <2>1. PICK g \in Groups :
          /\ group[g].marker = "expired"
          /\ req' = [req EXCEPT !["retention"] = [group |-> g, chunks |-> {}]]
    BY <1>2 DEF RetentionCheck
  <2>2. PICK j \in JobIds : args[j].group = g /\ movies[j] > 0
    BY <2>1 DEF MovieInv, RenderedMeansMovie
  <2>3. req'["retention"].group = g
    BY <1>0, <2>1 DEF ThreadTypeOK
  <2> QED BY <2>2, <2>3, MoviesStay
<1>3. ~Die
  BY <1>0 DEF Die, FirstPC
<1>4. ~RetentionTrash
  BY <1>0 DEF RetentionTrash, Return, Step, ThreadTypeOK
<1> QED BY <1>1, <1>2, <1>3, <1>4, RetentionMoves DEF Retention

\* A group loses chunks only to a discard, to retention or to the sweep.
LEMMA ChunkLosses ==
  ASSUME TypeOK, HarvestInv, [Next]_vars, NEW g \in Groups,
         ~(group[g].chunks \subseteq group'[g].chunks)
  PROVE  \/ \E c \in Clients : pc[c] \in {"rmtree", "unlink"} /\ req[c].group = g
         \/ pc["retention"] = "trash" /\ req["retention"].group = g
         \/ pc["startup"] = "discard" /\ req["startup"].group = g
<1>w. WorkerTypeOK
  BY DEF TypeOK
<1>1. ASSUME NEW c \in Clients, DeleteTree(c) \/ UnlinkChunks(c)
      PROVE  pc[c] \in {"rmtree", "unlink"} /\ req[c].group = g
  BY <1>w, <1>1, RemovesOne, UnlinksOne DEF DeleteTree, UnlinkChunks, At
<1>2. CASE RetentionTrash
  BY <1>w, <1>2, RemovesOne DEF RetentionTrash, At
<1>3. CASE SweepDiscard
  BY <1>w, <1>3, RemovesOne DEF SweepDiscard, At
<1>4. ~HarvestEmpty
  <2> SUFFICES ASSUME HarvestEmpty PROVE FALSE
    OBVIOUS
  <2>1. /\ req["harvest"].chunks = {} /\ RemoveGroup(req["harvest"].group)
        /\ group[req["harvest"].group].chunks \subseteq req["harvest"].chunks
    BY DEF HarvestEmpty, At, HarvestInv
  <2> QED BY <1>w, <2>1, RemovesOne
<1>5. ~HarvestChunk
  <2> SUFFICES ASSUME HarvestChunk PROVE FALSE
    OBVIOUS
  <2>1. PICK h, c : group' = [group EXCEPT ![h] =
                                [group[h] EXCEPT !.chunks = group[h].chunks \cup {c}]]
    BY DEF HarvestChunk
  <2>2. group[g] \in GroupStates
    BY <1>w DEF WorkerTypeOK
  <2> QED BY <1>w, <2>1, <2>2 DEF WorkerTypeOK, GroupStates
<1>6. ~KeepsChunks
  BY DEF KeepsChunks
<1> QED BY <1>1, <1>2, <1>3, <1>4, <1>5, <1>6, ChunkSteps DEF MovesChunks

----------------------------------------------------------------------------
(* How many jobs of a group can be active. *)

\* A thread gets between the check of a group and the insertion only by the
\* check, and stays there with its request.
LEMMA EnqueueArrives ==
  ASSUME TypeOK, [Next]_vars, NEW t \in Enqueuers,
         pc'[t] \in {"check_count", "add"}
  PROVE  /\ req'[t] = req[t]
         /\ \/ pc[t] \in {"check_count", "add"} /\ ~AddJob(t)
            \/ ~ActiveForGroup(req[t].group) /\ UNCHANGED registryVars
<1> DEFINE In == pc[t] \in {"check_count", "add"}
<1>0. t \in Threads /\ t # "startup" /\ t # "retention"
  BY PipelineAssumption DEF Enqueuers, Threads, Background
<1>1. CASE CheckGroup(t) \/ CheckCount(t)
  <2>1. ~Return(t)
    BY <1>0 DEF Return, Step, TypeOK, ThreadTypeOK
  <2>2. UNCHANGED <<req, registryVars>>
    BY <1>1, <2>1 DEF CheckGroup, CheckCount, locals, outsideVars
  <2>3. ~AddJob(t)
    BY <2>1 DEF AddJob
  <2> QED BY <1>1, <2>1, <2>2, <2>3 DEF CheckGroup, CheckCount, At, EnqueuePCs
<1>2. CASE Same(t)
  <2>1. ~AddJob(t)
    BY <1>0, <1>2 DEF AddJob, Return, Step, Same, TypeOK, ThreadTypeOK
  <2> QED BY <1>2, <2>1 DEF Same, EnqueuePCs
<1>3. CASE Die
  BY <1>0, <1>3 DEF Die, FirstPC
<1>4. ASSUME t \in Clients, Request(t) \/ Handler(t), ~CheckGroup(t), ~CheckCount(t)
      PROVE  FALSE
  <2>1. PICK to \in PCs \ {"check_count", "add"} : Step(t, to)
    <3>1. {"idle", "check_group", "signal", "prune", "rmtree", "unlink", "cancel"}
            \subseteq PCs \ {"check_count", "add"}
      BY DEF PCs, EnqueuePCs
    <3>2. CASE Request(t)
      BY <3>1, <3>2 DEF Request, StartRender, CancelRender, ListRawFootage,
         DeleteGroup, DeleteChunks, BeginDelete, Begin
    <3>3. CASE AddJob(t) \/ CancelSignal(t) \/ CancelMark(t)
      BY <3>1, <3>3 DEF AddJob, CancelSignal, CancelMark, Return
    <3>4. CASE Prune(t) \/ DeleteTree(t) \/ UnlinkChunks(t)
      BY <3>1, <3>4 DEF Prune, RemoveNext, DeleteTree, UnlinkChunks, Return
    <3> QED BY <1>4, <3>2, <3>3, <3>4 DEF Handler, EnqueueStep
  <2> QED BY <1>0, <2>1 DEF Step, TypeOK, ThreadTypeOK
<1>5. ASSUME t = "harvest", Harvest, ~CheckGroup(t), ~CheckCount(t), ~Same(t)
      PROVE  FALSE
  <2>1. CASE HarvestBegin \/ HarvestEmpty \/ HarvestKept \/ HarvestAutoRender
             \/ AddJob("harvest")
    BY <1>0, <1>5, <2>1
       DEF HarvestBegin, Begin, HarvestEmpty, HarvestKept, HarvestAutoRender,
           AddJob, Return, Step, TypeOK, ThreadTypeOK
  <2>2. CASE HarvestChunk
    BY <1>5, <2>2 DEF HarvestChunk, At
  <2> QED BY <1>5, <2>1, <2>2 DEF Harvest, EnqueueStep
<1> QED BY <1>1, <1>2, <1>3, <1>4, <1>5, ClientMoves, HarvestMoves DEF Enqueuers

LEMMA EnqueuersFinite ==
  IsFiniteSet(Enqueuers) /\ Cardinality(Enqueuers) \in Nat
<1>1. IsFiniteSet(Enqueuers)
  BY PipelineAssumption, FS_AddElement DEF Enqueuers
<1> QED BY <1>1, FS_CardinalityType

LEMMA BookingSets ==
  ASSUME NEW g
  PROVE  /\ IsFiniteSet(Claims(g)) /\ Cardinality(Claims(g)) \in Nat
         /\ IsFiniteSet(Waiting(g)) /\ Cardinality(Waiting(g)) \in Nat
         /\ IsFiniteSet(Booking(g)) /\ Cardinality(Booking(g)) \in Nat
         /\ IsFiniteSet(Recorded(g)) /\ Cardinality(Recorded(g)) \in Nat
<1>1. /\ Claims(g) \subseteq JobIds /\ Waiting(g) \subseteq JobIds
      /\ Recorded(g) \subseteq JobIds
  BY DEF Claims, Waiting, Recorded
<1>2. Booking(g) \subseteq Enqueuers
  BY DEF Booking
<1> QED BY <1>1, <1>2, JobSetsFinite, EnqueuersFinite, FS_Subset, FS_CardinalityType

LEMMA BookingSetsNext ==
  ASSUME NEW g
  PROVE  /\ IsFiniteSet(Claims(g)') /\ Cardinality(Claims(g)') \in Nat
         /\ IsFiniteSet(Waiting(g)') /\ Cardinality(Waiting(g)') \in Nat
         /\ IsFiniteSet(Booking(g)') /\ Cardinality(Booking(g)') \in Nat
         /\ IsFiniteSet(Recorded(g)') /\ Cardinality(Recorded(g)') \in Nat
<1>1. /\ Claims(g)' \subseteq JobIds /\ Waiting(g)' \subseteq JobIds
      /\ Recorded(g)' \subseteq JobIds
  BY DEF Claims, Waiting, Recorded
<1>2. Booking(g)' \subseteq Enqueuers
  BY DEF Booking
<1> QED BY <1>1, <1>2, JobSetsFinite, EnqueuersFinite, FS_Subset, FS_CardinalityType

\* jobs.json follows the map, so what bounds the claims bounds it.
LEMMA RecordedBound ==
  ASSUME NEW g, Booked(g), Cardinality(Claims(g)') <= Cardinality(Enqueuers) + 1,
         \/ saved' = jobs'
         \/ Recorded(g)' \subseteq Recorded(g)
  PROVE  Cardinality(Recorded(g)') <= Cardinality(Enqueuers) + 1
<1>1. CASE saved' = jobs'
  <2>1. Recorded(g)' \subseteq Claims(g)'
    BY <1>1 DEF Recorded, Claims
  <2>2. Cardinality(Recorded(g)') <= Cardinality(Claims(g)')
    BY <2>1, BookingSetsNext, FS_Subset
  <2> QED BY <2>2, BookingSetsNext, EnqueuersFinite
<1>2. CASE Recorded(g)' \subseteq Recorded(g)
  <2>1. Cardinality(Recorded(g)') <= Cardinality(Recorded(g))
    BY <1>2, BookingSets, FS_Subset
  <2> QED BY <2>1, BookingSets, BookingSetsNext, EnqueuersFinite DEF Booked
<1> QED BY <1>1, <1>2

\* A step that adds no job to what a group is booked for.
LEMMA BookedShrinks ==
  ASSUME NEW g, Booked(g), Claims(g)' \subseteq Claims(g),
         Waiting(g)' \subseteq Waiting(g),
         Booking(g)' \subseteq Booking(g) \/ Waiting(g)' = {},
         saved' = jobs' \/ Recorded(g)' \subseteq Recorded(g)
  PROVE  Booked(g)'
<1>1. Cardinality(Claims(g)') <= Cardinality(Enqueuers) + 1
  <2>1. Cardinality(Claims(g)') <= Cardinality(Claims(g))
    BY BookingSets, FS_Subset
  <2> QED BY <2>1, BookingSets, BookingSetsNext, EnqueuersFinite DEF Booked
<1>2. ASSUME Booking(g)' # {}
      PROVE  Cardinality(Waiting(g)') + Cardinality(Booking(g)')
               <= Cardinality(Enqueuers)
  <2>1. CASE Waiting(g)' = {}
    <3>1. Booking(g)' \subseteq Enqueuers
      BY DEF Booking
    <3>2. Cardinality(Booking(g)') <= Cardinality(Enqueuers)
      BY <3>1, EnqueuersFinite, FS_Subset
    <3> QED BY <2>1, <3>2, FS_EmptySet, BookingSetsNext, EnqueuersFinite
  <2>2. CASE Booking(g)' \subseteq Booking(g)
    <3>1. /\ Cardinality(Booking(g)') <= Cardinality(Booking(g))
          /\ Cardinality(Waiting(g)') <= Cardinality(Waiting(g))
      BY <2>2, BookingSets, FS_Subset
    <3>2. Cardinality(Waiting(g)) + Cardinality(Booking(g)) <= Cardinality(Enqueuers)
      BY <1>2, <2>2 DEF Booked
    <3> QED BY <3>1, <3>2, BookingSets, BookingSetsNext, EnqueuersFinite
  <2> QED BY <2>1, <2>2
<1> QED BY <1>1, <1>2, RecordedBound DEF Booked

\* The insertion takes the place of the thread that inserts.
LEMMA BookedAdds ==
  ASSUME TypeOK, IdsInv, NEW t \in Enqueuers, AddJob(t), [Next]_vars,
         NEW g, g = req[t].group, Booked(g)
  PROVE  Booked(g)'
<1>1. /\ nextId \in JobIds /\ pc[t] = "add"
      /\ jobs' = [jobs EXCEPT ![nextId] = "queued"]
      /\ args' = [args EXCEPT ![nextId] = req[t]]
      /\ saved' = saved \/ saved' = jobs'
      /\ pc' = [pc EXCEPT ![t] = "idle"]
      /\ UNCHANGED <<worker, job>>
  BY AddWrites
<1>2. \A j \in JobIds \ {nextId} : jobs'[j] = jobs[j] /\ args'[j] = args[j]
  BY <1>1 DEF TypeOK, RegistryTypeOK
<1>3. Waiting(g)' \subseteq Waiting(g) \cup {nextId}
  BY <1>1, <1>2 DEF Waiting
<1>4. Claims(g)' \subseteq Waiting(g)' \cup {job}
  BY <1>1 DEF Claims, Waiting
<1>5. t \in Booking(g) /\ Booking(g)' \subseteq Booking(g) \ {t}
  <2>1. t \in Booking(g)
    BY <1>1 DEF Booking
  <2>2. ASSUME NEW u \in Booking(g)' PROVE u \in Booking(g) \ {t}
    <3>1. u \in Enqueuers /\ pc'[u] \in {"check_count", "add"} /\ req'[u].group = g
      BY DEF Booking
    <3>2. t \in Threads /\ u \in Threads
      BY <3>1 DEF Enqueuers, Threads, Background
    <3>3. u # t
      BY <1>1, <3>1, <3>2 DEF TypeOK, ThreadTypeOK
    <3>4. pc[u] = pc'[u] /\ req'[u] = req[u]
      BY <1>1, <3>1, <3>2, <3>3, EnqueueArrives DEF TypeOK, ThreadTypeOK
    <3> QED BY <3>1, <3>3, <3>4 DEF Booking
  <2> QED BY <2>1, <2>2
<1>6. Cardinality(Waiting(g)) + Cardinality(Booking(g)) <= Cardinality(Enqueuers)
  BY <1>5 DEF Booked
<1>7. Cardinality(Waiting(g)') <= Cardinality(Waiting(g)) + 1
  <2>1. /\ IsFiniteSet(Waiting(g) \cup {nextId})
        /\ Cardinality(Waiting(g) \cup {nextId}) \in
             {Cardinality(Waiting(g)), Cardinality(Waiting(g)) + 1}
    BY BookingSets, FS_AddElement
  <2>2. Cardinality(Waiting(g)') <= Cardinality(Waiting(g) \cup {nextId})
    BY <1>3, <2>1, FS_Subset
  <2> QED BY <2>1, <2>2, BookingSets, BookingSetsNext
<1>8. Cardinality(Booking(g)') <= Cardinality(Booking(g)) - 1
  <2>1. /\ IsFiniteSet(Booking(g) \ {t})
        /\ Cardinality(Booking(g) \ {t}) = Cardinality(Booking(g)) - 1
    BY <1>5, BookingSets, FS_RemoveElement
  <2> QED BY <1>5, <2>1, FS_Subset
<1>9. Cardinality(Waiting(g)') + Cardinality(Booking(g)') <= Cardinality(Enqueuers)
  BY <1>6, <1>7, <1>8, BookingSets, BookingSetsNext, EnqueuersFinite
<1>10. Cardinality(Claims(g)') <= Cardinality(Enqueuers) + 1
  <2>1. /\ IsFiniteSet(Waiting(g)' \cup {job})
        /\ Cardinality(Waiting(g)' \cup {job}) \in
             {Cardinality(Waiting(g)'), Cardinality(Waiting(g)') + 1}
    BY BookingSetsNext, FS_AddElement
  <2>2. Cardinality(Claims(g)') <= Cardinality(Waiting(g)' \cup {job})
    BY <1>4, <2>1, FS_Subset
  <2> QED BY <1>9, <2>1, <2>2, BookingSetsNext, EnqueuersFinite
<1>11. saved' = jobs' \/ Recorded(g)' \subseteq Recorded(g)
  <2>1. saved[nextId] = NoJob
    BY <1>1 DEF IdsInv, TypeOK, RegistryTypeOK
  <2> QED BY <1>1, <1>2, <2>1 DEF Recorded, ActiveJobStates, NoJob
<1> QED BY <1>9, <1>10, <1>11, RecordedBound DEF Booked

\* A thread gets on its way to the insertion only if no job of the group is
\* active, and so none of it waits.
LEMMA BookingGrows ==
  ASSUME TypeOK, [Next]_vars, NEW g
  PROVE  \/ Booking(g)' \subseteq Booking(g)
         \/ Waiting(g)' = {} /\ UNCHANGED registryVars
<1>1. ASSUME NEW t \in Booking(g)', t \notin Booking(g)
      PROVE  Waiting(g)' = {} /\ UNCHANGED registryVars
  <2>1. t \in Enqueuers /\ pc'[t] \in {"check_count", "add"} /\ req'[t].group = g
    BY DEF Booking
  <2>2. req'[t] = req[t] /\ ~ActiveForGroup(g) /\ UNCHANGED registryVars
    BY <1>1, <2>1, EnqueueArrives DEF Booking
  <2> QED BY <2>2 DEF ActiveForGroup, Active, Waiting, registryVars
<1> QED BY <1>1

\* The job the worker lets go of stays settled until then.
LEMMA ReleasePreserved ==
  ASSUME TypeOK, TypeOK', LifeInv, IdsInv, [Next]_vars,
         worker = "release" => jobs[job] \notin ActiveJobStates,
         worker' = "release"
  PROVE  jobs'[job'] \notin ActiveJobStates
<1>j. job' \in JobIds
  BY DEF TypeOK, WorkerTypeOK
<1>1. CASE Worker
  BY <1>1, <1>j, WorkerReleases
<1>2. CASE Quiet
  BY <1>2, <1>j DEF Quiet, QuietFiles, Settles, ActiveJobStates, NoJob
<1>3. CASE Building \/ Die
  BY <1>3, BuildingLoads DEF Die
<1>4. CASE Boot
  BY <1>4 DEF Boot, registryVars, workerVars
<1>5. ASSUME NEW t \in Enqueuers, AddJob(t) PROVE jobs'[job'] \notin ActiveJobStates
  <2>1. /\ UNCHANGED <<worker, job>> /\ nextId \in JobIds
        /\ jobs' = [jobs EXCEPT ![nextId] = "queued"]
    BY <1>5, AddWrites
  <2>2. job # nextId
    BY <2>1 DEF IdsInv, JobIds
  <2> QED BY <1>j, <2>1, <2>2 DEF TypeOK, RegistryTypeOK
<1> QED BY <1>1, <1>2, <1>3, <1>4, <1>5, Steps

LEMMA BookedPreserved ==
  ASSUME TypeOK, TypeOK', LifeInv, IdsInv, BookedInv, [Next]_vars
  PROVE  BookedInv'
<1> SUFFICES ASSUME NEW g \in Groups PROVE Booked(g)'
  <2>1. worker' = "release" => jobs'[job'] \notin ActiveJobStates
    BY ReleasePreserved DEF BookedInv
  <2> QED BY <2>1 DEF BookedInv
<1>b. Booked(g) /\ (worker = "release" => jobs[job] \notin ActiveJobStates)
  BY DEF BookedInv
<1>g. Booking(g)' \subseteq Booking(g) \/ Waiting(g)' = {}
  BY BookingGrows
<1>1. CASE Worker
  <2>1. UNCHANGED args /\ (saved' = saved \/ saved' = jobs')
    <3>1. CASE UNCHANGED registryVars
      BY <3>1 DEF registryVars
    <3> QED BY <1>1, <3>1, WorkerWrites, UpdateWrites DEF TypeOK
  <2>2. Claims(g)' \subseteq Claims(g)
    BY <1>1, <2>1, WorkerActs
       DEF Claims, Holding, Writing, Rendering, Claimed, ActiveJobStates
  <2>3. Waiting(g)' \subseteq Waiting(g)
    BY <1>1, <1>b, <2>1, WorkerActs DEF Waiting
  <2>4. saved' = jobs' \/ Recorded(g)' \subseteq Recorded(g)
    BY <2>1 DEF Recorded
  <2> QED BY <1>b, <1>g, <2>2, <2>3, <2>4, BookedShrinks
<1>2. CASE Quiet
  <2>1. /\ UNCHANGED <<worker, job, args>>
        /\ saved' = saved \/ saved' = jobs'
        /\ \A j \in JobIds : jobs'[j] \in ActiveJobStates => jobs[j] = jobs'[j]
    BY <1>2 DEF Quiet, QuietFiles, Settles, ActiveJobStates, NoJob
  <2>2. Claims(g)' \subseteq Claims(g) /\ Waiting(g)' \subseteq Waiting(g)
    BY <2>1 DEF Claims, Waiting
  <2>3. saved' = jobs' \/ Recorded(g)' \subseteq Recorded(g)
    BY <2>1 DEF Recorded
  <2> QED BY <1>b, <1>g, <2>2, <2>3, BookedShrinks
<1>3. CASE Building
  <2>1. /\ jobs' = saved /\ UNCHANGED <<saved, args>> /\ worker' = "loop"
    BY <1>3, BuildingLoads
  <2>2. Claims(g)' = Recorded(g) /\ Recorded(g)' = Recorded(g)
    BY <2>1 DEF Claims, Recorded, Holding, Writing, Rendering, Claimed
  <2>3. Booking(g)' = {}
    <3>1. Enqueuing = {}
      BY <1>3 DEF Building, LifeInv
    <3> QED BY <1>3, <3>1 DEF Building, Booking, Enqueuing, EnqueuePCs
  <2> QED BY <1>b, <2>2, <2>3 DEF Booked
<1>4. CASE Die
  <2>1. /\ \A j \in JobIds : jobs'[j] = NoJob
        /\ worker' = "off" /\ UNCHANGED <<saved, args>>
    BY <1>4 DEF Die
  <2>2. Claims(g)' = {} /\ Waiting(g)' = {} /\ Recorded(g)' = Recorded(g)
    BY <2>1 DEF Claims, Waiting, Recorded, Holding, Writing, Rendering, Claimed,
       ActiveJobStates, NoJob
  <2> QED BY <1>b, <2>2, BookedShrinks
<1>5. CASE Boot
  <2>1. UNCHANGED <<jobs, saved, args, worker, job>>
    BY <1>5 DEF Boot, registryVars, workerVars
  <2>2. /\ Claims(g)' = Claims(g) /\ Waiting(g)' = Waiting(g)
        /\ Recorded(g)' = Recorded(g)
    BY <2>1 DEF Claims, Waiting, Recorded
  <2> QED BY <1>b, <1>g, <2>2, BookedShrinks
<1>6. ASSUME NEW t \in Enqueuers, AddJob(t) PROVE Booked(g)'
  <2>1. CASE req[t].group = g
    BY <1>6, <1>b, <2>1, BookedAdds
  <2>2. CASE req[t].group # g
    <3>1. /\ nextId \in JobIds /\ UNCHANGED <<worker, job>>
          /\ jobs' = [jobs EXCEPT ![nextId] = "queued"]
          /\ args' = [args EXCEPT ![nextId] = req[t]]
          /\ saved' = saved \/ saved' = jobs'
      BY <1>6, AddWrites
    <3>2. \A j \in JobIds : /\ args'[j].group = g => j # nextId
                            /\ j # nextId => jobs'[j] = jobs[j] /\ args'[j] = args[j]
      BY <2>2, <3>1 DEF TypeOK, RegistryTypeOK
    <3>3. Claims(g)' \subseteq Claims(g) /\ Waiting(g)' \subseteq Waiting(g)
      BY <3>1, <3>2 DEF Claims, Waiting
    <3>4. saved' = jobs' \/ Recorded(g)' \subseteq Recorded(g)
      BY <3>1, <3>2 DEF Recorded
    <3> QED BY <1>b, <1>g, <3>3, <3>4, BookedShrinks
  <2> QED BY <2>1, <2>2
<1> QED BY <1>1, <1>2, <1>3, <1>4, <1>5, <1>6, Steps

----------------------------------------------------------------------------
(* The theorems. *)

LEMMA InitOverlap == Init => OverlapInv
<1> SUFFICES ASSUME Init PROVE OverlapInv
  OBVIOUS
<1> USE DEF Init, RegistryInit, WorkerInit
<1>1. \A t \in Threads : pc[t] \in {"idle", "sweep"}
  BY DEF FirstPC
<1>2. /\ Clients \subseteq Threads /\ Enqueuers \subseteq Threads
      /\ "retention" \in Threads /\ "harvest" \in Threads
  BY DEF Threads, Enqueuers, Background
<1>3. PruneInv /\ HarvestInv /\ RetentionInv
  BY <1>1, <1>2 DEF PruneInv, HarvestInv, RetentionInv
<1>4. UnbuiltInv
  BY <1>2, PipelineAssumption DEF UnbuiltInv, FirstPC, Background
<1>5. LoadedInv
  <2>1. RenderEnabled => pc["startup"] = "sweep"
    BY DEF FirstPC, Threads, Background
  <2> QED BY <2>1 DEF LoadedInv, Past, BeforeReconcile
<1>6. BookedInv
  <2>1. \A g : Claims(g) = {} /\ Booking(g) = {} /\ Recorded(g) = {}
    BY <1>1, <1>2 DEF Claims, Booking, Recorded, Holding, Writing, Rendering,
       Claimed, ActiveJobStates, NoJob
  <2>2. Cardinality({}) = 0
    BY FS_EmptySet
  <2>3. \A g : Booked(g)
    BY <2>1, <2>2, EnqueuersFinite DEF Booked
  <2> QED BY <2>3 DEF BookedInv
<1> QED BY <1>3, <1>4, <1>5, <1>6 DEF OverlapInv

LEMMA NextOverlap ==
  ASSUME SafetyInv, SafetyInv', OverlapInv, [Next]_vars
  PROVE  OverlapInv'
<1>1. TypeOK /\ TypeOK' /\ LifeInv /\ IdsInv /\ MovieInv
  BY DEF SafetyInv
<1> QED
  BY <1>1, PrunePreserved, UnbuiltPreserved, HarvestPreserved, RetentionPreserved,
     LoadedPreserved, BookedPreserved DEF OverlapInv

LEMMA AlwaysOverlap == Spec => []OverlapInv
<1> QED BY InitOverlap, NextOverlap, AlwaysSafe, PTL DEF Spec

\* However requests and the harvest interleave, and however often the process
\* is restarted, a group has at most one active job for each thread that may
\* enqueue, and the worker's.
THEOREM GroupOverbooking == Spec => []GroupOvershoot
<1>1. OverlapInv => GroupOvershoot
  <2> SUFFICES ASSUME OverlapInv, NEW g \in Groups
               PROVE  Cardinality(ActiveOf(g)) <= Cardinality(Enqueuers) + 1
    BY DEF GroupOvershoot
  <2>1. ActiveOf(g) \subseteq Claims(g)
    BY DEF ActiveOf, Active, Claims
  <2>2. /\ Cardinality(ActiveOf(g)) <= Cardinality(Claims(g))
        /\ Cardinality(ActiveOf(g)) \in Nat
    BY <2>1, BookingSets, FS_Subset, FS_CardinalityType
  <2> QED BY <2>2, BookingSets, EnqueuersFinite DEF OverlapInv, BookedInv, Booked
<1> QED BY <1>1, AlwaysOverlap, PTL

\* A poll of the queue table never drops a job that waits, and of the active
\* ones only the job the worker runs.
THEOREM PollsSpare == Spec => []PruneSpares
<1>1. TypeOK /\ OverlapInv => PruneSpares
  BY DEF OverlapInv, PruneInv, PruneSpares, Active, ActiveJobStates
<1> QED BY <1>1, AlwaysOverlap, TypeCorrect, PTL

\* Once recover() is through, no job of an earlier process waits, and none is
\* active but the one the worker renders.
THEOREM LastProcessSettled == Spec => []OldJobsSettled
<1>1. SafetyInv /\ OverlapInv => OldJobsSettled
  <2> SUFFICES ASSUME SafetyInv, OverlapInv, up, RenderEnabled, Recovered,
                      NEW j \in loaded, j \in Active
               PROVE  j = job /\ worker \in Rendering /\ jobs[j] # "queued"
    BY DEF OldJobsSettled
  <2>1. Past(BeforeReconcile)
    BY DEF OverlapInv, LoadedInv, Past, BeforeReconcile, Recovered
  <2>2. jobs[j] # "queued"
    BY <2>1 DEF OverlapInv, LoadedInv
  <2>3. j \in JobIds /\ jobs[j] \in {"concat", "render"}
    BY <2>2 DEF Active, ActiveJobStates
  <2> QED BY <2>1, <2>2, <2>3 DEF SafetyInv, NoGhostJobs, BeforeReconcile
<1> QED BY <1>1, AlwaysOverlap, AlwaysSafe, PTL

\* Chunks leave the disk by a user's discard, after a movie of their group, or
\* with a group the startup sweep had found empty, and in no other way.
THEOREM ChunksOutlive == Spec => FootageOutlives
<1>1. TypeOK /\ OverlapInv /\ [Next]_vars =>
        [\A g \in Groups :
           \/ group[g].chunks \subseteq (group[g].chunks)'
           \/ \E c \in Clients : pc[c] \in {"rmtree", "unlink"} /\ req[c].group = g
           \/ \E j \in JobIds : args[j].group = g /\ movies[j] > 0
           \/ pc["startup"] = "discard" /\ req["startup"].group = g]_vars
  BY ChunkLosses DEF OverlapInv, RetentionInv
<1> QED BY <1>1, AlwaysOverlap, TypeCorrect, PTL DEF Spec, FootageOutlives
=============================================================================
