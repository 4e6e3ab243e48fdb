---------------------------- MODULE JobRegistry ----------------------------
(* The render job registry (render_registry.py, class JobRegistry): the      *)
(* insertion-ordered map of render jobs, guarded by its own lock, and its    *)
(* mirror jobs.json.  Every operation below is one critical section of that  *)
(* lock, so it is one atomic step; what a caller does between two operations *)
(* is not atomic, and the modules that extend this one model it step by step.*)
(*                                                                           *)
(* A job is its state; the fields fixed at creation (print_id, chunks) are   *)
(* in args.  Ids are handed out in the order of insertion, so the oldest job *)
(* is the one with the smallest id.  preset, percent, output and reason are  *)
(* left out: no decision of the code reads them.                             *)
EXTENDS Integers, FiniteSets

CONSTANTS
  Groups,      \* print-ids of the harvested chunk groups
  NoGroup,     \* the absence of a group
  Chunks,      \* chunk file names within a group
  MaxJobs,     \* bound: jobs ever created
  DiskFaults   \* may a write of jobs.json fail?

ASSUME RegistryAssumption ==
  /\ NoGroup \notin Groups
  /\ MaxJobs \in Nat
  /\ DiskFaults \in BOOLEAN

VARIABLES
  jobs,        \* _jobs: the state of each job, in memory
  saved,       \* jobs.json: the state of each job, on disk
  args,        \* print_id and chunks of each job ever created
  nextId       \* the next job id

registryVars == <<jobs, saved, args, nextId>>

----------------------------------------------------------------------------

JobIds == 1..MaxJobs

ActiveJobStates == {"queued", "concat", "render"}
TerminalJobStates == {"done", "failed", "cancelled"}

\* A job that is not in the map.
NoJob == "absent"
JobStates == ActiveJobStates \cup TerminalJobStates \cup {NoJob}

Selection == [group: Groups \cup {NoGroup}, chunks: SUBSET Chunks]
NoSelection == [group |-> NoGroup, chunks |-> {}]

RegistryTypeOK ==
  /\ jobs \in [JobIds -> JobStates]
  /\ saved \in [JobIds -> JobStates]
  /\ args \in [JobIds -> Selection]
  /\ nextId \in 1..(MaxJobs + 1)

RegistryInit ==
  /\ jobs = [j \in JobIds |-> NoJob]
  /\ saved = [j \in JobIds |-> NoJob]
  /\ args = [j \in JobIds |-> NoSelection]
  /\ nextId = 1

----------------------------------------------------------------------------
(* Reads. *)

Active == {j \in JobIds : jobs[j] \in ActiveJobStates}
Queued == {j \in JobIds : jobs[j] = "queued"}
Terminal == {j \in JobIds : jobs[j] \in TerminalJobStates}

ActiveForGroup(g) == \E j \in Active : args[j].group = g

----------------------------------------------------------------------------
(* Writes.  Each replaces the map and persists it: tmp file, fsync, rename.  *)
(* A failed write is logged and leaves the previous jobs.json in place.      *)

Persist(map) ==
  /\ jobs' = map
  /\ saved' \in {map} \cup (IF DiskFaults THEN {saved} ELSE {})

Add(sel) ==
  /\ nextId \in JobIds
  /\ Persist([jobs EXCEPT ![nextId] = "queued"])
  /\ args' = [args EXCEPT ![nextId] = sel]
  /\ nextId' = nextId + 1

\* update() of a job that is no longer in the map returns None.
Update(j, state) ==
  /\ IF jobs[j] = NoJob
       THEN UNCHANGED <<jobs, saved>>
       ELSE Persist([jobs EXCEPT ![j] = state])
  /\ UNCHANGED <<args, nextId>>

Remove(j) ==
  /\ IF jobs[j] = NoJob
       THEN UNCHANGED <<jobs, saved>>
       ELSE Persist([jobs EXCEPT ![j] = NoJob])
  /\ UNCHANGED <<args, nextId>>

\* Variant: the reason is written where the state belongs.
ReconcileWrongField ==
  /\ Persist([j \in JobIds |-> IF j \in Active THEN "interrupted"
                                                ELSE jobs[j]])
  /\ UNCHANGED <<args, nextId>>

\* Variant: only the jobs in their first phase are taken for interrupted.
ReconcileConcatOnly ==
  /\ Persist([j \in JobIds |-> IF jobs[j] \in {"queued", "concat"}
                                 THEN "failed" ELSE jobs[j]])
  /\ UNCHANGED <<args, nextId>>

\* Variant: only the jobs that had begun are taken for interrupted.
ReconcileRunningOnly ==
  /\ Persist([j \in JobIds |-> IF jobs[j] \in {"concat", "render"}
                                 THEN "failed" ELSE jobs[j]])
  /\ UNCHANGED <<args, nextId>>

\* Every job found active is failed ("interrupted"), the queued ones too.
ReconcileActive ==
  /\ IF Active = {}
       THEN UNCHANGED <<jobs, saved>>
       ELSE Persist([j \in JobIds |-> IF j \in Active THEN "failed"
                                                      ELSE jobs[j]])
  /\ UNCHANGED <<args, nextId>>

Load ==
  /\ jobs' = saved
  /\ UNCHANGED <<saved, args, nextId>>
=============================================================================
