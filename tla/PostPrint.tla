------------------------------ MODULE PostPrint ------------------------------
(* The pipeline that follows a print (autosync.py) and the harvest of the raw *)
(* footage (ipcam_sync.py), which is its last stage and runs by hand too,     *)
(* with the groups of chunks it leaves for the library (raw_library.py).      *)
(*                                                                            *)
(* Threads: OctoPrint's event thread, one worker for each finished print, one *)
(* for each "Fetch from printer", one for each baseline, and after a restart  *)
(* the sweep of the groups that were interrupted, with the API up beside it.  *)
(* The printer answers or fails as it likes; OctoPrint may crash.             *)
(*                                                                            *)
(* Left out: stage 2, which module TimelapseBatch models (here one step that  *)
(* may fail), print dates, progress counters, the pause of the webcam, the    *)
(* trash.  Group names never collide: a group is named for its harvest.  What *)
(* is deleted goes, and a chunk takes at least one block of data.             *)
EXTENDS Integers, Sequences, FiniteSets

CONSTANTS
  Manuals,     \* requests of "Fetch from printer"
  MaxWorkers,  \* bound: prints that are done, and so have a pipeline
  MaxPrints,   \* bound: prints
  MaxChunks,   \* bound: chunks recorded
  Newest,      \* _NO_BASELINE_MAX_CHUNKS
  MaxTries,    \* attempts at one chunk
  RenderEnabled,  \* the setting, without which no start sweeps
  MaxStops,    \* bound: clicks on Stop
  MaxCrashes   \* bound: crashes

ASSUME PostPrintAssumption ==
  /\ MaxWorkers \in Nat /\ MaxPrints \in Nat /\ MaxChunks \in Nat
  /\ Newest \in Nat \ {0}
  /\ MaxTries \in Nat \ {0} /\ MaxStops \in Nat /\ MaxCrashes \in Nat
  /\ RenderEnabled \in BOOLEAN /\ Manuals \cap Nat = {}

Pipelines == 1..MaxWorkers
Harvests == Pipelines \cup Manuals
Chunks == 1..MaxChunks
NoHarvest == 0
NoBaseline == -1

VARIABLES
  printing,   \* _print_active()
  prints,     \* prints so far
  events,     \* what OctoPrint has still to deliver
  card,       \* chunks in /ipcam, the newest is chunk number card
  starts,     \* starts of prints that were handled, for the properties
  snapping,   \* ... those whose baseline thread has not listed yet
  baseline,   \* _ipcam_baseline: the newest chunk at PrintStarted
  source,     \* the start whose thread took it, for the properties
  pending,    \* _autosync_cancel, as the pipeline whose event it is
  running,    \* _ipcam_cancel, as the harvest whose event it is
  cancelled,  \* harvests whose event is set
  lock,       \* holder of _ipcam_harvest_lock
  busy,       \* _pipeline_state["busy"]
  pc,         \* where each worker is
  after,      \* the starts handled when it was begun, for the properties
  since,      \* the baseline it was given
  drawn,      \* ... and the start that is of, for the properties
  want,       \* the chunks it is after
  at,         \* the chunk it is at
  tries,      \* attempts at that chunk
  got,        \* chunks it has saved ("order")
  notice,     \* the last ipcam_download message of it
  dir,        \* harvests whose group directory exists
  part,       \* ... with a .part in it
  chunk,      \* chunks in it
  listed,     \* ... with an order.json in it
  order,      \* the chunks order.json lists
  due,        \* a restart has not begun its sweep
  sweep,      \* groups the sweep has still to look at
  doomed,     \* the group in which it found no chunk
  swept,      \* groups it took from a living harvest, for the properties
  kept,       \* what a stopped harvest may have in the end, for the properties
  met,        \* harvests that overlapped another one, for the properties
  stops, crashes

printerVars == <<printing, prints, events, card>>
baseVars == <<starts, snapping, baseline, source>>
cancelVars == <<cancelled, kept>>
eventVars == <<pending, running, cancelVars>>
givenVars == <<after, since, drawn>>
workVars == <<pc, givenVars, want, at, tries, got>>
diskVars == <<dir, part, chunk, listed, order>>
sweepVars == <<due, sweep, doomed, swept>>
boundVars == <<stops, crashes>>
vars == <<printerVars, baseVars, eventVars, lock, busy, workVars, notice,
          diskVars, sweepVars, met, boundVars>>

Before == {"none", "gate", "stage2", "stage3", "queued", "enter"}
Loading == {"connect", "transfer", "save"}
Pulling == {"prepare", "pull", "attempt", "order"} \cup Loading

\* From the registration of the cancel event to its removal.
Registered == {"diff", "notify", "release"} \cup Pulling

\* ... and with the busy flag up around it.
Entered == {"lower"} \cup Registered

States == Before \cup Entered \cup {"end", "done", "dead"}

\* Every variable has its type.
TypeOK ==
  /\ printing \in BOOLEAN
  /\ prints \in 0..MaxPrints
  /\ events \in Seq({"started", "done"})
  /\ card \in 0..MaxChunks
  /\ starts \in Nat /\ snapping \subseteq 1..starts /\ source \in 0..starts
  /\ baseline \in 0..MaxChunks \cup {NoBaseline}
  /\ pending \in Pipelines \cup {NoHarvest}
  /\ running \in Harvests \cup {NoHarvest}
  /\ cancelled \subseteq Harvests
  /\ lock \in Manuals \cup {NoHarvest}
  /\ busy \in BOOLEAN
  /\ pc \in [Harvests -> States]
  /\ after \in [Harvests -> 0..starts] /\ drawn \in [Harvests -> 0..starts]
  /\ since \in [Harvests -> 0..MaxChunks \cup {NoBaseline}]
  /\ want \in [Harvests -> SUBSET Chunks]
  /\ at \in [Harvests -> 0..MaxChunks]
  /\ tries \in [Harvests -> 0..(MaxTries - 1)]
  /\ got \in [Harvests -> SUBSET Chunks]
  /\ notice \in [Harvests -> {"none", "started", "done", "failed"}]
  /\ dir \subseteq Harvests
  /\ part \subseteq Harvests
  /\ chunk \in [Harvests -> SUBSET Chunks]
  /\ listed \subseteq Harvests
  /\ order \in [Harvests -> SUBSET Chunks]
  /\ due \in BOOLEAN /\ sweep \subseteq Harvests
  /\ doomed \in Harvests \cup {NoHarvest} /\ swept \subseteq Harvests
  /\ kept \in [Harvests -> SUBSET Chunks]
  /\ met \subseteq Harvests
  /\ stops \in 0..MaxStops /\ crashes \in 0..MaxCrashes

Init ==
  /\ printing = FALSE /\ prints = 0 /\ events = <<>> /\ card = 0
  /\ starts = 0 /\ snapping = {} /\ baseline = NoBaseline /\ source = 0
  /\ pending = NoHarvest /\ running = NoHarvest /\ cancelled = {}
  /\ lock = NoHarvest /\ busy = FALSE
  /\ pc = [h \in Harvests |-> "none"]
  /\ after = [h \in Harvests |-> 0] /\ drawn = [h \in Harvests |-> 0]
  /\ since = [h \in Harvests |-> NoBaseline]
  /\ want = [h \in Harvests |-> {}]
  /\ at = [h \in Harvests |-> 0]
  /\ tries = [h \in Harvests |-> 0]
  /\ got = [h \in Harvests |-> {}]
  /\ notice = [h \in Harvests |-> "none"]
  /\ dir = {} /\ part = {} /\ listed = {}
  /\ chunk = [h \in Harvests |-> {}]
  /\ order = [h \in Harvests |-> {}]
  /\ due = FALSE /\ sweep = {} /\ doomed = NoHarvest /\ swept = {}
  /\ kept = [h \in Harvests |-> {}]
  /\ met = {}
  /\ stops = 0 /\ crashes = 0

To(h, step) == pc' = [pc EXCEPT ![h] = step]
Notify(h, state) == notice' = [notice EXCEPT ![h] = state]

----------------------------------------------------------------------------
(* The printer and OctoPrint's events. *)

\* A start that is reported twice does what the first one did once more, and is
\* left out.
PrintStarts ==
  /\ ~printing /\ prints < MaxPrints
  /\ printing' = TRUE
  /\ prints' = prints + 1
  /\ events' = Append(events, "started")
  /\ UNCHANGED <<card, baseVars, eventVars, lock, busy, workVars, notice,
                 diskVars, sweepVars, met, boundVars>>

\* A print that fails or is cancelled is not harvested.
PrintEnds ==
  /\ printing
  /\ printing' = FALSE
  /\ events' \in {events, Append(events, "done")}
  /\ UNCHANGED <<prints, card, baseVars, eventVars, lock, busy, workVars,
                 notice, diskVars, sweepVars, met, boundVars>>

Record ==
  /\ printing /\ card < MaxChunks
  /\ card' = card + 1
  /\ UNCHANGED <<printing, prints, events, baseVars, eventVars, lock, busy,
                 workVars, notice, diskVars, sweepVars, met, boundVars>>

\* Setting events; a harvest that was at a chunk's last block may still save it.
Cancel(hs) ==
  /\ cancelled' = cancelled \cup hs
  /\ kept' = [h \in Harvests |->
       IF h \notin hs \ cancelled THEN kept[h]
       ELSE chunk[h] \cup (IF pc[h] = "save" THEN {at[h]} ELSE {})]

Armed == {pending} \ {NoHarvest}

HandleStart ==
  /\ events # <<>> /\ Head(events) = "started"
  /\ events' = Tail(events)
  /\ pending' = NoHarvest
  /\ starts' = starts + 1
  /\ snapping' = snapping \cup {starts + 1}
  /\ UNCHANGED <<printing, prints, card, baseline, source, running, lock, busy,
                 workVars, notice, diskVars, sweepVars, met, boundVars>>

\* Variant: the pipeline of the print before goes on.
StartedQuietly == HandleStart /\ UNCHANGED cancelVars

\* PRINT_STARTED: _cancel_pending_autosync, a thread for the baseline.
Started == HandleStart /\ Cancel(Armed)

\* PRINT_DONE: _on_print_done.
PrintDone(p) ==
  /\ events # <<>> /\ Head(events) = "done"
  /\ pc[p] = "none" /\ \A q \in 1..(p - 1) : pc[q] # "none"
  /\ events' = Tail(events)
  /\ Cancel(Armed)
  /\ pending' = p
  /\ after' = [after EXCEPT ![p] = starts]
  /\ To(p, "gate")
  /\ UNCHANGED <<printing, prints, card, baseVars, running, lock, busy, since,
                 drawn, want, at, tries, got, notice, diskVars, sweepVars, met,
                 boundVars>>

\* _snapshot_ipcam_baseline: no list, no baseline; an error it does not expect ends
\* the thread.
Snapshot(n) ==
  /\ n \in snapping
  /\ snapping' = snapping \ {n}
  /\ \/ baseline' \in {card, NoBaseline} /\ source' = n
     \/ UNCHANGED <<baseline, source>>
  /\ UNCHANGED <<printerVars, starts, eventVars, lock, busy, workVars, notice,
                 diskVars, sweepVars, met, boundVars>>

----------------------------------------------------------------------------
(* _autosync_worker, up to its last stage. *)

OnlyPc == UNCHANGED <<printerVars, baseVars, eventVars, lock, busy, givenVars,
                      want, at, tries, got, notice, diskVars, sweepVars, met,
                      boundVars>>

\* The delay and _wait_until_idle: the gate may stay closed while others render or
\* transfer, and it is given up in the end.
Gate(p) ==
  /\ pc[p] = "gate"
  /\ \/ ~printing /\ p \notin cancelled /\ To(p, "stage2")
     \/ To(p, "end")
  /\ OnlyPc

\* _do_autosync; an error it does not expect ends the worker.
Stage2(p) ==
  /\ pc[p] = "stage2"
  /\ \E step \in {"stage3", "end"} : To(p, step)
  /\ OnlyPc

\* The last look at the event before the harvest.
Stage3(p) ==
  /\ pc[p] = "stage3"
  /\ To(p, IF p \in cancelled THEN "end" ELSE "enter")
  /\ OnlyPc

\* A worker ends, and its event with it.
Gone(h) ==
  /\ pc[h] = "end"
  /\ To(h, "done")
  /\ cancelled' = cancelled \ {h}
  /\ kept' = [kept EXCEPT ![h] = {}]
  /\ after' = [after EXCEPT ![h] = 0]
  /\ UNCHANGED <<printerVars, baseVars, running, busy, since, drawn, want, at,
                 tries, got, notice, diskVars, sweepVars, met, boundVars>>

\* The "finally" of the worker.
EndWorker(p) ==
  /\ Gone(p)
  /\ pending' = IF pending = p THEN NoHarvest ELSE pending
  /\ UNCHANGED lock

----------------------------------------------------------------------------
(* harvest_now. *)

\* handle_harvest_ipcam refuses while a print runs.
Fetch(m) ==
  /\ pc[m] = "none" /\ ~printing
  /\ To(m, "queued")
  /\ OnlyPc

\* _ipcam_harvest_lock.
Lock(m) ==
  /\ pc[m] = "queued" /\ lock = NoHarvest
  /\ lock' = m
  /\ To(m, "enter")
  /\ UNCHANGED <<printerVars, baseVars, eventVars, busy, givenVars, want, at,
                 tries, got, notice, diskVars, sweepVars, met, boundVars>>

Unlock(m) == Gone(m) /\ lock' = NoHarvest /\ UNCHANGED pending

----------------------------------------------------------------------------
(* The harvest: _manual_harvest_ui around _harvest. *)

Others(h) == {g \in Harvests \ {h} : pc[g] \in Entered}

\* The flag goes up, and the cancel event becomes the one that Stop sets; only a
\* pipeline has a baseline.
Enter(h) ==
  /\ pc[h] = "enter"
  /\ busy' = TRUE
  /\ running' = h
  /\ IF h \in Pipelines
     THEN /\ since' = [since EXCEPT ![h] = baseline]
          /\ drawn' = [drawn EXCEPT ![h] = source]
     ELSE UNCHANGED <<since, drawn>>
  /\ To(h, "diff")
  /\ met' = IF Others(h) = {} THEN met ELSE met \cup {h} \cup Others(h)
  /\ UNCHANGED <<printerVars, baseVars, pending, cancelVars, lock, after, want,
                 at, tries, got, notice, diskVars, sweepVars, boundVars>>

\* _diff_ipcam, _newest_chunks.
Fresh(from) ==
  {c \in 1..card : IF from = NoBaseline THEN c > card - Newest ELSE c > from}

\* A list that fails counts as nothing new; an error _snapshot_ipcam does not
\* expect, or a directory that cannot be made, ends the harvest without a word.
Diff(h) ==
  /\ pc[h] = "diff"
  /\ \/ /\ want' = [want EXCEPT ![h] = Fresh(since[h])]
        /\ To(h, "prepare")
        /\ Fresh(since[h]) # {} /\ UNCHANGED notice
     \/ Notify(h, "done") /\ To(h, "release") /\ UNCHANGED want
     \/ To(h, "release") /\ UNCHANGED <<want, notice>>
  /\ UNCHANGED <<printerVars, baseVars, eventVars, lock, busy, givenVars, at,
                 tries, got, diskVars, sweepVars, met, boundVars>>

----------------------------------------------------------------------------
(* _download_group. *)

\* _discard_empty_group.
Discard(h) ==
  /\ dir' = dir \ {h} /\ part' = part \ {h} /\ listed' = listed \ {h}
  /\ chunk' = [chunk EXCEPT ![h] = {}]
  /\ order' = [order EXCEPT ![h] = {}]

\* The directory, without what was left of .part files in it ...
Prepare(h) ==
  /\ pc[h] = "prepare"
  /\ dir' = dir \cup {h}
  /\ part' = part \ {h}
  /\ Notify(h, "started")
  /\ To(h, "pull")
  /\ UNCHANGED <<printerVars, baseVars, eventVars, lock, busy, givenVars, want,
                 at, tries, got, chunk, listed, order, sweepVars, met,
                 boundVars>>

\* ... or no space, and no directory.
NoSpace(h) ==
  /\ pc[h] = "prepare"
  /\ Discard(h)
  /\ Notify(h, "failed")
  /\ To(h, "release")
  /\ UNCHANGED <<printerVars, baseVars, eventVars, lock, busy, givenVars, want,
                 at, tries, got, sweepVars, met, boundVars>>

Left(h) == {c \in want[h] : c > at[h]}

\* _pull_chunks: the next chunk, unless there is none or the event is set.
Pull(h) ==
  /\ pc[h] = "pull"
  /\ IF h \in cancelled \/ Left(h) = {}
     THEN To(h, "order") /\ UNCHANGED at
     ELSE /\ \E c \in Left(h) :
               (\A d \in Left(h) : c <= d) /\ at' = [at EXCEPT ![h] = c]
          /\ To(h, "attempt")
  /\ UNCHANGED <<printerVars, baseVars, eventVars, lock, busy, givenVars, want,
                 tries, got, notice, diskVars, sweepVars, met, boundVars>>

\* Variant: one attempt too many.
FailedOnceMore(h) ==
  IF tries[h] < MaxTries
  THEN tries' = [tries EXCEPT ![h] = @ + 1] /\ To(h, "attempt")
  ELSE tries' = [tries EXCEPT ![h] = 0] /\ To(h, "pull")

\* An attempt that failed: back off, or leave the chunk.
Failed(h) ==
  IF tries[h] + 1 < MaxTries
  THEN tries' = [tries EXCEPT ![h] = @ + 1] /\ To(h, "attempt")
  ELSE tries' = [tries EXCEPT ![h] = 0] /\ To(h, "pull")

Leave(h) == tries' = [tries EXCEPT ![h] = 0] /\ To(h, "pull")

\* _download_one: the event ends the back-off ...
Attempt(h) ==
  /\ pc[h] = "attempt"
  /\ IF h \in cancelled THEN Leave(h) ELSE To(h, "connect") /\ UNCHANGED tries
  /\ UNCHANGED <<printerVars, baseVars, eventVars, lock, busy, givenVars, want,
                 at, got, notice, diskVars, sweepVars, met, boundVars>>

AttemptVars == <<printerVars, baseVars, eventVars, lock, busy, givenVars, want, at,
                 notice, dir, listed, order, sweepVars, met, boundVars>>

\* ... then a session, and the .part in a directory that may be gone; nobody looks
\* at the event (ftp.download) ...
Connect(h) ==
  /\ pc[h] = "connect"
  /\ \/ h \in dir /\ part' = part \cup {h} /\ To(h, "transfer") /\ UNCHANGED tries
     \/ Failed(h) /\ UNCHANGED part
  /\ UNCHANGED <<AttemptVars, chunk, got>>

\* Variant: nor while the blocks come in.
LastBlockAnyway(h) ==
  /\ pc[h] = "transfer"
  /\ To(h, "save")
  /\ UNCHANGED <<AttemptVars, tries, part, chunk, got>>

\* ... until each block asks for it, the last one too ...
LastBlock(h) ==
  /\ pc[h] = "transfer" /\ h \notin cancelled
  /\ To(h, "save")
  /\ UNCHANGED <<AttemptVars, tries, part, chunk, got>>

\* ... and the .part becomes the chunk, unless it is gone.
Save(h) ==
  /\ pc[h] = "save" /\ h \in part
  /\ part' = part \ {h}
  /\ chunk' = [chunk EXCEPT ![h] = @ \cup {at[h]}]
  /\ got' = [got EXCEPT ![h] = @ \cup {at[h]}]
  /\ Leave(h)
  /\ UNCHANGED AttemptVars

\* An error is tried again; _HarvestCancelled, at a block, is not.
Lose(h) ==
  /\ part' = part \ {h}
  /\ \/ pc[h] \in {"transfer", "save"} /\ Failed(h)
     \/ pc[h] = "transfer" /\ h \in cancelled /\ Leave(h)
  /\ UNCHANGED <<AttemptVars, chunk, got>>

\* Variant: the empty group stays.
KeepEmpty(h) ==
  /\ pc[h] = "order" /\ got[h] = {}
  /\ Notify(h, "failed")
  /\ To(h, "release")
  /\ UNCHANGED <<printerVars, baseVars, eventVars, lock, busy, givenVars, want,
                 at, tries, got, diskVars, sweepVars, met, boundVars>>

\* Variant: what was stopped is discarded.
DiscardStopped(h) ==
  /\ pc[h] = "order" /\ (got[h] = {} \/ h \in cancelled)
  /\ Discard(h)
  /\ Notify(h, "failed")
  /\ To(h, "release")
  /\ UNCHANGED <<printerVars, baseVars, eventVars, lock, busy, givenVars, want,
                 at, tries, got, sweepVars, met, boundVars>>

DiscardEmpty(h) ==
  /\ pc[h] = "order" /\ got[h] = {}
  /\ Discard(h)
  /\ Notify(h, "failed")
  /\ To(h, "release")
  /\ UNCHANGED <<printerVars, baseVars, eventVars, lock, busy, givenVars, want,
                 at, tries, got, sweepVars, met, boundVars>>

\* _write_order, which only logs that it could not.
WriteOrder(h) ==
  /\ pc[h] = "order" /\ got[h] # {}
  /\ \/ /\ h \in dir
        /\ listed' = listed \cup {h}
        /\ order' = [order EXCEPT ![h] = got[h]]
     \/ UNCHANGED <<listed, order>>
  /\ To(h, "notify")
  /\ UNCHANGED <<printerVars, baseVars, eventVars, lock, busy, givenVars, want,
                 at, tries, got, notice, dir, part, chunk, sweepVars, met,
                 boundVars>>

\* Variant: what did not fail is done.
ReportDone(h) ==
  /\ pc[h] = "notify"
  /\ Notify(h, "done")
  /\ To(h, "release")
  /\ UNCHANGED <<printerVars, baseVars, eventVars, lock, busy, givenVars, want,
                 at, tries, got, diskVars, sweepVars, met, boundVars>>

\* "done" only for a harvest that was not stopped and lacks nothing.
Report(h) ==
  /\ pc[h] = "notify"
  /\ Notify(h, IF h \in cancelled \/ got[h] # want[h] THEN "failed" ELSE "done")
  /\ To(h, "release")
  /\ UNCHANGED <<printerVars, baseVars, eventVars, lock, busy, givenVars, want,
                 at, tries, got, diskVars, sweepVars, met, boundVars>>

\* _harvest is over, and with it what was its own.
Over(h) ==
  /\ pc[h] = "release"
  /\ To(h, "lower")
  /\ since' = [since EXCEPT ![h] = NoBaseline]
  /\ drawn' = [drawn EXCEPT ![h] = 0]
  /\ at' = [at EXCEPT ![h] = 0]
  /\ got' = [got EXCEPT ![h] = {}]
  /\ UNCHANGED <<printerVars, baseVars, pending, cancelVars, lock, busy, after,
                 want, tries, notice, diskVars, sweepVars, met, boundVars>>

\* Variant: the registration stays.
ReleaseNothing(h) == Over(h) /\ UNCHANGED running

\* The "finally" of _harvest.
Release(h) == Over(h) /\ running' = IF running = h THEN NoHarvest ELSE running

Lowered(h) ==
  /\ pc[h] = "lower"
  /\ To(h, "end")
  /\ UNCHANGED <<printerVars, baseVars, eventVars, lock, givenVars, want, at,
                 tries, got, notice, diskVars, sweepVars, met, boundVars>>

\* Variant: only the pipeline lowers the flag.
LowerPipeline(h) == Lowered(h) /\ busy' = (busy /\ h \in Manuals)

\* The "finally" of _manual_harvest_ui.
Lower(h) == Lowered(h) /\ busy' = FALSE

\* handle_cancel_harvest.
Stop ==
  /\ running # NoHarvest /\ stops < MaxStops
  /\ stops' = stops + 1
  /\ Cancel({running})
  /\ UNCHANGED <<printerVars, baseVars, pending, running, lock, busy, workVars,
                 notice, diskVars, sweepVars, met, crashes>>

----------------------------------------------------------------------------
(* Crash and restart. *)

\* All that was in memory is gone; a print goes on without OctoPrint.
Crash ==
  /\ crashes < MaxCrashes
  /\ crashes' = crashes + 1
  /\ printing' = FALSE /\ events' = <<>>
  /\ snapping' = {} /\ baseline' = NoBaseline /\ source' = 0
  /\ pending' = NoHarvest /\ running' = NoHarvest /\ cancelled' = {}
  /\ lock' = NoHarvest /\ busy' = FALSE
  /\ pc' = [h \in Harvests |-> IF pc[h] = "none" THEN "none" ELSE "dead"]
  /\ after' = [h \in Harvests |-> 0] /\ drawn' = [h \in Harvests |-> 0]
  /\ since' = [h \in Harvests |-> NoBaseline]
  /\ at' = [h \in Harvests |-> 0]
  /\ tries' = [h \in Harvests |-> 0]
  /\ got' = [h \in Harvests |-> {}]
  /\ kept' = [h \in Harvests |-> {}]
  /\ due' = TRUE /\ sweep' = {} /\ doomed' = NoHarvest
  /\ UNCHANGED <<prints, card, starts, want, notice, diskVars, swept, met,
                 stops>>

SweepVars == <<printerVars, baseVars, eventVars, lock, busy, workVars, notice, met,
               boundVars>>

\* _recover_interrupted_harvests, on a thread of its own (on_after_startup): what
\* groups there are ...
SweepBegin ==
  /\ due /\ RenderEnabled
  /\ due' = FALSE
  /\ sweep' = dir
  /\ UNCHANGED <<SweepVars, diskVars, doomed, swept>>

\* ... each without its .part files, whoever is at work in it; is there a chunk ...
SweepGroup(h) ==
  /\ h \in sweep /\ doomed = NoHarvest
  /\ sweep' = sweep \ {h}
  /\ part' = part \ {h}
  /\ doomed' = IF chunk[h] = {} THEN h ELSE NoHarvest
  /\ UNCHANGED <<SweepVars, dir, chunk, listed, order, due, swept>>

\* ... and if not, rmtree, of what is in it by then.
SweepDiscard ==
  /\ doomed # NoHarvest
  /\ Discard(doomed)
  /\ swept' = IF pc[doomed] = "dead" THEN swept ELSE swept \cup {doomed}
  /\ doomed' = NoHarvest
  /\ UNCHANGED <<SweepVars, due, sweep>>

Sweep == SweepBegin \/ (\E h \in Harvests : SweepGroup(h)) \/ SweepDiscard

----------------------------------------------------------------------------
(* The library. *)

\* _resolve_chunks: what order.json lists, or what is there.
Resolved(h) == IF h \in listed THEN order[h] ELSE chunk[h]

\* _build_group: its state, or "none" for a group that is not shown.
GroupState(h) ==
  CASE h \notin dir \/ (Resolved(h) = {} /\ h \notin part) -> "none"
    [] h \in listed /\ Resolved(h) # {} /\ Resolved(h) \subseteq chunk[h] -> "chunks_ready"
    [] OTHER -> "incomplete"

----------------------------------------------------------------------------

HarvestStep(h) ==
  \/ Enter(h) \/ Diff(h) \/ Prepare(h) \/ NoSpace(h)
  \/ Pull(h) \/ Attempt(h) \/ Connect(h) \/ LastBlock(h) \/ Save(h) \/ Lose(h)
  \/ DiscardEmpty(h) \/ WriteOrder(h) \/ Report(h)
  \/ Release(h) \/ Lower(h)

PipelineStep(p) ==
  Gate(p) \/ Stage2(p) \/ Stage3(p) \/ HarvestStep(p) \/ EndWorker(p)

ManualStep(m) == Lock(m) \/ HarvestStep(m) \/ Unlock(m)

Next ==
  \/ PrintStarts \/ PrintEnds \/ Record
  \/ Started \/ (\E n \in snapping : Snapshot(n))
  \/ \E p \in Pipelines : PrintDone(p) \/ PipelineStep(p)
  \/ \E m \in Manuals : Fetch(m) \/ ManualStep(m)
  \/ Stop \/ Crash \/ Sweep

Spec == Init /\ [][Next]_vars

----------------------------------------------------------------------------
(* Properties. *)

\* Of all the pipelines still under way, a new print or a later pipeline has
\* cancelled every one but the last: no two of them pull for good, and none goes
\* on once the start of the next print was handled.
LastPipeline ==
  \A p \in Pipelines :
    pc[p] \notin {"none", "done", "dead"} /\ p \notin cancelled => pending = p

\* The baseline thread of a print never interferes with the harvest of an earlier
\* one: a pipeline that goes on compares with a list taken for its own print, or,
\* when that one failed, an older one.
BaselineOrder ==
  \A p \in Pipelines :
    pc[p] \in Registered /\ p \notin cancelled => drawn[p] <= after[p]

\* The Stop button never reaches for a harvest that is over, and always finds one
\* that runs, unless another harvest ran beside it.
StopReaches ==
  /\ running # NoHarvest => pc[running] \in Registered
  /\ \A h \in Harvests : pc[h] \in Registered /\ h \notin met => running = h

\* The busy flag of the tab is never left up by a harvest that is over, and is up
\* while one runs, unless another ran beside it.
BusyTruthful ==
  /\ busy => \E h \in Harvests : pc[h] \in Entered
  /\ \A h \in Harvests : pc[h] \in Entered /\ h \notin met => busy

\* A crash left its group, and the sweep has not got to it.
Unswept(h) == pc[h] = "dead" /\ (due \/ h \in sweep \/ h = doomed)

\* No phantom group: a directory without a chunk has a harvest at work in it, also
\* after failures, cancels and the sweep of a restart; and so has a .part.
NoPhantom ==
  \A h \in Harvests :
    /\ h \in dir /\ chunk[h] = {} => pc[h] \in Pulling \/ Unswept(h)
    /\ h \in part => pc[h] \in {"transfer", "save"} \/ Unswept(h)

\* "done" with chunks means: every chunk that was found is on disk, whether or not
\* order.json could be written, unless the sweep took the group.
DoneMeansWhole ==
  \A h \in Harvests :
    notice[h] = "done" /\ want[h] # {} /\ h \notin swept => chunk[h] = want[h]

\* What the library shows of every harvest.
ShownState == [h \in Harvests |-> GroupState(h)]
ShownChunks ==
  [h \in Harvests |-> IF GroupState(h) = "none" THEN {} ELSE Resolved(h)]

\* The harvests implement Shelf: over and above NoPhantom, no failure, stop or crash
\* costs a chunk that was saved, and what was offered as ready stays as it is, but
\* for a group in which the sweep of a restart has found nothing.
Shown == INSTANCE Shelf WITH
           Groups <- Harvests, NoGroup <- NoHarvest,
           state <- ShownState, chunks <- ShownChunks
ShelfKept == Shown!Spec

\* From the moment its event is set, by Stop or by a print, a harvest saves nothing
\* but the chunk whose last block was in by then: a connection that is under way, or
\* a .part that is opened after that, comes to nothing.
NothingAfterStop == \A h \in cancelled : chunk[h] \subseteq kept[h]

\* "A disk-space shortfall or a chunk that fails after retries leaves the group
\* incomplete": what is offered for rendering is all that was to be had.
ReadyMeansWhole ==
  \A h \in Harvests :
    GroupState(h) = "chunks_ready" /\ pc[h] \notin Pulling => order[h] = want[h]

\* "writing order.json", "a complete download hands the group to the auto-render
\* hook": what is reported done is offered for rendering.
DoneIsListed ==
  \A h \in Harvests :
    notice[h] = "done" /\ want[h] # {} => GroupState(h) = "chunks_ready"

\* "runs only when the previous one (and, via the FTP session lock, any pipeline
\* harvest) has finished".
OneHarvest == met = {}

\* "Discard groups a failed harvest left", "a download interrupted by an OctoPrint
\* restart or a crash": no group that a harvest is at work in.
SweepSparesLive == swept = {}
=============================================================================
