--------------------------- MODULE WebcamdManager ---------------------------
(* The supervisor of the webcam daemon (daemon.py, class WebcamdManager),    *)
(* the threads that call it and the daemon processes themselves:             *)
(*   - callers: OctoPrint's startup and shutdown, the settings and the       *)
(*     restart requests, the harvest that pauses the stream and resumes it;  *)
(*   - one watchdog thread per spawned process, numbered like it.            *)
(*                                                                           *)
(* A critical section of the manager's lock is one action; the code between  *)
(* two of them, which waits for the old process or sleeps, is not atomic.    *)
(* Left out: the log pump, status(), the probes, the notices.                *)
EXTENDS Integers, FiniteSets

CONSTANTS
  Callers,        \* threads of the plugin that use the manager
  MaxRestarts,    \* setting max_restarts
  BackoffInitial, \* _BACKOFF_INITIAL
  BackoffMax,     \* _BACKOFF_MAX
  KillWorks,      \* does SIGKILL always end the daemon within 5 s?
  MaxCalls,       \* bound: calls of the manager
  MaxExits,       \* bound: daemons that exit by themselves
  Ops             \* which calls this instance exercises

Goals == {"start", "stop", "restart", "pause"}

ASSUME ManagerAssumption ==
  /\ MaxRestarts \in Nat
  /\ BackoffInitial \in Nat \ {0} /\ BackoffMax \in Nat
  /\ KillWorks \in BOOLEAN
  /\ MaxCalls \in Nat /\ MaxExits \in Nat
  /\ Ops \subseteq Goals

\* Each call and each exit lead to one spawn at most.
ProcIds == 1..(MaxCalls + MaxExits)

VARIABLES
  proc,          \* the state of each daemon process
  process,       \* _process, 0 for None
  stopRequested, \* _stop_requested
  generation,    \* _generation
  stamps,        \* length of _restart_timestamps, inside the window
  autorestart,   \* _config["autorestart"]
  wd,            \* where the watchdog of each process is
  gen,           \* the generation it was given
  count,         \* the length of the list it has rebuilt
  delay,         \* its backoff
  pc,            \* where each caller is
  goal,          \* what it will do once the old daemon is gone
  victim,        \* the process it is terminating
  calls,
  exits,
  chain,         \* history: crash respawns in a row behind each process
  aged,          \* history: crashes that fell out of the window
  lost,          \* history: crashes struck from the list while they counted
  wanted         \* history: was a start the last call to take effect?

managerVars == <<process, stopRequested, generation, stamps, autorestart>>
watchVars == <<wd, gen, count, delay>>
callerVars == <<pc, goal, victim>>
boundVars == <<calls, exits>>
historyVars == <<chain, aged, lost, wanted>>
vars == <<proc, managerVars, watchVars, callerVars, boundVars, historyVars>>

----------------------------------------------------------------------------

Running == {"starting", "serving"}
Exits == {"crashed", "offline", "killed"}
ProcStates == {"unborn"} \cup Running \cup Exits

\* A watchdog that has returned, and why.
Returned == {"none", "done", "gave_up", "failed"}
WatchdogStates ==
  {"watch", "exited", "react", "count", "stamp", "offline", "backoff"} \cup Returned

CallerStates == {"idle", "stop", "reap", "forget", "spawn", "paused"}

\* Every variable has its type.
TypeOK ==
  /\ proc \in [ProcIds -> ProcStates]
  /\ process \in ProcIds \cup {0}
  /\ stopRequested \in BOOLEAN
  /\ generation \in Nat
  /\ stamps \in Nat
  /\ autorestart \in BOOLEAN
  /\ wd \in [ProcIds -> WatchdogStates]
  /\ gen \in [ProcIds -> Nat]
  /\ count \in [ProcIds -> Nat]
  /\ delay \in [ProcIds -> Nat]
  /\ pc \in [Callers -> CallerStates]
  /\ goal \in [Callers -> Goals]
  /\ victim \in [Callers -> ProcIds \cup {0}]
  /\ calls \in 0..MaxCalls
  /\ exits \in 0..MaxExits
  /\ chain \in [ProcIds -> Nat]
  /\ aged \in Nat
  /\ lost \in Nat
  /\ wanted \in BOOLEAN

Init ==
  /\ proc = [p \in ProcIds |-> "unborn"]
  /\ process = 0
  /\ stopRequested = FALSE
  /\ generation = 0
  /\ stamps = 0
  /\ autorestart = TRUE
  /\ wd = [p \in ProcIds |-> "none"]
  /\ gen = [p \in ProcIds |-> 0]
  /\ count = [p \in ProcIds |-> 0]
  /\ delay = [p \in ProcIds |-> BackoffInitial]
  /\ pc = [t \in Callers |-> "idle"]
  /\ goal = [t \in Callers |-> "stop"]
  /\ victim = [t \in Callers |-> 0]
  /\ calls = 0
  /\ exits = 0
  /\ chain = [p \in ProcIds |-> 0]
  /\ aged = 0
  /\ lost = 0
  /\ wanted = FALSE

----------------------------------------------------------------------------
(* The daemon processes (external: vendor/webcamd_bambu/webcam.py). *)

Alive(p) == proc[p] \in Running
Exited(p) == proc[p] \in Exits
Unborn == {p \in ProcIds : proc[p] = "unborn"}

\* It binds its port some time after it was launched.
Serve(p) ==
  /\ proc[p] = "starting"
  /\ \A q \in ProcIds : proc[q] # "serving"
  /\ proc' = [proc EXCEPT ![p] = "serving"]
  /\ UNCHANGED <<managerVars, watchVars, callerVars, boundVars, historyVars>>

\* It exits by itself: the printer is offline (code 75), or anything else.
Exit(p) ==
  /\ Alive(p) /\ exits < MaxExits
  /\ \E how \in {"crashed", "offline"} : proc' = [proc EXCEPT ![p] = how]
  /\ exits' = exits + 1
  /\ UNCHANGED <<managerVars, watchVars, callerVars, calls, historyVars>>

----------------------------------------------------------------------------
(* _spawn, under the lock: a new process, a new generation, a new watchdog.  *)
(* `links` is the number of crash respawns behind it, `watchers` the other   *)
(* watchdogs' states and `delays` their backoffs.                            *)

Launch(links, watchers, delays) ==
  \E p \in Unborn :
    /\ \A q \in Unborn : p <= q
    /\ proc' = [proc EXCEPT ![p] = "starting"]
    /\ process' = p
    /\ generation' = generation + 1
    /\ wd' = [watchers EXCEPT ![p] = "watch"]
    /\ gen' = [gen EXCEPT ![p] = generation + 1]
    /\ delay' = [delays EXCEPT ![p] = BackoffInitial]
    /\ chain' = [chain EXCEPT ![p] = links]

----------------------------------------------------------------------------
(* start, stop and restart.  restart() is a stop() and a start(), and        *)
(* start() begins with a stop() of its own; only the parts in the lock are   *)
(* atomic.                                                                   *)

\* Where the thread goes on when the old daemon is gone.
AfterStop == [stop |-> "idle", pause |-> "paused", restart |-> "forget",
              start |-> "spawn"]

\* Settings, requests, startup, shutdown and the harvest's pause.
Call(t) ==
  /\ pc[t] = "idle" /\ calls < MaxCalls
  /\ \E op \in Ops : goal' = [goal EXCEPT ![t] = op]
  /\ pc' = [pc EXCEPT ![t] = "stop"]
  /\ calls' = calls + 1
  /\ UNCHANGED <<proc, managerVars, watchVars, victim, exits, historyVars>>

\* The harvest has ended: the manager it paused is started again.
Resume(t) ==
  /\ pc[t] = "paused"
  /\ pc' = [pc EXCEPT ![t] = "stop"]
  /\ goal' = [goal EXCEPT ![t] = "start"]
  /\ UNCHANGED <<proc, managerVars, watchVars, victim, boundVars, historyVars>>

\* Variant: stop() leaves the generation to the next spawn.
TakeKeepsGeneration(t) ==
  /\ pc[t] = "stop"
  /\ stopRequested' = TRUE
  /\ victim' = [victim EXCEPT ![t] = process]
  /\ process' = 0
  /\ wanted' = FALSE
  /\ pc' = [pc EXCEPT ![t] = IF process = 0 THEN AfterStop[goal[t]] ELSE "reap"]
  /\ UNCHANGED <<proc, generation, stamps, autorestart, watchVars, goal,
                 boundVars, chain, aged,
                 lost>>

\* The critical section of stop().
Take(t) ==
  /\ pc[t] = "stop"
  /\ stopRequested' = TRUE
  /\ generation' = generation + 1
  /\ victim' = [victim EXCEPT ![t] = process]
  /\ process' = 0
  /\ wanted' = FALSE
  /\ pc' = [pc EXCEPT ![t] = IF process = 0 THEN AfterStop[goal[t]] ELSE "reap"]
  /\ UNCHANGED <<proc, stamps, autorestart, watchVars, goal, boundVars, chain,
                 aged, lost>>

\* Variant: the process is terminated and not waited for.
ReapNoWait(t) ==
  /\ pc[t] = "reap"
  /\ victim' = [victim EXCEPT ![t] = 0]
  /\ pc' = [pc EXCEPT ![t] = AfterStop[goal[t]]]
  /\ UNCHANGED <<proc, managerVars, watchVars, goal, boundVars, historyVars>>

\* The rest of stop(): SIGTERM, SIGKILL, and the wait for the process.
Reap(t) ==
  /\ pc[t] = "reap"
  /\ LET p == victim[t]
         killed == IF Alive(p) THEN [proc EXCEPT ![p] = "killed"] ELSE proc
     IN  proc' \in {killed} \cup (IF KillWorks THEN {} ELSE {proc})
  /\ victim' = [victim EXCEPT ![t] = 0]
  /\ pc' = [pc EXCEPT ![t] = AfterStop[goal[t]]]
  /\ UNCHANGED <<managerVars, watchVars, goal, boundVars, historyVars>>

\* Variant: restart() forgives one crash only.
ForgetOne(t) ==
  /\ pc[t] = "forget"
  /\ stamps' = stamps - 1
  /\ goal' = [goal EXCEPT ![t] = "start"]
  /\ pc' = [pc EXCEPT ![t] = "stop"]
  /\ UNCHANGED <<proc, process, stopRequested, generation, autorestart,
                 watchVars, victim, boundVars, historyVars>>

\* restart() forgets the crashes, then calls start().  The crashes of a
\* daemon that another thread has started meanwhile go with the old ones.
Forget(t) ==
  /\ pc[t] = "forget"
  /\ stamps' = 0
  /\ lost' = lost + (IF wanted THEN stamps ELSE 0)
  /\ goal' = [goal EXCEPT ![t] = "start"]
  /\ pc' = [pc EXCEPT ![t] = "stop"]
  /\ UNCHANGED <<proc, process, stopRequested, generation, autorestart,
                 watchVars, victim, boundVars, chain, aged, wanted>>

\* The critical section of start(): the configuration may be refused or the
\* process not be launched; a port that is served is always refused.
Spawn(t) ==
  /\ pc[t] = "spawn"
  /\ stopRequested' = FALSE
  /\ autorestart' \in BOOLEAN
  /\ \/ UNCHANGED <<proc, process, generation, watchVars, historyVars>>
     \/ /\ \A q \in ProcIds : proc[q] # "serving"
        /\ Launch(0, wd, delay)
        /\ wanted' = TRUE
        /\ UNCHANGED <<count, aged, lost>>
  /\ pc' = [pc EXCEPT ![t] = "idle"]
  /\ UNCHANGED <<stamps, goal, victim, boundVars>>

----------------------------------------------------------------------------
(* The watchdog of process p. *)

\* Variant: stop() and start() again go unnoticed.
SupersededStopOnly(p) == stopRequested

Superseded(p) == gen[p] # generation \/ stopRequested

WatchTo(p, state) == wd' = [wd EXCEPT ![p] = state]

\* The generation is looked at before every poll, outside the lock.
Bow(p) ==
  /\ wd[p] = "watch" /\ gen[p] # generation
  /\ WatchTo(p, "done")
  /\ UNCHANGED <<proc, managerVars, gen, count, delay, callerVars, boundVars,
                 historyVars>>

Poll(p) ==
  /\ wd[p] = "watch" /\ Exited(p)
  /\ WatchTo(p, "exited")
  /\ UNCHANGED <<proc, managerVars, gen, count, delay, callerVars, boundVars,
                 historyVars>>

\* The lock is taken: the process is the watchdog's own, or it bows out.
Claim(p) ==
  /\ wd[p] = "exited"
  /\ IF Superseded(p)
       THEN WatchTo(p, "done") /\ UNCHANGED process
       ELSE WatchTo(p, "react") /\ process' = 0
  /\ UNCHANGED <<proc, stopRequested, generation, stamps, autorestart, gen,
                 count, delay, callerVars, boundVars, historyVars>>

\* Variant: the watchdog leaves when the printer is offline.
ReactionOfflineEnds(p) ==
  IF autorestart /\ proc[p] # "offline" THEN "count" ELSE "done"

\* What the exit code and the configuration call for.
Reaction(p) ==
  IF ~autorestart THEN "done"
  ELSE IF proc[p] = "offline" THEN "offline" ELSE "count"

\* The configuration is read without the lock.
React(p) ==
  /\ wd[p] = "react"
  /\ WatchTo(p, Reaction(p))
  /\ UNCHANGED <<proc, managerVars, gen, count, delay, callerVars, boundVars,
                 historyVars>>

\* The list of crashes is rebuilt from the manager's, without the lock, ...
Count(p) ==
  /\ wd[p] = "count"
  /\ count' = [count EXCEPT ![p] = stamps + 1]
  /\ WatchTo(p, "stamp")
  /\ UNCHANGED <<proc, managerVars, gen, delay, callerVars, boundVars,
                 historyVars>>

\* Variant: the crash that has just been counted is left out of the check.
StampOffByOne(p) ==
  /\ wd[p] = "stamp"
  /\ stamps' = count[p]
  /\ WatchTo(p, IF count[p] - 1 > MaxRestarts THEN "gave_up" ELSE "backoff")
  /\ UNCHANGED <<proc, process, stopRequested, generation, autorestart, gen,
                 count, delay, callerVars, boundVars, historyVars>>

\* ... stored, and its length held against max_restarts.  A watchdog that
\* was superseded in between stores a list the newer crashes are not in.
Stamp(p) ==
  /\ wd[p] = "stamp"
  /\ stamps' = count[p]
  /\ lost' = lost + (IF gen[p] # generation /\ stamps > count[p]
                       THEN stamps - count[p] ELSE 0)
  /\ count' = [count EXCEPT ![p] = 0]
  /\ WatchTo(p, IF count[p] > MaxRestarts THEN "gave_up" ELSE "backoff")
  /\ UNCHANGED <<proc, process, stopRequested, generation, autorestart, gen,
                 delay, callerVars, boundVars, chain, aged, wanted>>

Doubled(d) == IF 2 * d < BackoffMax THEN 2 * d ELSE BackoffMax

\* The delay is over.  The doubled backoff is the watchdog's own and goes
\* with it: the process it spawns has a watchdog with a backoff of its own.
Respawn(p) ==
  /\ wd[p] \in {"offline", "backoff"}
  /\ LET crashed == wd[p] = "backoff"
         delays == [delay EXCEPT ![p] = IF crashed THEN Doubled(@) ELSE @]
         links == chain[p] + (IF crashed THEN 1 ELSE 0)
     IN  IF Superseded(p)
           THEN /\ WatchTo(p, "done")
                /\ delay' = delays
                /\ UNCHANGED <<proc, process, generation, gen, chain>>
           ELSE \/ /\ WatchTo(p, "failed")
                   /\ delay' = delays
                   /\ UNCHANGED <<proc, process, generation, gen, chain>>
                \/ Launch(links, [wd EXCEPT ![p] = "done"], delays)
  /\ UNCHANGED <<stopRequested, stamps, autorestart, count, callerVars,
                 boundVars, aged, lost, wanted>>

\* A crash falls out of the window.
Age ==
  /\ stamps > 0
  /\ stamps' = stamps - 1
  /\ aged' = aged + 1
  /\ UNCHANGED <<proc, process, stopRequested, generation, autorestart,
                 watchVars, callerVars, boundVars, chain, lost, wanted>>

----------------------------------------------------------------------------

CallerStep(t) == Take(t) \/ Reap(t) \/ Forget(t) \/ Spawn(t)

Watchdog(p) ==
  \/ Bow(p) \/ Poll(p) \/ Claim(p) \/ React(p)
  \/ Count(p) \/ Stamp(p) \/ Respawn(p)

Next ==
  \/ \E t \in Callers : Call(t) \/ Resume(t) \/ CallerStep(t)
  \/ \E p \in ProcIds : Watchdog(p) \/ Serve(p) \/ Exit(p)
  \/ Age

Spec == Init /\ [][Next]_vars

\* Threads are scheduled; no daemon has to exit and nobody has to call.
Fairness ==
  /\ \A t \in Callers : WF_vars(CallerStep(t))
  /\ \A p \in ProcIds : WF_vars(Watchdog(p))

FairSpec == Spec /\ Fairness

----------------------------------------------------------------------------
(* Properties. *)

\* The watchdogs that may still act.
Current == {p \in ProcIds : wd[p] \notin Returned /\ gen[p] = generation}

\* "only the newest watchdog ever acts" (_watchdog): no two are current, and
\* the current one still watches exactly while the manager holds its daemon:
\* no exit goes unnoticed, and no stale watchdog makes the manager forget a
\* daemon that runs, however calls and respawns interleave.
Supervised ==
  /\ \A p, q \in Current : p = q
  /\ process # 0 => process \in Current
  /\ \A p \in Current : wd[p] \in {"watch", "exited"} <=> process = p

\* After a stop(), and after a start() that was refused, no watchdog brings
\* the daemon back: one that sleeps out its backoff across the stop and a
\* later start() has lost its right to spawn (stop, _generation).
StoppedStaysStopped == ~wanted => process = 0 /\ Current = {}

\* "guaranteeing only one daemon ever runs at a time" (WebcamdManager): two
\* live processes would fight over the port, and the manager can stop but
\* the one it holds.  Kept as long as the calls come one after another.
OneDaemon == \A p, q \in ProcIds : Alive(p) /\ Alive(q) => p = q

\* The crashes the list no longer holds.
Forgiven == aged + lost

\* A camera that keeps crashing inside the window is respawned max_restarts
\* times in a row and no more, although every respawn has a new watchdog and
\* calls fall in between.  One more is allowed for each crash that fell out of
\* the window, and for each that a list stored late has struck out (_watchdog
\* rebuilds the list without the lock, restart() forgets it after its stop).
RestartBudget == \A p \in ProcIds : chain[p] <= MaxRestarts + Forgiven

\* "Max restarts within the restart window", as the settings have it: without
\* the allowance for what was struck out.
MaxRestartsKept == \A p \in ProcIds : chain[p] <= MaxRestarts + aged

\* "restarts the daemon with exponential backoff": the delay of a respawn is
\* twice that of the crash respawn it follows.
BackoffGrows ==
  \A p \in ProcIds : wd[p] = "backoff" =>
    delay[p] = IF chain[p] = 0 THEN BackoffInitial
               ELSE IF BackoffInitial * 2^chain[p] < BackoffMax
                    THEN BackoffInitial * 2^chain[p] ELSE BackoffMax

\* A daemon that exits while nobody has stopped it is replaced, unless
\* autorestart is off, the watchdog gave up or the launch failed.
ComesBack ==
  \A p \in ProcIds :
    process = p /\ Exited(p) ~>
      \/ process \notin {0, p}
      \/ stopRequested \/ ~wanted \/ ~autorestart
      \/ wd[p] \in {"gave_up", "failed"}
=============================================================================
