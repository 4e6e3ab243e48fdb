------------------------ MODULE WebcamdManagerProofs ------------------------
(* What holds of WebcamdManager for every number of callers, calls, exits    *)
(* and restarts, and what holds when the calls come from one thread.         *)
EXTENDS WebcamdManager, TLAPS

----------------------------------------------------------------------------
(* Types. *)

LEMMA LaunchType ==
  ASSUME TypeOK, NEW links \in Nat, NEW watchers \in [ProcIds -> WatchdogStates],
         NEW delays \in [ProcIds -> Nat], Launch(links, watchers, delays)
  PROVE  /\ proc' \in [ProcIds -> ProcStates]
         /\ process' \in ProcIds \cup {0}
         /\ generation' \in Nat
         /\ wd' \in [ProcIds -> WatchdogStates]
         /\ gen' \in [ProcIds -> Nat]
         /\ delay' \in [ProcIds -> Nat]
         /\ chain' \in [ProcIds -> Nat]
BY ManagerAssumption
   DEF TypeOK, Launch, Unborn, ProcStates, Running, WatchdogStates

\* Where a caller goes on after a stop is one of its states.
LEMMA AfterStopType == \A g \in Goals : AfterStop[g] \in CallerStates
BY DEF Goals, AfterStop, CallerStates

LEMMA CallerType ==
  ASSUME TypeOK, NEW t \in Callers, Call(t) \/ Resume(t) \/ CallerStep(t)
  PROVE  TypeOK'
<1> USE DEF TypeOK, managerVars, watchVars, boundVars, historyVars
<1>1. CASE Call(t)
  BY <1>1, ManagerAssumption DEF Call, CallerStates
<1>2. CASE Resume(t)
  BY <1>2 DEF Resume, CallerStates, Goals
<1>3. CASE Take(t)
  <2>1. pc' \in [Callers -> CallerStates]
    BY <1>3, AfterStopType DEF Take, CallerStates
  <2>2. /\ victim' = [victim EXCEPT ![t] = process]
        /\ process' = 0 /\ generation' = generation + 1
    BY <1>3 DEF Take
  <2>4. victim' \in [Callers -> ProcIds \cup {0}] /\ generation' \in Nat
    BY <2>2
  <2>5. stopRequested' \in BOOLEAN /\ wanted' \in BOOLEAN
    BY <1>3 DEF Take
  <2>3. UNCHANGED <<proc, stamps, autorestart, wd, gen, count, delay, goal,
                    calls, exits, chain, aged, lost>>
    BY <1>3 DEF Take
  <2> QED BY <2>1, <2>2, <2>3, <2>4, <2>5
<1>4. CASE Reap(t)
  <2>1. pc' \in [Callers -> CallerStates]
    BY <1>4, AfterStopType DEF Reap
  <2>2. proc' \in [ProcIds -> ProcStates]
    <3> DEFINE dead == IF Alive(victim[t])
                         THEN [proc EXCEPT ![victim[t]] = "killed"] ELSE proc
    <3>1. dead \in [ProcIds -> ProcStates]
      BY DEF ProcStates, Exits
    <3>2. proc' \in {dead} \cup (IF KillWorks THEN {} ELSE {proc})
      BY <1>4 DEF Reap
    <3> QED BY <3>1, <3>2
  <2> QED BY <1>4, <2>1, <2>2 DEF Reap
<1>5. CASE Forget(t)
  BY <1>5 DEF Forget, CallerStates, Goals
<1>6. CASE Spawn(t)
  <2>1. CASE UNCHANGED <<proc, process, generation, watchVars, historyVars>>
    BY <1>6, <2>1 DEF Spawn, CallerStates
  <2>2. CASE Launch(0, wd, delay) /\ wanted' = TRUE /\ UNCHANGED <<count, aged,
                                                                   lost>>
    BY <1>6, <2>2, LaunchType DEF Spawn, CallerStates
  <2> QED BY <1>6, <2>1, <2>2 DEF Spawn
<1> QED BY <1>1, <1>2, <1>3, <1>4, <1>5, <1>6 DEF CallerStep

LEMMA WatchdogType ==
  ASSUME TypeOK, NEW p \in ProcIds, Watchdog(p)
  PROVE  TypeOK'
<1> USE DEF TypeOK, managerVars, callerVars, boundVars, historyVars, WatchTo
<1>1. CASE Bow(p)
  BY <1>1 DEF Bow, WatchdogStates, Returned
<1>2. CASE Poll(p)
  BY <1>2 DEF Poll, WatchdogStates
<1>3. CASE Claim(p)
  BY <1>3 DEF Claim, WatchdogStates, Returned
<1>7. CASE React(p)
  BY <1>7 DEF React, Reaction, WatchdogStates, Returned
<1>4. CASE Count(p)
  BY <1>4 DEF Count, WatchdogStates
<1>5. CASE Stamp(p)
  BY <1>5 DEF Stamp, WatchdogStates, Returned
<1>6. CASE Respawn(p)
  <2> DEFINE crashed == wd[p] = "backoff"
             delays == [delay EXCEPT ![p] = IF crashed THEN Doubled(@) ELSE @]
             links == chain[p] + (IF crashed THEN 1 ELSE 0)
  <2>1. delays \in [ProcIds -> Nat] /\ links \in Nat
    BY ManagerAssumption DEF Doubled
  <2>2. [wd EXCEPT ![p] = "done"] \in [ProcIds -> WatchdogStates]
    BY DEF WatchdogStates, Returned
  <2>3. [wd EXCEPT ![p] = "failed"] \in [ProcIds -> WatchdogStates]
    BY DEF WatchdogStates, Returned
  <2>4. CASE Launch(links, [wd EXCEPT ![p] = "done"], delays)
    BY <1>6, <2>1, <2>2, <2>4, LaunchType DEF Respawn
  <2>5. CASE /\ delay' = delays
             /\ wd' \in [ProcIds -> WatchdogStates]
             /\ UNCHANGED <<proc, process, generation, gen, chain>>
    BY <1>6, <2>1, <2>5 DEF Respawn
  <2> QED BY <1>6, <2>2, <2>3, <2>4, <2>5 DEF Respawn
<1> QED BY <1>1, <1>2, <1>3, <1>4, <1>5, <1>6, <1>7 DEF Watchdog

LEMMA DaemonType ==
  ASSUME TypeOK, NEW p \in ProcIds, Serve(p) \/ Exit(p)
  PROVE  TypeOK'
<1> USE DEF TypeOK, managerVars, watchVars, callerVars, boundVars, historyVars
<1>1. CASE Serve(p)
  BY <1>1 DEF Serve, ProcStates, Running
<1>2. CASE Exit(p)
  BY <1>2, ManagerAssumption DEF Exit, ProcStates, Exits
<1> QED BY <1>1, <1>2

LEMMA StepType == TypeOK /\ [Next]_vars => TypeOK'
<1> SUFFICES ASSUME TypeOK, [Next]_vars PROVE TypeOK'
  OBVIOUS
<1>1. CASE Age
  BY <1>1 DEF Age, TypeOK, watchVars, callerVars, boundVars, historyVars
<1>2. CASE UNCHANGED vars
  BY <1>2 DEF vars, TypeOK, managerVars, watchVars, callerVars, boundVars,
              historyVars
<1> QED BY <1>1, <1>2, CallerType, WatchdogType, DaemonType DEF Next

LEMMA InitType == Init => TypeOK
<1> SUFFICES ASSUME Init PROVE TypeOK
  OBVIOUS
<1>1. /\ proc \in [ProcIds -> ProcStates]
      /\ wd \in [ProcIds -> WatchdogStates]
      /\ pc \in [Callers -> CallerStates]
      /\ goal \in [Callers -> Goals]
  BY DEF Init, ProcStates, WatchdogStates, Returned, CallerStates, Goals
<1>2. calls \in 0..MaxCalls /\ exits \in 0..MaxExits
  BY ManagerAssumption DEF Init
<1>3. /\ gen \in [ProcIds -> Nat] /\ count \in [ProcIds -> Nat]
      /\ delay \in [ProcIds -> Nat] /\ chain \in [ProcIds -> Nat]
      /\ victim \in [Callers -> ProcIds \cup {0}]
  BY ManagerAssumption DEF Init
<1> QED BY <1>1, <1>2, <1>3 DEF Init, TypeOK

----------------------------------------------------------------------------
(* Supervision, however many callers there are.  A new generation is larger  *)
(* than that of every watchdog, so it leaves no other watchdog current.      *)

GenBound == \A p \in ProcIds : gen[p] <= generation

StopNoted == stopRequested => ~wanted

SuperviseInv ==
  TypeOK /\ GenBound /\ StopNoted /\ Supervised /\ StoppedStaysStopped

\* After a launch the new watchdog is the only current one.
LEMMA LaunchSupervised ==
  ASSUME TypeOK, GenBound, NEW links \in Nat,
         NEW watchers \in [ProcIds -> WatchdogStates],
         NEW delays \in [ProcIds -> Nat], Launch(links, watchers, delays)
  PROVE  GenBound' /\ Supervised' /\ process' # 0
<1>1. PICK p \in Unborn : /\ process' = p
                          /\ generation' = generation + 1
                          /\ wd' = [watchers EXCEPT ![p] = "watch"]
                          /\ gen' = [gen EXCEPT ![p] = generation + 1]
  BY DEF Launch
<1>2. p \in ProcIds /\ p # 0
  BY <1>1 DEF Unborn, ProcIds
<1>3. GenBound'
  BY <1>1, <1>2 DEF GenBound, TypeOK
<1>4. wd'[p] = "watch" /\ gen'[p] = generation'
  BY <1>1, <1>2 DEF TypeOK
<1>5. \A q \in ProcIds : q # p => gen'[q] # generation'
  BY <1>1, <1>2 DEF GenBound, TypeOK
<1>6. Current' = {p}
  BY <1>2, <1>4, <1>5 DEF Current, Returned
<1> QED BY <1>1, <1>2, <1>3, <1>4, <1>6 DEF Supervised

\* A stop leaves no current watchdog.
LEMMA TakeSupervised ==
  ASSUME SuperviseInv, NEW t \in Callers, Take(t)
  PROVE  SuperviseInv'
<1>1. TypeOK'
  BY CallerType DEF SuperviseInv, CallerStep
<1>2. generation' = generation + 1 /\ gen' = gen /\ process' = 0
  BY DEF Take, watchVars
<1>3. \A p \in ProcIds : gen'[p] < generation'
  BY <1>2 DEF SuperviseInv, GenBound, TypeOK
<1>4. GenBound'
  BY <1>3, <1>1 DEF GenBound, TypeOK
<1>5. Current' = {}
  BY <1>3, <1>1 DEF Current, TypeOK
<1>6. StopNoted'
  BY DEF Take, StopNoted
<1> QED BY <1>1, <1>2, <1>4, <1>5, <1>6
        DEF SuperviseInv, Supervised, StoppedStaysStopped

LEMMA SpawnSupervised ==
  ASSUME SuperviseInv, NEW t \in Callers, Spawn(t)
  PROVE  SuperviseInv'
<1> USE DEF SuperviseInv
<1>1. TypeOK'
  BY CallerType DEF CallerStep
<1>4. StopNoted'
  BY DEF Spawn, StopNoted
<1>2. CASE UNCHANGED <<proc, process, generation, watchVars, historyVars>>
  BY <1>1, <1>2, <1>4 DEF GenBound, Supervised, StoppedStaysStopped, Current,
                    watchVars, historyVars
<1>3. CASE Launch(0, wd, delay) /\ wanted' = TRUE
  BY <1>1, <1>3, <1>4, LaunchSupervised DEF TypeOK, StoppedStaysStopped
<1> QED BY <1>2, <1>3 DEF Spawn

\* A watchdog that moves on, bows out or gives up makes no other one current;
\* one that spawns was current, so the daemon was wanted.
LEMMA WatchdogSupervised ==
  ASSUME SuperviseInv, NEW p \in ProcIds, Watchdog(p)
  PROVE  SuperviseInv'
<1> USE DEF SuperviseInv
<1>0. TypeOK'
  BY WatchdogType
<1>9. StopNoted'
  BY DEF Watchdog, Bow, Poll, Claim, React, Count, Stamp, Respawn, StopNoted,
         managerVars, historyVars
<1>1. TypeOK' /\ StopNoted'
  BY <1>0, <1>9
<1>3. CASE Bow(p)
  <2>1. p \notin Current /\ wd[p] \notin Returned
    BY <1>3 DEF Bow, Current, Returned
  <2> QED BY <1>1, <1>3, <2>1
          DEF GenBound, Current, TypeOK, Returned, Bow, WatchTo, managerVars,
              historyVars, Supervised, StoppedStaysStopped
<1>4. CASE Poll(p)
  <2>1. /\ wd' = [wd EXCEPT ![p] = "exited"] /\ wd[p] = "watch"
        /\ UNCHANGED <<process, generation, gen, wanted>>
    BY <1>4 DEF Poll, WatchTo, managerVars, historyVars
  <2>2. GenBound' /\ Current' = Current
    BY <2>1 DEF GenBound, Current, Returned, TypeOK
  <2>3. \A q \in ProcIds :
          wd'[q] \in {"watch", "exited"} <=> wd[q] \in {"watch", "exited"}
    BY <2>1 DEF TypeOK
  <2>4. Current \subseteq ProcIds
    BY DEF Current
  <2>5. Supervised'
    BY <2>1, <2>2, <2>3, <2>4 DEF Supervised
  <2> QED BY <1>1, <2>1, <2>2, <2>5 DEF StoppedStaysStopped
<1>5. CASE Claim(p)
  <2>1. wd[p] = "exited" /\ UNCHANGED <<generation, gen, wanted>>
    BY <1>5 DEF Claim, historyVars
  <2>2. GenBound'
    BY <2>1 DEF GenBound
  <2>3. CASE Superseded(p) /\ WatchTo(p, "done") /\ UNCHANGED process
    <3>1. p \notin Current
      BY <2>3 DEF Superseded, StopNoted, StoppedStaysStopped, Current
    <3>2. Current' = Current /\ \A q \in Current : wd'[q] = wd[q]
      BY <2>1, <2>3, <3>1 DEF Current, WatchTo, Returned, TypeOK
    <3> QED BY <1>1, <2>1, <2>2, <2>3, <3>2 DEF Supervised, StoppedStaysStopped
  <2>4. CASE ~Superseded(p) /\ WatchTo(p, "react") /\ process' = 0
    <3>1. p \in Current /\ Current = {p}
      BY <2>1, <2>4 DEF Superseded, Supervised, Current, Returned
    <3>2. wd'[p] = "react"
      BY <2>4 DEF WatchTo, TypeOK
    <3>3. Current' \subseteq {p}
      BY <2>1, <2>4, <3>1 DEF Current, WatchTo, TypeOK
    <3>4. Supervised'
      BY <2>4, <3>2, <3>3 DEF Supervised, ProcIds
    <3>5. StoppedStaysStopped'
      BY <2>1, <3>1 DEF StoppedStaysStopped
    <3> QED BY <1>1, <2>2, <3>4, <3>5
  <2> QED BY <1>5, <2>3, <2>4 DEF Claim
<1>6. CASE Count(p)
  BY <1>1, <1>6 DEF Count, WatchTo, managerVars, historyVars, Supervised,
     StoppedStaysStopped, GenBound, Current, TypeOK, Returned
<1>7. CASE Stamp(p)
  BY <1>1, <1>7 DEF Stamp, WatchTo, historyVars, Supervised,
     StoppedStaysStopped, GenBound, Current, TypeOK, Returned
<1>8. CASE Respawn(p)
  <2> DEFINE crashed == wd[p] = "backoff"
             delays == [delay EXCEPT ![p] = IF crashed THEN Doubled(@) ELSE @]
             links == chain[p] + (IF crashed THEN 1 ELSE 0)
  <2>1. delays \in [ProcIds -> Nat] /\ links \in Nat
    BY ManagerAssumption DEF Doubled, TypeOK
  <2>2. [wd EXCEPT ![p] = "done"] \in [ProcIds -> WatchdogStates]
    BY DEF WatchdogStates, Returned, TypeOK
  <2>3. wd[p] \in {"offline", "backoff"} /\ wanted' = wanted
    BY <1>8 DEF Respawn
  <2>4. CASE /\ ~Superseded(p)
             /\ Launch(links, [wd EXCEPT ![p] = "done"], delays)
    <3>1. p \in Current
      BY <2>3, <2>4 DEF Superseded, Current, Returned
    <3>2. wanted
      BY <3>1 DEF StoppedStaysStopped
    <3>3. GenBound' /\ Supervised'
      BY <2>1, <2>2, <2>4, LaunchSupervised
    <3> QED BY <1>1, <2>3, <3>2, <3>3 DEF StoppedStaysStopped
  <2>5. CASE /\ WatchTo(p, "done") \/ WatchTo(p, "failed")
             /\ UNCHANGED <<process, generation, gen>>
    <3>1. GenBound'
      BY <2>5 DEF GenBound
    <3>2. Current' = Current \ {p}
      BY <2>5 DEF Current, Returned, WatchTo, TypeOK
    <3>3. process # p
      BY <2>3 DEF Supervised, Current, ProcIds
    <3>4. \A q \in Current' : q \in Current /\ wd'[q] = wd[q]
      BY <2>5, <3>2 DEF WatchTo, TypeOK, Current
    <3>5. Supervised'
      BY <2>5, <3>2, <3>3, <3>4 DEF Supervised
    <3> QED BY <1>1, <2>3, <2>5, <3>1, <3>2, <3>5 DEF StoppedStaysStopped
  <2> QED BY <1>8, <2>4, <2>5 DEF Respawn
<1>10. CASE React(p)
  BY <1>1, <1>10 DEF React, Reaction, WatchTo, managerVars, historyVars, Supervised,
     StoppedStaysStopped, GenBound, Current, TypeOK, Returned
<1> QED BY <1>3, <1>4, <1>5, <1>6, <1>7, <1>8, <1>10 DEF Watchdog

LEMMA SuperviseStep == SuperviseInv /\ [Next]_vars => SuperviseInv'
<1> SUFFICES ASSUME SuperviseInv, [Next]_vars PROVE SuperviseInv'
  OBVIOUS
<1>0. TypeOK'
  BY StepType DEF SuperviseInv
<1>q. ASSUME UNCHANGED <<process, stopRequested, generation, wd, gen, wanted>>
      PROVE  SuperviseInv'
  BY <1>0, <1>q DEF SuperviseInv, StopNoted, GenBound, Supervised,
                    StoppedStaysStopped, Current
<1>1. ASSUME NEW t \in Callers, Call(t) \/ Resume(t) \/ Reap(t) \/ Forget(t)
      PROVE  SuperviseInv'
  BY <1>1, <1>q DEF Call, Resume, Reap, Forget, managerVars, watchVars, historyVars
<1>2. ASSUME NEW p \in ProcIds, Serve(p) \/ Exit(p)
      PROVE  SuperviseInv'
  BY <1>2, <1>q DEF Serve, Exit, managerVars, watchVars, historyVars
<1>3. CASE Age
  BY <1>3, <1>q DEF Age, watchVars
<1>4. CASE UNCHANGED vars
  BY <1>4, <1>q DEF vars, managerVars, watchVars, historyVars
<1> QED BY <1>1, <1>2, <1>3, <1>4, TakeSupervised, SpawnSupervised,
           WatchdogSupervised DEF Next, CallerStep

LEMMA SuperviseInit == Init => SuperviseInv
<1> SUFFICES ASSUME Init PROVE SuperviseInv
  OBVIOUS
<1>1. Current = {}
  BY DEF Init, Current, Returned
<1>2. GenBound
  BY DEF Init, GenBound
<1> QED BY <1>1, <1>2, InitType
        DEF Init, SuperviseInv, StopNoted, Supervised, StoppedStaysStopped

LEMMA SuperviseInvariant == Spec => []SuperviseInv
BY SuperviseInit, SuperviseStep, PTL DEF Spec

\* One watchdog at most is current, and it watches the daemon the manager
\* holds, for any number of callers at once.
THEOREM AlwaysSupervised == Spec => []Supervised
BY SuperviseInvariant, PTL DEF SuperviseInv

\* After a stop, and after a start that was refused, no watchdog can bring
\* the daemon back.
THEOREM StopIsRespected == Spec => []StoppedStaysStopped
BY SuperviseInvariant, PTL DEF SuperviseInv

----------------------------------------------------------------------------
(* One daemon, when SIGKILL works and the calls are serial, as those of one   *)
(* thread are.  A spawn then finds nothing alive.                            *)

\* No start takes effect between another thread's stop and its spawn.
Serial == \A t \in Callers : pc[t] \in {"reap", "spawn"} => ~wanted

\* A watchdog that has seen an exit code has not been mistaken.
ExitNoted == \A p \in ProcIds : wd[p] = "exited" => ~Alive(p)

LEMMA ExitNotedStep == TypeOK /\ ExitNoted /\ [Next]_vars => ExitNoted'
<1> SUFFICES ASSUME TypeOK, ExitNoted, [Next]_vars PROVE ExitNoted'
  OBVIOUS
<1> USE DEF ExitNoted, Alive, Running
<1>t. proc \in [ProcIds -> ProcStates] /\ wd \in [ProcIds -> WatchdogStates]
  BY DEF TypeOK
<1>l. ASSUME NEW links, NEW watchers \in [ProcIds -> WatchdogStates], NEW delays,
             Launch(links, watchers, delays),
             \A q \in ProcIds : watchers[q] = "exited" => wd[q] = "exited"
      PROVE  ExitNoted'
  <2>1. PICK p \in Unborn : /\ proc' = [proc EXCEPT ![p] = "starting"]
                            /\ wd' = [watchers EXCEPT ![p] = "watch"]
    BY <1>l DEF Launch
  <2> QED BY <1>l, <1>t, <2>1 DEF Unborn
<1>1. ASSUME NEW t \in Callers, Spawn(t) PROVE ExitNoted'
  BY <1>1, <1>l, <1>t DEF Spawn, watchVars
<1>2. ASSUME NEW t \in Callers, Reap(t) PROVE ExitNoted'
  <2> DEFINE dead == IF Alive(victim[t])
                       THEN [proc EXCEPT ![victim[t]] = "killed"] ELSE proc
  <2>1. proc' = dead \/ proc' = proc
    BY <1>2 DEF Reap
  <2> QED BY <1>2, <1>t, <2>1 DEF Reap, watchVars
<1>3. ASSUME NEW t \in Callers, Call(t) \/ Resume(t) \/ Take(t) \/ Forget(t)
      PROVE  ExitNoted'
  BY <1>3 DEF Call, Resume, Take, Forget, watchVars
<1>4. ASSUME NEW p \in ProcIds, Respawn(p) PROVE ExitNoted'
  <2>1. CASE wd' = [wd EXCEPT ![p] = "done"] /\ UNCHANGED proc
    BY <1>t, <2>1
  <2>2. CASE wd' = [wd EXCEPT ![p] = "failed"] /\ UNCHANGED proc
    BY <1>t, <2>2
  <2>3. ASSUME NEW links, NEW delays,
               Launch(links, [wd EXCEPT ![p] = "done"], delays)
        PROVE  ExitNoted'
    <3>1. [wd EXCEPT ![p] = "done"] \in [ProcIds -> WatchdogStates]
      BY <1>t DEF WatchdogStates, Returned
    <3> QED BY <1>l, <1>t, <2>3, <3>1
  <2> QED BY <1>4, <2>1, <2>2, <2>3 DEF Respawn, WatchTo
<1>5. ASSUME NEW p \in ProcIds, Bow(p) \/ Poll(p) \/ Claim(p) \/ React(p)
             \/ Count(p) \/ Stamp(p)
      PROVE  ExitNoted'
  BY <1>5, <1>t DEF Bow, Poll, Claim, React, Reaction, Count, Stamp, WatchTo,
                   Exited, Exits
<1>6. ASSUME NEW p \in ProcIds, Serve(p) \/ Exit(p) PROVE ExitNoted'
  BY <1>6, <1>t DEF Serve, Exit, watchVars
<1>7. CASE Age \/ UNCHANGED vars
  BY <1>7 DEF Age, vars, watchVars
<1> QED BY <1>1, <1>2, <1>3, <1>4, <1>5, <1>6, <1>7
        DEF Next, CallerStep, Watchdog

\* Whatever lives is the manager's, or is being terminated.
AliveHeld ==
  \A p \in ProcIds :
    Alive(p) => process = p \/ \E t \in Callers : pc[t] = "reap" /\ victim[t] = p

OneInv == AliveHeld /\ OneDaemon

\* No new daemon comes to life, and those that live are held as before.
LEMMA FewerAlive ==
  ASSUME OneInv, \A p \in ProcIds : Alive(p)' => Alive(p),
         \A p \in ProcIds : Alive(p)' /\ process = p
           => process' = p \/ \E t \in Callers : pc'[t] = "reap" /\ victim'[t] = p,
         \A t \in Callers, p \in ProcIds :
           pc[t] = "reap" /\ victim[t] = p /\ Alive(p)'
           => pc'[t] = "reap" /\ victim'[t] = p
  PROVE  OneInv'
<1>1. OneDaemon'
  BY DEF OneInv, OneDaemon
<1>2. ASSUME NEW p \in ProcIds, Alive(p)'
      PROVE  process' = p \/ \E t \in Callers : pc'[t] = "reap" /\ victim'[t] = p
  <2>1. CASE process = p
    BY <1>2, <2>1
  <2>2. ASSUME NEW t \in Callers, pc[t] = "reap", victim[t] = p
        PROVE  pc'[t] = "reap" /\ victim'[t] = p
    BY <1>2, <2>2
  <2>3. Alive(p)
    BY <1>2
  <2> QED BY <2>1, <2>2, <2>3 DEF OneInv, AliveHeld
<1> QED BY <1>1, <1>2 DEF OneInv, AliveHeld

\* A launch while the manager holds nothing and nobody waits for an old daemon.
LEMMA LaunchOne ==
  ASSUME TypeOK, OneInv, process = 0, \A t \in Callers : pc[t] # "reap",
         NEW links, NEW watchers, NEW delays, Launch(links, watchers, delays)
  PROVE  OneInv'
<1>1. PICK p \in ProcIds : proc' = [proc EXCEPT ![p] = "starting"] /\ process' = p
  BY DEF Launch, Unborn
<1>2. \A q \in ProcIds : ~Alive(q)
  BY DEF OneInv, AliveHeld, ProcIds
<1>3. ASSUME NEW q \in ProcIds, Alive(q)' PROVE q = p
  <2>1. q # p => proc'[q] = proc[q]
    BY <1>1 DEF TypeOK
  <2> QED BY <1>2, <1>3, <2>1 DEF Alive
<1>4. AliveHeld' /\ OneDaemon'
  BY <1>1, <1>3 DEF AliveHeld, OneDaemon
<1> QED BY <1>4 DEF OneInv

LEMMA OneCallerStep ==
  ASSUME KillWorks, SuperviseInv, Serial, Serial', OneInv, NEW t \in Callers,
         Call(t) \/ Resume(t) \/ CallerStep(t)
  PROVE  OneInv'
<1>t. /\ pc \in [Callers -> CallerStates] /\ victim \in [Callers -> ProcIds \cup {0}]
      /\ proc \in [ProcIds -> ProcStates] /\ process \in ProcIds \cup {0}
  BY DEF SuperviseInv, TypeOK
<1>1. CASE Call(t) \/ Resume(t) \/ Forget(t)
  <2>1. /\ pc[t] # "reap" /\ pc' = [pc EXCEPT ![t] = "stop"]
        /\ UNCHANGED <<proc, process, victim>>
    BY <1>1 DEF Call, Resume, Forget, managerVars
  <2>2. \A u \in Callers : pc[u] = "reap" => pc'[u] = "reap"
    BY <1>t, <2>1
  <2> QED BY <2>1, <2>2, FewerAlive DEF Alive
<1>2. CASE Take(t)
  <2>1. /\ pc[t] = "stop" /\ process' = 0 /\ proc' = proc
        /\ victim' = [victim EXCEPT ![t] = process]
        /\ process # 0 => pc' = [pc EXCEPT ![t] = "reap"]
        /\ \A u \in Callers \ {t} : pc'[u] = pc[u]
    BY <1>2, <1>t DEF Take
  <2>2. \A u \in Callers : pc[u] = "reap" => pc'[u] = "reap" /\ victim'[u] = victim[u]
    BY <1>t, <2>1
  <2>3. process # 0 => pc'[t] = "reap" /\ victim'[t] = process
    BY <1>t, <2>1
  <2>4. \A p \in ProcIds : p # 0
    BY DEF ProcIds
  <2> QED BY <2>1, <2>2, <2>3, <2>4, FewerAlive DEF Alive
<1>3. CASE Reap(t)
  <2>1. /\ proc' = IF Alive(victim[t]) THEN [proc EXCEPT ![victim[t]] = "killed"]
                                       ELSE proc
        /\ process' = process
        /\ \A u \in Callers \ {t} : pc'[u] = pc[u] /\ victim'[u] = victim[u]
    BY <1>3, <1>t DEF Reap, managerVars
  <2>2. \A p \in ProcIds : p = victim[t] => ~Alive(p)'
    BY <1>t, <2>1 DEF Alive, Running
  <2>3. \A p \in ProcIds : Alive(p)' => Alive(p)
    BY <1>t, <2>1 DEF Alive, Running
  <2> QED BY <2>1, <2>2, <2>3, FewerAlive
<1>4. CASE Spawn(t)
  <2>1. pc[t] = "spawn" /\ pc' = [pc EXCEPT ![t] = "idle"] /\ UNCHANGED victim
    BY <1>4 DEF Spawn
  <2>2. \A u \in Callers : pc[u] = "reap" => pc'[u] = "reap"
    BY <1>t, <2>1
  <2>3. CASE UNCHANGED <<proc, process>>
    BY <2>1, <2>2, <2>3, FewerAlive DEF Alive
  <2>4. CASE Launch(0, wd, delay) /\ wanted' = TRUE
    <3>1. process = 0
      BY <2>1 DEF Serial, SuperviseInv, StoppedStaysStopped
    <3>2. \A u \in Callers : pc[u] # "reap"
      BY <2>2, <2>4 DEF Serial
    <3> QED BY <2>4, <3>1, <3>2, LaunchOne DEF SuperviseInv
  <2> QED BY <1>4, <2>3, <2>4 DEF Spawn
<1> QED BY <1>1, <1>2, <1>3, <1>4 DEF CallerStep

LEMMA OneWatchdogStep ==
  ASSUME SuperviseInv, ExitNoted, Serial, OneInv, NEW p \in ProcIds, Watchdog(p)
  PROVE  OneInv'
<1>u. UNCHANGED <<pc, victim>>
  BY DEF Watchdog, Bow, Poll, Claim, React, Count, Stamp, Respawn, callerVars
<1>1. CASE UNCHANGED <<proc, process>>
  BY <1>u, <1>1, FewerAlive DEF Alive
<1>2. CASE Claim(p) /\ ~Superseded(p) /\ process' = 0
  <2>1. wd[p] = "exited" /\ proc' = proc /\ p \in Current
    BY <1>2 DEF Claim, Superseded, Current, Returned
  <2>2. process = p /\ ~Alive(p)
    BY <2>1 DEF SuperviseInv, Supervised, ExitNoted
  <2> QED BY <1>u, <2>1, <2>2, FewerAlive DEF Alive
<1>3. ASSUME NEW links, NEW watchers, NEW delays, wd[p] \in {"offline", "backoff"},
             ~Superseded(p), Launch(links, watchers, delays)
      PROVE  OneInv'
  <2>1. p \in Current /\ wd[p] \notin {"watch", "exited"}
    BY <1>3 DEF Superseded, Current, Returned
  <2>2. process = 0
    <3>1. process # p
      BY <2>1 DEF SuperviseInv, Supervised
    <3> QED BY <2>1, <3>1 DEF SuperviseInv, Supervised
  <2>3. wanted
    BY <2>1 DEF SuperviseInv, StoppedStaysStopped
  <2> QED BY <1>3, <2>2, <2>3, LaunchOne DEF Serial, SuperviseInv
<1>4. CASE Claim(p)
  BY <1>1, <1>2, <1>4 DEF Claim
<1>5. CASE Respawn(p)
  BY <1>1, <1>3, <1>5 DEF Respawn
<1>6. CASE Bow(p) \/ Poll(p) \/ React(p) \/ Count(p) \/ Stamp(p)
  BY <1>1, <1>6 DEF Bow, Poll, React, Count, Stamp, managerVars
<1> QED BY <1>4, <1>5, <1>6 DEF Watchdog

LEMMA OneStep ==
  ASSUME KillWorks, SuperviseInv, ExitNoted, Serial, Serial', OneInv, [Next]_vars
  PROVE  OneInv'
<1>1. ASSUME NEW p \in ProcIds, Serve(p) \/ Exit(p) PROVE OneInv'
  <2>1. UNCHANGED <<process, pc, victim>>
    BY <1>1 DEF Serve, Exit, managerVars, callerVars
  <2>2. \A q \in ProcIds : Alive(q)' => Alive(q)
    BY <1>1 DEF Serve, Exit, Alive, Running, SuperviseInv, TypeOK
  <2> QED BY <2>1, <2>2, FewerAlive
<1>2. CASE Age \/ UNCHANGED vars
  BY <1>2, FewerAlive DEF Age, vars, managerVars, callerVars, Alive
<1> QED BY <1>1, <1>2, OneCallerStep, OneWatchdogStep DEF Next

LEMMA OneInit == Init => Serial /\ ExitNoted /\ OneInv
<1> SUFFICES ASSUME Init PROVE Serial /\ ExitNoted /\ OneInv
  OBVIOUS
<1>1. \A p \in ProcIds : ~Alive(p)
  BY DEF Init, Alive, Running
<1> QED BY <1>1 DEF Init, Serial, ExitNoted, OneInv, AliveHeld, OneDaemon

\* With one caller the calls are serial: it is the only thread that starts.
LEMMA OneCallerIsSerial ==
  ASSUME NEW c, Callers = {c}, TypeOK, Serial, [Next]_vars
  PROVE  Serial'
<1>t. pc \in [Callers -> CallerStates] /\ c \in Callers
  BY DEF TypeOK
<1>1. CASE Call(c) \/ Resume(c) \/ Forget(c) \/ Spawn(c)
  <2>1. pc' = [pc EXCEPT ![c] = "stop"] \/ pc' = [pc EXCEPT ![c] = "idle"]
    BY <1>1 DEF Call, Resume, Forget, Spawn
  <2> QED BY <1>t, <2>1 DEF Serial
<1>2. CASE Take(c)
  BY <1>2 DEF Take, Serial
<1>3. CASE Reap(c)
  BY <1>3, <1>t DEF Reap, Serial, historyVars
<1>4. CASE UNCHANGED <<pc, wanted>>
  BY <1>4 DEF Serial
<1>5. ASSUME NEW p \in ProcIds, Watchdog(p) \/ Serve(p) \/ Exit(p)
      PROVE  UNCHANGED <<pc, wanted>>
  BY <1>5 DEF Watchdog, Bow, Poll, Claim, React, Count, Stamp, Respawn, Serve, Exit,
              callerVars, historyVars
<1>6. CASE Age \/ UNCHANGED vars
  BY <1>4, <1>6 DEF Age, vars, callerVars, historyVars
<1> QED BY <1>1, <1>2, <1>3, <1>4, <1>5, <1>6 DEF Next, CallerStep

\* Two daemons never run at a time, if the calls come from one thread and a
\* killed daemon dies.
THEOREM OneAtATime ==
  ASSUME NEW c, Callers = {c}, KillWorks
  PROVE  Spec => []OneDaemon
<1>1. SuperviseInv /\ ExitNoted /\ Serial /\ OneInv /\ [Next]_vars
        => (ExitNoted /\ Serial /\ OneInv)'
  BY ExitNotedStep, OneCallerIsSerial, OneStep DEF SuperviseInv
<1>2. OneInv => OneDaemon
  BY DEF OneInv
<1> QED BY <1>1, <1>2, OneInit, SuperviseInvariant, PTL DEF Spec

\* The manager, its watchdogs, its callers and the daemons stay well typed.
THEOREM ManagerTypeCorrect == Spec => []TypeOK
BY InitType, StepType, PTL DEF Spec

----------------------------------------------------------------------------
(* The restart budget, whatever the callers do.  The crash respawns behind   *)
(* the current watchdog are all in the list, or have aged, or were struck    *)
(* out of it; a value between reading and storing counts one more.           *)

ChainInv ==
  \A p \in Current :
    /\ chain[p] <= stamps + Forgiven
    /\ wd[p] = "stamp" => chain[p] + 1 <= count[p] + Forgiven
    /\ wd[p] = "backoff" => /\ chain[p] + 1 <= stamps + Forgiven
                           /\ chain[p] + 1 <= MaxRestarts + Forgiven

BudgetInv == RestartBudget /\ ChainInv

\* A spawn hands on no more than its links.
LEMMA LaunchBudget ==
  ASSUME SuperviseInv, BudgetInv, NEW links \in Nat, NEW delays,
         NEW watchers \in [ProcIds -> WatchdogStates],
         Launch(links, watchers, delays), UNCHANGED <<stamps, aged, lost>>,
         links <= stamps + Forgiven, links <= MaxRestarts + Forgiven
  PROVE  BudgetInv'
<1>t. /\ chain \in [ProcIds -> Nat] /\ gen \in [ProcIds -> Nat]
      /\ generation \in Nat /\ stamps \in Nat /\ aged \in Nat /\ lost \in Nat
      /\ MaxRestarts \in Nat
  BY ManagerAssumption DEF SuperviseInv, TypeOK
<1>1. PICK p \in ProcIds : /\ generation' = generation + 1
                          /\ wd' = [watchers EXCEPT ![p] = "watch"]
                          /\ gen' = [gen EXCEPT ![p] = generation + 1]
                          /\ chain' = [chain EXCEPT ![p] = links]
  BY DEF Launch, Unborn
<1>2. /\ wd'[p] = "watch" /\ chain'[p] = links
      /\ \A q \in ProcIds \ {p} : chain'[q] = chain[q] /\ gen'[q] # generation'
  BY <1>1, <1>t DEF SuperviseInv, GenBound
<1>3. RestartBudget'
  BY <1>2 DEF BudgetInv, RestartBudget, Forgiven
<1>4. Current' \subseteq {p}
  BY <1>2 DEF Current
<1>5. ChainInv'
  BY <1>2, <1>4 DEF ChainInv, Forgiven
<1> QED BY <1>3, <1>5 DEF BudgetInv

\* What was within a sum still is when the sum, or a part of it, has grown.
LEMMA SumGrows ==
  ASSUME NEW e \in Nat, NEW s1 \in Nat, NEW s2 \in Nat, NEW f1 \in Nat, NEW f2 \in Nat,
         s1 + f1 <= s2 + f2, e <= s1 + f1
  PROVE  e <= s2 + f2
OBVIOUS

LEMMA PartGrows ==
  ASSUME NEW e \in Nat, NEW n \in Nat, NEW f1 \in Nat, NEW f2 \in Nat,
         f1 <= f2, e <= n + f1
  PROVE  e <= n + f2
OBVIOUS

\* Crashes may be struck out of the list or forgiven.
Loosened ==
  /\ stamps' \in Nat /\ Forgiven' \in Nat
  /\ stamps + Forgiven <= stamps' + Forgiven'
  /\ Forgiven <= Forgiven'

\* What was within the budget still is.
LEMMA LoosenedSums ==
  ASSUME stamps \in Nat, Forgiven \in Nat, Loosened, NEW e \in Nat, NEW n \in Nat
  PROVE  /\ e <= stamps + Forgiven => e <= stamps' + Forgiven'
         /\ e <= n + Forgiven => e <= n + Forgiven'
<1>1. /\ stamps' \in Nat /\ Forgiven' \in Nat /\ Forgiven <= Forgiven'
      /\ stamps + Forgiven <= stamps' + Forgiven'
  BY DEF Loosened
<1>2. e <= stamps + Forgiven => e <= stamps' + Forgiven'
  BY <1>1, SumGrows
<1>3. e <= n + Forgiven => e <= n + Forgiven'
  BY <1>1, PartGrows
<1> QED BY <1>2, <1>3

\* No watchdog comes to a new place.
LEMMA SameBudget ==
  ASSUME SuperviseInv, BudgetInv, Loosened, UNCHANGED <<chain, gen, generation>>,
         \A p \in Current' : /\ wd'[p] \in {"stamp", "backoff"} => wd'[p] = wd[p]
                             /\ count'[p] = count[p],
         Current' \subseteq Current
  PROVE  BudgetInv'
<1>t. /\ chain \in [ProcIds -> Nat] /\ count \in [ProcIds -> Nat]
      /\ stamps \in Nat /\ Forgiven \in Nat /\ MaxRestarts \in Nat
      /\ Current \subseteq ProcIds
  BY ManagerAssumption DEF SuperviseInv, TypeOK, Current, Forgiven
<1>1. RestartBudget'
  <2>1. ASSUME NEW p \in ProcIds PROVE chain[p] <= MaxRestarts + Forgiven'
    <3>1. chain[p] \in Nat /\ chain[p] <= MaxRestarts + Forgiven
      BY <1>t DEF BudgetInv, RestartBudget
    <3> QED BY <3>1, <1>t, LoosenedSums
  <2> QED BY <2>1 DEF RestartBudget
<1>2. ASSUME NEW p \in Current'
      PROVE  /\ chain[p] <= stamps' + Forgiven'
             /\ wd'[p] = "stamp" => chain[p] + 1 <= count[p] + Forgiven'
             /\ wd'[p] = "backoff" => /\ chain[p] + 1 <= stamps' + Forgiven'
                                     /\ chain[p] + 1 <= MaxRestarts + Forgiven'
  <2>1. /\ p \in Current /\ chain[p] \in Nat /\ count[p] \in Nat
        /\ wd'[p] \in {"stamp", "backoff"} => wd'[p] = wd[p]
    BY <1>t
  <2>2. /\ chain[p] <= stamps + Forgiven
        /\ wd'[p] = "stamp" => chain[p] + 1 <= count[p] + Forgiven
        /\ wd'[p] = "backoff" => /\ chain[p] + 1 <= stamps + Forgiven
                                /\ chain[p] + 1 <= MaxRestarts + Forgiven
    BY <2>1 DEF BudgetInv, ChainInv
  <2>3. chain[p] + 1 \in Nat
    BY <2>1
  <2>4. chain[p] <= stamps' + Forgiven'
    BY <2>1, <2>2, <1>t, LoosenedSums
  <2>5. wd'[p] = "stamp" => chain[p] + 1 <= count[p] + Forgiven'
    BY <2>1, <2>2, <2>3, <1>t, LoosenedSums
  <2>6. wd'[p] = "backoff" => /\ chain[p] + 1 <= stamps' + Forgiven'
                              /\ chain[p] + 1 <= MaxRestarts + Forgiven'
    BY <2>2, <2>3, <1>t, LoosenedSums
  <2> QED BY <2>4, <2>5, <2>6
<1>3. ChainInv'
  BY <1>2 DEF ChainInv
<1> QED BY <1>1, <1>3 DEF BudgetInv

LEMMA CallerBudget ==
  ASSUME SuperviseInv, BudgetInv, NEW t \in Callers,
         Call(t) \/ Resume(t) \/ CallerStep(t)
  PROVE  BudgetInv'
<1>t. stamps \in Nat /\ aged \in Nat /\ lost \in Nat
  BY DEF SuperviseInv, TypeOK
<1>1. CASE Call(t) \/ Resume(t) \/ Reap(t)
  BY <1>1, <1>t, SameBudget
     DEF Call, Resume, Reap, managerVars, watchVars, historyVars, Current,
         Loosened, Forgiven
<1>2. CASE Take(t)
  <2>1. /\ generation' = generation + 1
        /\ UNCHANGED <<gen, chain, aged, lost>>
    BY <1>2 DEF Take, watchVars
  <2>2. Current' = {}
    BY <2>1 DEF Current, SuperviseInv, GenBound, TypeOK
  <2> QED BY <2>1, <2>2 DEF BudgetInv, RestartBudget, Forgiven, ChainInv
<1>3. CASE Forget(t)
  <2>1. /\ stamps' = 0 /\ lost' = lost + (IF wanted THEN stamps ELSE 0)
        /\ UNCHANGED <<wd, count, gen, generation, chain, aged>>
    BY <1>3 DEF Forget, watchVars
  <2>2. Current' = Current
    BY <2>1 DEF Current
  <2>3. CASE wanted
    BY <1>t, <2>1, <2>2, <2>3, SameBudget DEF Loosened, Forgiven
  <2>4. CASE ~wanted
    <3>1. Current' = {} /\ UNCHANGED <<chain, aged, lost>>
      BY <1>t, <2>1, <2>2, <2>4 DEF SuperviseInv, StoppedStaysStopped
    <3> QED BY <3>1 DEF BudgetInv, RestartBudget, Forgiven, ChainInv
  <2> QED BY <2>3, <2>4
<1>4. CASE Spawn(t)
  <2>1. UNCHANGED stamps
    BY <1>4 DEF Spawn
  <2>2. CASE UNCHANGED <<proc, process, generation, watchVars, historyVars>>
    BY <1>t, <2>1, <2>2, SameBudget DEF watchVars, historyVars, Current, Loosened,
                                        Forgiven
  <2>3. CASE Launch(0, wd, delay) /\ UNCHANGED <<aged, lost>>
    <3>1. /\ wd \in [ProcIds -> WatchdogStates]
          /\ 0 <= stamps + Forgiven /\ 0 <= MaxRestarts + Forgiven
      BY <1>t, ManagerAssumption DEF SuperviseInv, TypeOK, Forgiven
    <3> QED BY <2>1, <2>3, <3>1, LaunchBudget
  <2> QED BY <1>4, <2>2, <2>3 DEF Spawn
<1> QED BY <1>1, <1>2, <1>3, <1>4 DEF CallerStep

\* A superseded watchdog that stores its list: what it strikes out of the
\* newer one is noted as lost.
LEMMA LateStampBudget ==
  ASSUME SuperviseInv, BudgetInv, NEW p \in ProcIds, Stamp(p),
         gen[p] # generation
  PROVE  BudgetInv'
<1>t. /\ stamps \in Nat /\ aged \in Nat /\ lost \in Nat
      /\ count \in [ProcIds -> Nat] /\ wd \in [ProcIds -> WatchdogStates]
  BY DEF SuperviseInv, TypeOK
<1>1. /\ stamps' = count[p]
      /\ lost' = lost + (IF stamps > count[p] THEN stamps - count[p] ELSE 0)
      /\ count' = [count EXCEPT ![p] = 0]
      /\ \E to : wd' = [wd EXCEPT ![p] = to]
      /\ UNCHANGED <<chain, aged, gen, generation>>
  BY DEF Stamp, WatchTo
<1>2. Current' = Current /\ p \notin Current
  BY <1>1, <1>t DEF Current
<1>3. \A q \in Current : wd'[q] = wd[q] /\ count'[q] = count[q]
  BY <1>1, <1>2, <1>t DEF Current
<1>4. /\ stamps' \in Nat /\ lost' \in Nat
      /\ stamps + (aged + lost) <= stamps' + (aged + lost') /\ lost <= lost'
  BY <1>1, <1>t
<1>5. Loosened
  BY <1>1, <1>4, <1>t DEF Loosened, Forgiven
<1> QED BY <1>1, <1>2, <1>3, <1>5, <1>t, SameBudget

LEMMA WatchdogBudget ==
  ASSUME SuperviseInv, BudgetInv, NEW p \in ProcIds, Watchdog(p)
  PROVE  BudgetInv'
<1>t. /\ wd \in [ProcIds -> WatchdogStates] /\ count \in [ProcIds -> Nat]
      /\ chain \in [ProcIds -> Nat] /\ stamps \in Nat /\ aged \in Nat
      /\ lost \in Nat /\ MaxRestarts \in Nat
  BY ManagerAssumption DEF SuperviseInv, TypeOK
<1>f. Forgiven \in Nat
  BY <1>t DEF Forgiven
<1>1. CASE Bow(p) \/ Poll(p) \/ Claim(p) \/ React(p)
  <2>1. /\ UNCHANGED <<stamps, count, chain, aged, lost, gen, generation>>
        /\ wd[p] \notin Returned
        /\ \E to \in {"done", "exited", "react", "offline", "count"} : WatchTo(p, to)
    BY <1>1 DEF Bow, Poll, Claim, React, Reaction, managerVars, historyVars,
                Returned
  <2>2. PICK to \in {"done", "exited", "react", "offline", "count"} :
          wd' = [wd EXCEPT ![p] = to]
    BY <2>1 DEF WatchTo
  <2>3. /\ wd'[p] \notin {"stamp", "backoff"}
        /\ \A q \in ProcIds \ {p} : wd'[q] = wd[q]
    BY <1>t, <2>2
  <2>4. Current' \subseteq Current
    BY <2>1, <2>3 DEF Current
  <2>5. \A q \in Current' : wd'[q] \in {"stamp", "backoff"} => wd'[q] = wd[q]
    BY <2>3 DEF Current
  <2> QED BY <1>t, <2>1, <2>4, <2>5, SameBudget DEF Loosened, Forgiven
<1>2. CASE Count(p)
  <2>1. /\ wd[p] = "count" /\ count' = [count EXCEPT ![p] = stamps + 1]
        /\ wd' = [wd EXCEPT ![p] = "stamp"]
        /\ UNCHANGED <<stamps, chain, aged, lost, gen, generation>>
    BY <1>2 DEF Count, WatchTo, managerVars, historyVars
  <2>2. Current' = Current /\ Forgiven' = Forgiven
    BY <1>t, <2>1 DEF Current, Returned, Forgiven
  <2>3. ChainInv'
    BY <1>t, <1>f, <2>1, <2>2 DEF BudgetInv, ChainInv, Current
  <2> QED BY <2>1, <2>3 DEF BudgetInv, RestartBudget, Forgiven
<1>3. CASE Stamp(p) /\ gen[p] = generation
  <2>1. /\ wd[p] = "stamp" /\ stamps' = count[p]
        /\ wd' = [wd EXCEPT ![p] = IF count[p] > MaxRestarts THEN "gave_up"
                                                            ELSE "backoff"]
        /\ UNCHANGED <<chain, aged, lost, gen, generation>>
    BY <1>3, <1>t DEF Stamp, WatchTo
  <2>2. Current = {p}
    BY <1>3, <2>1 DEF Current, Returned, SuperviseInv, Supervised
  <2>3. Current' \subseteq {p}
    BY <1>t, <2>1, <2>2 DEF Current
  <2>4. chain[p] + 1 <= count[p] + Forgiven
    BY <2>1, <2>2 DEF BudgetInv, ChainInv
  <2>5. wd'[p] = "backoff" => chain[p] + 1 <= MaxRestarts + Forgiven
    BY <1>t, <1>f, <2>1, <2>4
  <2>6. wd'[p] # "stamp" /\ chain[p] <= count[p] + Forgiven
    BY <1>t, <1>f, <2>1, <2>4
  <2>7. Forgiven' = Forgiven
    BY <2>1 DEF Forgiven
  <2>8. ChainInv'
    BY <2>1, <2>3, <2>4, <2>5, <2>6, <2>7 DEF ChainInv
  <2> QED BY <2>1, <2>8 DEF BudgetInv, RestartBudget, Forgiven
<1>4. CASE Respawn(p)
  <2> DEFINE crashed == wd[p] = "backoff"
             delays == [delay EXCEPT ![p] = IF crashed THEN Doubled(@) ELSE @]
             links == chain[p] + (IF crashed THEN 1 ELSE 0)
  <2>1. wd[p] \in {"offline", "backoff"} /\ UNCHANGED <<stamps, count, aged, lost>>
    BY <1>4 DEF Respawn
  <2>2. CASE /\ wd' = [wd EXCEPT ![p] = "done"] \/ wd' = [wd EXCEPT ![p] = "failed"]
             /\ UNCHANGED <<generation, gen, chain>>
    <3>1. /\ wd'[p] \in Returned /\ wd'[p] \notin {"stamp", "backoff"}
          /\ \A q \in ProcIds \ {p} : wd'[q] = wd[q]
      BY <1>t, <2>2 DEF Returned
    <3>2. Current' \subseteq Current
      BY <2>2, <3>1 DEF Current
    <3>3. \A q \in Current' : wd'[q] \in {"stamp", "backoff"} => wd'[q] = wd[q]
      BY <3>1 DEF Current
    <3> QED BY <1>t, <2>1, <2>2, <3>2, <3>3, SameBudget DEF Loosened, Forgiven
  <2>3. CASE ~Superseded(p) /\ Launch(links, [wd EXCEPT ![p] = "done"], delays)
    <3>1. p \in Current
      BY <2>1, <2>3 DEF Superseded, Current, Returned
    <3>2. chain[p] <= stamps + Forgiven /\ chain[p] <= MaxRestarts + Forgiven
      BY <1>t, <3>1 DEF BudgetInv, ChainInv, RestartBudget, Forgiven
    <3>3. crashed => /\ chain[p] + 1 <= stamps + Forgiven
                     /\ chain[p] + 1 <= MaxRestarts + Forgiven
      BY <3>1 DEF BudgetInv, ChainInv
    <3>4. /\ links \in Nat /\ links <= stamps + Forgiven
          /\ links <= MaxRestarts + Forgiven
      BY <1>t, <1>f, <3>2, <3>3
    <3>5. [wd EXCEPT ![p] = "done"] \in [ProcIds -> WatchdogStates]
      BY <1>t DEF WatchdogStates, Returned
    <3> HIDE DEF links
    <3> QED BY <2>1, <2>3, <3>4, <3>5, LaunchBudget
  <2> QED BY <1>4, <2>2, <2>3 DEF Respawn, WatchTo
<1> QED BY <1>1, <1>2, <1>3, <1>4, LateStampBudget DEF Watchdog

LEMMA BudgetStep ==
  ASSUME SuperviseInv, BudgetInv, [Next]_vars
  PROVE  BudgetInv'
<1>t. stamps \in Nat /\ aged \in Nat /\ lost \in Nat
  BY DEF SuperviseInv, TypeOK
<1>1. ASSUME NEW p \in ProcIds, Serve(p) \/ Exit(p) PROVE BudgetInv'
  BY <1>1, <1>t, SameBudget
     DEF Serve, Exit, managerVars, watchVars, historyVars, Current, Loosened,
         Forgiven
<1>2. CASE Age
  <2>1. /\ stamps > 0 /\ stamps' = stamps - 1 /\ aged' = aged + 1
        /\ UNCHANGED <<wd, gen, generation, count, chain, lost>>
    BY <1>2 DEF Age, watchVars
  <2>2. Current' = Current
    BY <2>1 DEF Current
  <2> QED BY <1>t, <2>1, <2>2, SameBudget DEF Loosened, Forgiven
<1>3. CASE UNCHANGED vars
  BY <1>3, <1>t, SameBudget
     DEF vars, managerVars, watchVars, historyVars, Current, Loosened, Forgiven
<1> QED BY <1>1, <1>2, <1>3, CallerBudget, WatchdogBudget DEF Next

\* A camera that keeps crashing inside the window is respawned max_restarts
\* times in a row and no more, for any number of callers and whatever value
\* max_restarts has, but for the crashes that fell out of the window and those
\* that a list stored late or forgotten late has struck out.
THEOREM BudgetKept == Spec => []RestartBudget
<1>1. Init => BudgetInv
  <2>1. Init => Current = {} /\ Forgiven = 0
    BY DEF Init, Current, Returned, Forgiven
  <2>2. Init => RestartBudget
    BY <2>1, ManagerAssumption DEF Init, RestartBudget
  <2> QED BY <2>1, <2>2 DEF BudgetInv, ChainInv
<1>2. SuperviseInv /\ BudgetInv /\ [Next]_vars => BudgetInv'
  BY BudgetStep
<1>3. BudgetInv => RestartBudget
  BY DEF BudgetInv
<1> QED BY <1>1, <1>2, <1>3, SuperviseInvariant, PTL DEF Spec
=============================================================================
