--------------------------- MODULE PostPrintProofs ---------------------------
(* What holds of PostPrint for every number of prints, chunks, attempts, stops *)
(* and crashes, and any set of requests by hand, however harvests overlap.     *)
EXTENDS PostPrint, TLAPS

----------------------------------------------------------------------------
(* Types. *)

LEMMA HarvestSets ==
  /\ Pipelines \subseteq Harvests /\ Manuals \subseteq Harvests
  /\ \A p \in Pipelines : p \notin Manuals /\ p # NoHarvest
  /\ NoHarvest \notin Harvests
BY PostPrintAssumption DEF Harvests, Pipelines, NoHarvest

LEMMA InitTypes == Init => TypeOK
<1> SUFFICES ASSUME Init PROVE TypeOK
  OBVIOUS
<1>1. printing \in BOOLEAN /\ busy \in BOOLEAN /\ due \in BOOLEAN
  BY DEF Init
<1>2. events \in Seq({"started", "done"})
  BY DEF Init
<1>3. /\ prints \in 0..MaxPrints /\ card \in 0..MaxChunks /\ stops \in 0..MaxStops
      /\ crashes \in 0..MaxCrashes /\ at \in [Harvests -> 0..MaxChunks]
      /\ tries \in [Harvests -> 0..(MaxTries - 1)]
  BY PostPrintAssumption DEF Init
<1>4. /\ starts \in Nat /\ snapping \subseteq 1..starts /\ source \in 0..starts
      /\ after \in [Harvests -> 0..starts] /\ drawn \in [Harvests -> 0..starts]
  BY DEF Init
<1>5. pc \in [Harvests -> States]
  BY DEF Init, States, Before
<1> QED BY <1>1, <1>2, <1>3, <1>4, <1>5 DEF Init, TypeOK

\* A chunk that is pulled is one that is wanted.
AtWanted ==
  \A h \in Harvests : pc[h] \in {"attempt"} \cup Loading => at[h] \in want[h]

LEMMA CancelTypes ==
  ASSUME TypeOK, AtWanted, NEW hs \in SUBSET Harvests, Cancel(hs)
  PROVE  cancelled' \subseteq Harvests /\ kept' \in [Harvests -> SUBSET Chunks]
<1>1. \A h \in Harvests : pc[h] = "save" => at[h] \in Chunks
  BY DEF TypeOK, AtWanted, Loading
<1>2. kept \in [Harvests -> SUBSET Chunks] /\ chunk \in [Harvests -> SUBSET Chunks]
  BY DEF TypeOK
<1> QED BY <1>1, <1>2 DEF Cancel, TypeOK

LEMMA Put ==
  ASSUME NEW S, NEW f \in [Harvests -> S], NEW h \in Harvests, NEW v \in S
  PROVE  [f EXCEPT ![h] = v] \in [Harvests -> S]
OBVIOUS

LEMMA StartNumbers == TypeOK => starts \in 0..starts /\ source \in 0..starts /\ 0 \in 0..starts
BY DEF TypeOK

LEMMA Wider ==
  ASSUME NEW n \in Nat
  PROVE  0..n \subseteq 0..(n + 1) /\ 1..n \cup {n + 1} \subseteq 1..(n + 1)
OBVIOUS

\* The next start's number is the next.
LEMMA StartTypes ==
  ASSUME TypeOK, AtWanted, Started
  PROVE  TypeOK'
<1> USE HarvestSets DEF Started, HandleStart
<1>1. events' \in Seq({"started", "done"})
  BY DEF TypeOK
<1>2. starts' = starts + 1 /\ starts \in Nat
  BY DEF TypeOK
<1>3. /\ starts' \in Nat /\ snapping' \subseteq 1..starts' /\ source \in 0..starts'
      /\ 0..starts \subseteq 0..starts'
  <2>1. snapping \subseteq 1..starts /\ snapping' = snapping \cup {starts + 1}
    BY DEF TypeOK
  <2>2. 0..starts \subseteq 0..starts' /\ snapping' \subseteq 1..starts'
    BY <1>2, <2>1, Wider
  <2>3. source \in 0..starts
    BY DEF TypeOK
  <2>4. starts' \in Nat
    BY <1>2
  <2> QED BY <2>2, <2>3, <2>4
<1>4. after \in [Harvests -> 0..starts'] /\ drawn \in [Harvests -> 0..starts']
  BY <1>3 DEF TypeOK
<1>5. Armed \in SUBSET Harvests
  BY DEF Armed, TypeOK
<1>6. cancelled' \subseteq Harvests /\ kept' \in [Harvests -> SUBSET Chunks]
  BY <1>5, CancelTypes
<1> QED BY <1>1, <1>3, <1>4, <1>6
        DEF TypeOK, workVars, givenVars, diskVars, sweepVars, boundVars

LEMMA PrinterTypes ==
  ASSUME TypeOK, AtWanted,
         PrintStarts \/ PrintEnds \/ Record \/ (\E n \in snapping : Snapshot(n)) \/ Stop
  PROVE  TypeOK'
<1> USE HarvestSets, PostPrintAssumption
    DEF TypeOK, printerVars, baseVars, cancelVars, eventVars, givenVars, workVars,
        diskVars, sweepVars, boundVars
<1>1. CASE PrintStarts
  <2>1. events' \in Seq({"started", "done"})
    BY <1>1 DEF PrintStarts
  <2>2. prints' \in 0..MaxPrints
    BY <1>1 DEF PrintStarts
  <2> QED BY <1>1, <2>1, <2>2 DEF PrintStarts
<1>2. CASE PrintEnds
  <2>1. events' = events \/ events' = Append(events, "done")
    BY <1>2 DEF PrintEnds
  <2>2. Append(events, "done") \in Seq({"started", "done"})
    OBVIOUS
  <2>3. events' \in Seq({"started", "done"})
    BY <2>1, <2>2
  <2> QED BY <1>2, <2>3 DEF PrintEnds
<1>3. CASE Record
  <2>1. card' \in 0..MaxChunks
    BY <1>3 DEF Record
  <2> QED BY <1>3, <2>1 DEF Record
<1>4. ASSUME NEW n \in snapping, Snapshot(n) PROVE TypeOK'
  <2>1. n \in 0..starts /\ starts' = starts
    BY <1>4 DEF Snapshot
  <2>2. source' \in 0..starts' /\ baseline' \in 0..MaxChunks \cup {NoBaseline}
    BY <1>4, <2>1 DEF Snapshot
  <2> QED BY <1>4, <2>1, <2>2 DEF Snapshot
<1>5. CASE Stop
  <2>1. {running} \in SUBSET Harvests
    BY <1>5 DEF Stop
  <2>2. cancelled' \subseteq Harvests /\ kept' \in [Harvests -> SUBSET Chunks]
    BY <1>5, <2>1, CancelTypes DEF Stop
  <2>3. stops' \in 0..MaxStops
    BY <1>5 DEF Stop
  <2> QED BY <1>5, <2>2, <2>3 DEF Stop
<1> QED BY <1>1, <1>2, <1>3, <1>4, <1>5

LEMMA GoneTypes ==
  ASSUME TypeOK, NEW h \in Harvests, Gone(h)
  PROVE  /\ after' \in [Harvests -> 0..starts] /\ pc' \in [Harvests -> States]
         /\ kept' \in [Harvests -> SUBSET Chunks]
<1>1. "done" \in States
  BY DEF States
<1>2. /\ after \in [Harvests -> 0..starts] /\ pc \in [Harvests -> States]
      /\ kept \in [Harvests -> SUBSET Chunks]
  BY DEF TypeOK
<1>3. {} \in SUBSET Chunks
  OBVIOUS
<1> QED BY <1>1, <1>2, <1>3, Put, StartNumbers DEF Gone, To

LEMMA PipelineTypes ==
  ASSUME TypeOK, AtWanted, NEW p \in Pipelines,
         PrintDone(p) \/ Gate(p) \/ Stage2(p) \/ Stage3(p) \/ EndWorker(p)
  PROVE  TypeOK'
<1> USE HarvestSets DEF TypeOK, OnlyPc, To, States, Before,
        printerVars, baseVars, cancelVars, eventVars, givenVars, workVars, diskVars,
        sweepVars, boundVars
<1>1. CASE PrintDone(p)
  <2>1. events' \in Seq({"started", "done"})
    BY <1>1 DEF PrintDone
  <2>2. Armed \in SUBSET Harvests
    BY DEF Armed
  <2>3. cancelled' \subseteq Harvests /\ kept' \in [Harvests -> SUBSET Chunks]
    BY <1>1, <2>2, CancelTypes DEF PrintDone
  <2>4. after' \in [Harvests -> 0..starts] /\ pc' \in [Harvests -> States]
    BY <1>1, Put, StartNumbers DEF PrintDone
  <2> QED BY <1>1, <2>1, <2>3, <2>4 DEF PrintDone
<1>2. CASE Gate(p)
  <2>1. pc' = [pc EXCEPT ![p] = "stage2"] \/ pc' = [pc EXCEPT ![p] = "end"]
    BY <1>2 DEF Gate
  <2>2. pc \in [Harvests -> States] /\ "stage2" \in States /\ "end" \in States
    OBVIOUS
  <2>3. pc' \in [Harvests -> States]
    BY ONLY <2>1, <2>2, Put, HarvestSets, p \in Pipelines
  <2> QED BY <1>2, <2>3 DEF Gate
<1>3. CASE Stage2(p)
  <2>1. pc' \in [Harvests -> States]
    BY <1>3 DEF Stage2
  <2> QED BY <1>3, <2>1 DEF Stage2
<1>4. CASE Stage3(p)
  <2>1. pc' \in [Harvests -> States]
    BY <1>4 DEF Stage3
  <2> QED BY <1>4, <2>1 DEF Stage3
<1>5. CASE EndWorker(p)
  BY <1>5, GoneTypes DEF EndWorker, Gone
<1> QED BY <1>1, <1>2, <1>3, <1>4, <1>5

LEMMA ManualTypes ==
  ASSUME TypeOK, NEW m \in Manuals, Fetch(m) \/ Lock(m) \/ Unlock(m)
  PROVE  TypeOK'
<1> USE HarvestSets DEF TypeOK, OnlyPc, To, States, Before,
        printerVars, baseVars, cancelVars, eventVars, givenVars, workVars, diskVars,
        sweepVars, boundVars
<1>1. CASE Fetch(m)
  <2>1. pc' \in [Harvests -> States]
    BY <1>1 DEF Fetch
  <2> QED BY <1>1, <2>1 DEF Fetch
<1>2. CASE Lock(m)
  <2>1. pc' \in [Harvests -> States]
    BY <1>2 DEF Lock
  <2> QED BY <1>2, <2>1 DEF Lock
<1>3. CASE Unlock(m)
  BY <1>3, GoneTypes DEF Unlock, Gone
<1> QED BY <1>1, <1>2, <1>3

LEMMA FailedTypes ==
  ASSUME tries \in [Harvests -> 0..(MaxTries - 1)], pc \in [Harvests -> States],
         NEW h \in Harvests, Failed(h)
  PROVE  tries' \in [Harvests -> 0..(MaxTries - 1)] /\ pc' \in [Harvests -> States]
<1>1. /\ 0 \in 0..(MaxTries - 1)
      /\ tries[h] + 1 < MaxTries => tries[h] + 1 \in 0..(MaxTries - 1)
  BY PostPrintAssumption
<1>2. "attempt" \in States /\ "pull" \in States
  BY DEF States, Entered, Registered, Pulling
<1> QED BY <1>1, <1>2 DEF Failed, To

LEMMA PullTypes ==
  ASSUME TypeOK, NEW h \in Harvests, Pull(h)
  PROVE  /\ at' \in [Harvests -> 0..MaxChunks] /\ pc' \in [Harvests -> States]
         /\ pc'[h] \in {"attempt"} \cup Loading => at'[h] \in want[h]
         /\ \A g \in Harvests \ {h} : at'[g] = at[g] /\ pc'[g] = pc[g]
<1>1. /\ "order" \in States \ Loading /\ "attempt" \in States
      /\ pc \in [Harvests -> States] /\ at \in [Harvests -> 0..MaxChunks]
  BY DEF TypeOK, States, Entered, Registered, Pulling, Loading
<1>2. Left(h) \subseteq want[h] /\ want[h] \subseteq 0..MaxChunks
  BY DEF TypeOK, Left, Chunks
<1>3. CASE pc' = [pc EXCEPT ![h] = "order"] /\ at' = at
  BY <1>1, <1>3
<1>4. ASSUME NEW c \in Left(h), at' = [at EXCEPT ![h] = c],
             pc' = [pc EXCEPT ![h] = "attempt"]
      PROVE  /\ at' \in [Harvests -> 0..MaxChunks] /\ pc' \in [Harvests -> States]
             /\ at'[h] \in want[h]
             /\ \A g \in Harvests \ {h} : at'[g] = at[g] /\ pc'[g] = pc[g]
  BY <1>1, <1>2, <1>4
<1> QED BY <1>3, <1>4 DEF Pull, To

AttemptStep(h) == Attempt(h) \/ Connect(h) \/ LastBlock(h) \/ Save(h) \/ Lose(h)

\* The steps of an attempt, in common.
LEMMA AttemptTypes ==
  ASSUME TypeOK, NEW h \in Harvests, AttemptStep(h)
  PROVE  /\ tries' \in [Harvests -> 0..(MaxTries - 1)] /\ pc' \in [Harvests -> States]
         /\ pc[h] \in {"attempt"} \cup Loading
         /\ \E step \in {"pull", "attempt"} \cup Loading : pc' = [pc EXCEPT ![h] = step]
         /\ part' \in {part, part \ {h}, part \cup {h}}
         /\ UNCHANGED AttemptVars
<1> USE DEF AttemptStep, Loading
<1>1. tries \in [Harvests -> 0..(MaxTries - 1)] /\ pc \in [Harvests -> States]
  BY DEF TypeOK
<1>2. 0 \in 0..(MaxTries - 1) /\ {"pull", "attempt"} \cup Loading \subseteq States
  BY PostPrintAssumption DEF States, Entered, Registered, Pulling
<1>3. tries' \in [Harvests -> 0..(MaxTries - 1)] /\ pc' \in [Harvests -> States]
  BY <1>1, <1>2, FailedTypes DEF Attempt, Connect, LastBlock, Save, Lose, Leave, To
<1>4. \E step \in {"pull", "attempt"} \cup Loading : pc' = [pc EXCEPT ![h] = step]
  BY DEF Attempt, Connect, LastBlock, Save, Lose, Leave, Failed, To
<1>5. pc[h] \in {"attempt"} \cup Loading /\ part' \in {part, part \ {h}, part \cup {h}}
  BY DEF Attempt, Connect, LastBlock, Save, Lose, diskVars
<1>6. UNCHANGED AttemptVars
  BY DEF Attempt, Connect, LastBlock, Save, Lose, AttemptVars, diskVars
<1> QED BY <1>3, <1>4, <1>5, <1>6

\* ... and of its data.
LEMMA AttemptSaves ==
  ASSUME TypeOK, NEW h \in Harvests, AttemptStep(h)
  PROVE  \/ UNCHANGED <<chunk, got>>
         \/ /\ Save(h)
            /\ chunk' = [chunk EXCEPT ![h] = @ \cup {at[h]}]
            /\ got' = [got EXCEPT ![h] = @ \cup {at[h]}]
BY DEF AttemptStep, Attempt, Connect, LastBlock, Save, Lose, diskVars

LEMMA AttemptKeepsTypes ==
  ASSUME TypeOK, AtWanted, NEW h \in Harvests, AttemptStep(h)
  PROVE  TypeOK'
<1>1. at[h] \in Chunks
  BY AttemptTypes DEF AtWanted, TypeOK
<1>2. chunk \in [Harvests -> SUBSET Chunks] /\ got \in [Harvests -> SUBSET Chunks]
  BY DEF TypeOK
<1>3. chunk' \in [Harvests -> SUBSET Chunks] /\ got' \in [Harvests -> SUBSET Chunks]
  BY <1>1, <1>2, AttemptSaves
<1>4. part' \subseteq Harvests
  <2>1. part \subseteq Harvests
    BY DEF TypeOK
  <2> QED BY <2>1, AttemptTypes
<1>5. tries' \in [Harvests -> 0..(MaxTries - 1)] /\ pc' \in [Harvests -> States]
  BY AttemptTypes
<1>6. UNCHANGED AttemptVars
  BY AttemptTypes
<1> QED BY <1>3, <1>4, <1>5, <1>6
        DEF AttemptVars, TypeOK, printerVars, baseVars, cancelVars, eventVars,
            givenVars,
            sweepVars, boundVars

LEMMA GivenTypes ==
  ASSUME TypeOK, NEW h \in Harvests, Enter(h) \/ Over(h)
  PROVE  /\ since' \in [Harvests -> 0..MaxChunks \cup {NoBaseline}]
         /\ drawn' \in [Harvests -> 0..starts] /\ at' \in [Harvests -> 0..MaxChunks]
<1>1. /\ since \in [Harvests -> 0..MaxChunks \cup {NoBaseline}]
      /\ drawn \in [Harvests -> 0..starts] /\ at \in [Harvests -> 0..MaxChunks]
      /\ baseline \in 0..MaxChunks \cup {NoBaseline}
  BY DEF TypeOK
<1>2. 0 \in 0..MaxChunks /\ NoBaseline \in 0..MaxChunks \cup {NoBaseline}
  BY PostPrintAssumption
<1>3. CASE Enter(h)
  BY <1>1, <1>2, <1>3, Put, StartNumbers DEF Enter
<1>4. CASE Over(h)
  BY <1>1, <1>2, <1>4, Put, StartNumbers DEF Over
<1> QED BY <1>3, <1>4

LEMMA HarvestTypes ==
  ASSUME TypeOK, AtWanted, NEW h \in Harvests, HarvestStep(h)
  PROVE  TypeOK'
<1> USE HarvestSets
    DEF TypeOK, To, States, Entered, Registered, Pulling, Loading,
        printerVars, baseVars, cancelVars, eventVars, givenVars, workVars, diskVars,
        sweepVars, boundVars
<1>1. CASE Enter(h)
  <2>1. met' \subseteq Harvests
    BY <1>1 DEF Enter, Others
  <2>2. pc' \in [Harvests -> States]
    BY <1>1 DEF Enter
  <2>3. /\ since' \in [Harvests -> 0..MaxChunks \cup {NoBaseline}]
        /\ drawn' \in [Harvests -> 0..starts]
    BY <1>1, GivenTypes
  <2> QED BY <1>1, <2>1, <2>2, <2>3 DEF Enter
<1>2. CASE Diff(h)
  <2>1. Fresh(since[h]) \subseteq Chunks
    BY PostPrintAssumption DEF Fresh, Chunks
  <2>2. pc' \in [Harvests -> States]
    BY <1>2 DEF Diff
  <2>3. want' \in [Harvests -> SUBSET Chunks]
    <3>1. want' = want \/ want' = [want EXCEPT ![h] = Fresh(since[h])]
      BY <1>2 DEF Diff
    <3>2. Fresh(since[h]) \in SUBSET Chunks /\ want \in [Harvests -> SUBSET Chunks]
      BY <2>1
    <3> HIDE DEF TypeOK
    <3> QED BY <3>1, <3>2
  <2>4. notice' \in [Harvests -> {"none", "started", "done", "failed"}]
    BY <1>2 DEF Diff, Notify
  <2> QED BY <1>2, <2>2, <2>3, <2>4 DEF Diff
<1>3. CASE Prepare(h)
  BY <1>3 DEF Prepare, Notify
<1>4. CASE NoSpace(h)
  BY <1>4 DEF NoSpace, Discard, Notify
<1>5. CASE Pull(h)
  <2>1. at' \in [Harvests -> 0..MaxChunks] /\ pc' \in [Harvests -> States]
    BY <1>5, PullTypes
  <2>2. UNCHANGED <<printerVars, baseVars, eventVars, lock, busy, givenVars, want,
                    tries, got, notice, diskVars, sweepVars, met, boundVars>>
    BY <1>5 DEF Pull
  <2> QED BY <2>1, <2>2
<1>6. CASE AttemptStep(h)
  BY <1>6, AttemptKeepsTypes
<1>7. CASE DiscardEmpty(h)
  BY <1>7 DEF DiscardEmpty, Discard, Notify
<1>8. CASE WriteOrder(h)
  <2>1. listed' \subseteq Harvests /\ order' \in [Harvests -> SUBSET Chunks]
    <3>1. /\ listed' = listed \/ listed' = listed \cup {h}
          /\ order' = order \/ order' = [order EXCEPT ![h] = got[h]]
      BY <1>8 DEF WriteOrder
    <3>2. /\ order \in [Harvests -> SUBSET Chunks] /\ got[h] \in SUBSET Chunks
          /\ listed \subseteq Harvests
      OBVIOUS
    <3> QED BY ONLY <3>1, <3>2, Put, h \in Harvests
  <2>2. pc' \in [Harvests -> States]
    BY <1>8 DEF WriteOrder
  <2> QED BY <1>8, <2>1, <2>2 DEF WriteOrder
<1>9. CASE Report(h)
  <2>1. /\ pc' \in [Harvests -> States]
        /\ notice' \in [Harvests -> {"none", "started", "done", "failed"}]
    BY <1>9 DEF Report, Notify
  <2> QED BY <1>9, <2>1 DEF Report
<1>10. CASE Release(h)
  <2>1. running' \in Harvests \cup {NoHarvest}
    BY <1>10 DEF Release, Over
  <2>2. /\ since' \in [Harvests -> 0..MaxChunks \cup {NoBaseline}]
        /\ at' \in [Harvests -> 0..MaxChunks] /\ drawn' \in [Harvests -> 0..starts]
    BY <1>10, GivenTypes DEF Release
  <2> QED BY <1>10, <2>1, <2>2 DEF Release, Over
<1>11. CASE Lower(h)
  BY <1>11 DEF Lower, Lowered
<1> QED BY <1>1, <1>2, <1>3, <1>4, <1>5, <1>6, <1>7, <1>8, <1>9, <1>10, <1>11
        DEF HarvestStep, AttemptStep

\* What the steps that are not of a harvest, nor of a crash, have in common.
LEMMA QuietSteps ==
  ASSUME \/ PrintStarts \/ PrintEnds \/ Record \/ Started
         \/ (\E n \in snapping : Snapshot(n)) \/ Stop \/ Sweep \/ UNCHANGED vars
  PROVE  /\ UNCHANGED <<pc, at, want, got, notice, busy, running, met, after,
                        drawn>>
         /\ UNCHANGED pending \/ Started
         /\ UNCHANGED cancelVars \/ Stop \/ Started
         /\ UNCHANGED starts \/ Started
<1> USE DEF workVars, givenVars, eventVars, baseVars, SweepVars
<1>1. CASE Sweep
  BY <1>1 DEF Sweep, SweepBegin, SweepGroup, SweepDiscard
<1>2. CASE PrintStarts \/ PrintEnds \/ Record \/ (\E n \in snapping : Snapshot(n))
  BY <1>2 DEF PrintStarts, PrintEnds, Record, Snapshot
<1>3. CASE Started \/ Stop \/ UNCHANGED vars
  BY <1>3 DEF Started, HandleStart, Stop, vars
<1> QED BY <1>1, <1>2, <1>3

LEMMA AtStep == TypeOK /\ AtWanted /\ [Next]_vars => AtWanted'
<1> SUFFICES ASSUME TypeOK, AtWanted, [Next]_vars, NEW g \in Harvests,
                    pc'[g] \in {"attempt"} \cup Loading
             PROVE  at'[g] \in want'[g]
  BY DEF AtWanted
<1> USE HarvestSets DEF TypeOK, To, Before, OnlyPc, workVars, Loading
<1>1. ASSUME NEW h \in Harvests, HarvestStep(h) PROVE at'[g] \in want'[g]
  <2>1. CASE Pull(h)
    BY <2>1, PullTypes DEF Pull, AtWanted
  <2>2. CASE AttemptStep(h)
    <3>1. UNCHANGED <<at, want>> /\ pc[h] \in {"attempt"} \cup Loading
      BY <2>2, AttemptTypes DEF AttemptVars
    <3>2. g # h => pc'[g] = pc[g]
      <4>1. \E step \in {"pull", "attempt"} \cup Loading :
              pc' = [pc EXCEPT ![h] = step]
        BY <2>2, AttemptTypes
      <4> QED BY <4>1
    <3> QED BY <3>1, <3>2 DEF AtWanted
  <2>3. CASE Diff(h)
    BY <2>3 DEF Diff, AtWanted
  <2>4. CASE Enter(h) \/ Prepare(h) \/ NoSpace(h) \/ DiscardEmpty(h) \/ WriteOrder(h)
    BY <2>4 DEF Enter, Prepare, NoSpace, DiscardEmpty, WriteOrder, AtWanted
  <2>5. CASE Report(h) \/ Release(h) \/ Lower(h)
    BY <2>5 DEF Report, Release, Over, Lower, Lowered, AtWanted
  <2> QED BY <1>1, <2>1, <2>2, <2>3, <2>4, <2>5 DEF HarvestStep, AttemptStep
<1>2. ASSUME NEW p \in Pipelines,
             PrintDone(p) \/ Gate(p) \/ Stage2(p) \/ Stage3(p) \/ EndWorker(p)
      PROVE  at'[g] \in want'[g]
  <2>1. UNCHANGED <<at, want>>
    BY <1>2 DEF PrintDone, Gate, Stage2, Stage3, EndWorker, Gone
  <2>2. \E step \in {"gate", "stage2", "stage3", "enter", "end", "done"} :
          pc' = [pc EXCEPT ![p] = step]
    BY <1>2 DEF PrintDone, Gate, Stage2, Stage3, EndWorker, Gone
  <2>3. pc[g] \in {"attempt"} \cup Loading
    BY <2>2
  <2> QED BY <2>1, <2>3 DEF AtWanted
<1>3. ASSUME NEW m \in Manuals, Fetch(m) \/ Lock(m) \/ Unlock(m)
      PROVE  at'[g] \in want'[g]
  BY <1>3 DEF Fetch, Lock, Unlock, Gone, AtWanted
<1>4. CASE \/ PrintStarts \/ PrintEnds \/ Record \/ Started
           \/ (\E n \in snapping : Snapshot(n)) \/ Stop \/ Sweep \/ UNCHANGED vars
  BY <1>4, QuietSteps DEF AtWanted
<1>5. CASE Crash
  BY <1>5 DEF Crash
<1> QED BY <1>1, <1>2, <1>3, <1>4, <1>5 DEF Next, PipelineStep, ManualStep

LEMMA CrashTypes == ASSUME TypeOK, Crash PROVE TypeOK'
<1> USE HarvestSets, PostPrintAssumption DEF TypeOK, States, Before, diskVars
<1>1. events' \in Seq({"started", "done"})
  BY DEF Crash
<1>2. printing' \in BOOLEAN /\ busy' \in BOOLEAN /\ due' \in BOOLEAN
  BY DEF Crash
<1>3. pc' \in [Harvests -> States]
  BY DEF Crash
<1>4. /\ after' \in [Harvests -> 0..starts'] /\ drawn' \in [Harvests -> 0..starts']
      /\ snapping' \subseteq 1..starts' /\ source' \in 0..starts' /\ starts' \in Nat
  BY DEF Crash
<1>5. crashes' \in 0..MaxCrashes /\ tries' \in [Harvests -> 0..(MaxTries - 1)]
  BY DEF Crash
<1>6. /\ since' \in [Harvests -> 0..MaxChunks \cup {NoBaseline}]
      /\ at' \in [Harvests -> 0..MaxChunks] /\ got' \in [Harvests -> SUBSET Chunks]
      /\ kept' \in [Harvests -> SUBSET Chunks]
  BY DEF Crash
<1>7. /\ baseline' = NoBaseline /\ pending' = NoHarvest /\ running' = NoHarvest
      /\ cancelled' = {} /\ lock' = NoHarvest /\ sweep' = {} /\ doomed' = NoHarvest
      /\ UNCHANGED <<prints, card, want, notice, diskVars, swept, met, stops>>
  BY DEF Crash
<1> QED BY <1>1, <1>2, <1>3, <1>4, <1>5, <1>6, <1>7

LEMMA SweepTypes == ASSUME TypeOK, Sweep PROVE TypeOK'
<1> USE HarvestSets DEF TypeOK, SweepVars, printerVars, baseVars, cancelVars,
                        eventVars,
        givenVars, workVars, boundVars
<1>1. CASE SweepBegin
  BY <1>1 DEF SweepBegin, diskVars
<1>2. ASSUME NEW h \in Harvests, SweepGroup(h) PROVE TypeOK'
  BY <1>2 DEF SweepGroup
<1>3. CASE SweepDiscard
  BY <1>3 DEF SweepDiscard, Discard
<1> QED BY <1>1, <1>2, <1>3 DEF Sweep

LEMMA TypesStep == TypeOK /\ AtWanted /\ [Next]_vars => TypeOK'
<1> SUFFICES ASSUME TypeOK, AtWanted, [Next]_vars PROVE TypeOK'
  OBVIOUS
<1>1. CASE UNCHANGED vars
  BY <1>1 DEF TypeOK, vars, printerVars, baseVars, cancelVars, eventVars, givenVars,
              workVars, diskVars, sweepVars, boundVars
<1>2. ASSUME NEW p \in Pipelines, PrintDone(p) \/ PipelineStep(p) PROVE TypeOK'
  BY <1>2, PipelineTypes, HarvestTypes, HarvestSets DEF PipelineStep
<1>3. ASSUME NEW m \in Manuals, Fetch(m) \/ ManualStep(m) PROVE TypeOK'
  BY <1>3, ManualTypes, HarvestTypes, HarvestSets DEF ManualStep
<1> QED BY <1>1, <1>2, <1>3, PrinterTypes, StartTypes, CrashTypes,
           SweepTypes DEF Next

\* Every variable keeps its type.
THEOREM PostPrintTypes == Spec => []TypeOK
<1>1. Init => TypeOK /\ AtWanted
  BY InitTypes DEF Init, AtWanted, Loading
<1>2. TypeOK /\ AtWanted /\ [Next]_vars => (TypeOK /\ AtWanted)'
  BY TypesStep, AtStep
<1> QED BY <1>1, <1>2, PTL DEF Spec

----------------------------------------------------------------------------
(* Pipelines. *)

\* A harvest leaves the events of the pipelines alone.
LEMMA HarvestSteps ==
  ASSUME TypeOK, NEW h \in Harvests, HarvestStep(h)
  PROVE  /\ UNCHANGED <<pending, cancelled, kept, starts, source, after>>
         /\ UNCHANGED drawn \/ Enter(h) \/ Release(h)
         /\ pc[h] \in {"enter"} \cup Entered /\ pc'[h] \in {"end"} \cup Entered
         /\ \A g \in Harvests \ {h} : pc'[g] = pc[g]
<1> USE DEF To, Entered, Registered, Pulling, Loading, baseVars, cancelVars,
        eventVars,
        givenVars
<1>1. pc \in [Harvests -> States]
  BY DEF TypeOK
<1>2. CASE AttemptStep(h)
  <2>1. UNCHANGED AttemptVars /\ pc[h] \in {"attempt"} \cup Loading
    BY <1>2, AttemptTypes
  <2>2. \E step \in {"pull", "attempt"} \cup Loading : pc' = [pc EXCEPT ![h] = step]
    BY <1>2, AttemptTypes
  <2> QED BY <1>1, <2>1, <2>2 DEF AttemptVars
<1>3. CASE Enter(h) \/ Diff(h) \/ Prepare(h) \/ NoSpace(h) \/ Pull(h)
  BY <1>1, <1>3 DEF Enter, Diff, Prepare, NoSpace, Pull
<1>4. CASE DiscardEmpty(h) \/ WriteOrder(h) \/ Report(h)
  BY <1>1, <1>4 DEF DiscardEmpty, WriteOrder, Report
<1>5. CASE Release(h) \/ Lower(h)
  BY <1>1, <1>5 DEF Release, Over, Lower, Lowered
<1> QED BY <1>2, <1>3, <1>4, <1>5 DEF HarvestStep, AttemptStep

\* One that ends is none of them, or takes its own event along.
LEMMA GoneStep ==
  ASSUME TypeOK, NEW h \in Harvests, Gone(h)
  PROVE  /\ UNCHANGED <<starts, source, drawn>>
         /\ pc[h] = "end" /\ pc'[h] = "done"
         /\ \A g \in Harvests \ {h} :
              pc'[g] = pc[g] /\ after'[g] = after[g]
              /\ (g \in cancelled') = (g \in cancelled)
<1>1. pc \in [Harvests -> States] /\ after \in [Harvests -> 0..starts]
  BY DEF TypeOK
<1> QED BY <1>1 DEF Gone, To, baseVars

LEMMA LastPipelineStep == TypeOK /\ LastPipeline /\ [Next]_vars => LastPipeline'
<1> SUFFICES ASSUME TypeOK, LastPipeline, [Next]_vars, NEW p \in Pipelines,
                    pc'[p] \notin {"none", "done", "dead"}, p \notin cancelled'
             PROVE  pending' = p
  BY DEF LastPipeline
<1>0. /\ p \in Harvests /\ p # NoHarvest /\ pc \in [Harvests -> States]
      /\ pc[p] \notin {"none", "done", "dead"} /\ p \notin cancelled => pending = p
  BY HarvestSets DEF LastPipeline, TypeOK
<1> USE HarvestSets DEF To, OnlyPc, cancelVars, eventVars
<1>1. ASSUME NEW h \in Harvests, HarvestStep(h) PROVE pending' = p
  <2>1. pc[p] \notin {"none", "done", "dead"}
    BY <1>0, <1>1, HarvestSteps DEF Entered, Registered, Pulling, Loading
  <2> QED BY <1>0, <1>1, <2>1, HarvestSteps
<1>2. ASSUME NEW q \in Pipelines, PrintDone(q) PROVE pending' = p
  <2>1. CASE p = q
    BY <1>2, <2>1 DEF PrintDone
  <2>2. CASE p # q
    BY <1>0, <1>2, <2>2 DEF PrintDone, Cancel, Armed
  <2> QED BY <2>1, <2>2
<1>3. ASSUME NEW q \in Pipelines, Gate(q) \/ Stage2(q) \/ Stage3(q)
      PROVE  pending' = p
  BY <1>0, <1>3 DEF Gate, Stage2, Stage3
<1>4. ASSUME NEW m \in Manuals, Fetch(m) \/ Lock(m) PROVE pending' = p
  BY <1>0, <1>4 DEF Fetch, Lock
<1>5. ASSUME NEW h \in Harvests, Gone(h),
             pending' = pending \/ (pending = h /\ h \in Pipelines)
      PROVE  pending' = p
  BY <1>0, <1>5, GoneStep
<1>6. ASSUME NEW q \in Pipelines, EndWorker(q) PROVE pending' = p
  BY <1>5, <1>6 DEF EndWorker
<1>7. ASSUME NEW m \in Manuals, Unlock(m) PROVE pending' = p
  BY <1>5, <1>7 DEF Unlock
<1>8. CASE Started
  BY <1>0, <1>8, QuietSteps DEF Started, Cancel, Armed
<1>9. CASE Stop
  BY <1>0, <1>9, QuietSteps DEF Stop, Cancel
<1>10. CASE \/ PrintStarts \/ PrintEnds \/ Record \/ (\E n \in snapping : Snapshot(n))
            \/ Sweep \/ UNCHANGED vars
  <2>1. UNCHANGED <<pc, pending, cancelled>>
    BY <1>10, QuietSteps DEF PrintStarts, PrintEnds, Record, Snapshot, Sweep,
                             SweepBegin,
         SweepGroup, SweepDiscard, SweepVars, vars
  <2> QED BY <1>0, <2>1
<1>11. CASE Crash
  BY <1>0, <1>11 DEF Crash
<1> QED BY <1>1, <1>2, <1>3, <1>4, <1>6, <1>7, <1>8, <1>9, <1>10, <1>11
        DEF Next, PipelineStep, ManualStep

\* A new print or a later pipeline has cancelled every pipeline but the last
\* (_cancel_pending_autosync).
THEOREM OnlyTheLast == Spec => []LastPipeline
<1>1. Init => LastPipeline
  BY HarvestSets DEF Init, LastPipeline
<1> QED BY <1>1, LastPipelineStep, PostPrintTypes, PTL DEF Spec

\* The armed pipeline came after the last start.
Numbered == pending # NoHarvest => after[pending] = starts

LEMMA OrderStep ==
  TypeOK /\ TypeOK' /\ LastPipeline /\ LastPipeline' /\ Numbered /\ BaselineOrder
    /\ [Next]_vars => Numbered' /\ BaselineOrder'
<1> SUFFICES ASSUME TypeOK, TypeOK', LastPipeline, LastPipeline', Numbered, BaselineOrder,
                    [Next]_vars
             PROVE  Numbered' /\ BaselineOrder'
  OBVIOUS
<1>0. /\ pc \in [Harvests -> States] /\ pending \in Pipelines \cup {NoHarvest}
      /\ starts \in Nat /\ source \in 0..starts
      /\ after \in [Harvests -> 0..starts] /\ drawn \in [Harvests -> 0..starts]
  BY DEF TypeOK
<1> DEFINE Fine(p) == pc'[p] \in Registered /\ p \notin cancelled' => drawn'[p] <= after'[p]
<1> USE HarvestSets DEF To, OnlyPc, baseVars, cancelVars, eventVars, givenVars
<1>1. ASSUME NEW h \in Harvests, HarvestStep(h), NEW p \in Pipelines
      PROVE  Numbered' /\ Fine(p)
  <2>1. Numbered'
    BY <1>1, HarvestSteps DEF Numbered
  <2>2. UNCHANGED <<cancelled, after>> /\ after[p] \in 0..starts
    BY <1>0, <1>1, HarvestSteps
  <2>3. CASE Enter(h) /\ h = p
    <3>1. pc[p] = "enter" /\ drawn'[p] = source
      BY <1>0, <2>3 DEF Enter
    <3>2. p \notin cancelled => pending = p
      BY <3>1 DEF LastPipeline
    <3>3. p \notin cancelled => after[p] = starts
      BY <3>2 DEF Numbered
    <3> QED BY <1>0, <2>1, <2>2, <3>1, <3>3
  <2>4. CASE Release(h) /\ h = p
    <3>1. pc'[p] = "lower"
      BY <1>0, <2>4 DEF Release, Over
    <3> QED BY <2>1, <3>1 DEF Registered, Pulling, Loading
  <2>5. CASE h # p \/ (~Enter(h) /\ ~Release(h))
    <3>1. drawn'[p] = drawn[p]
      <4>1. CASE Enter(h)
        BY <4>1, <1>0, <2>5 DEF Enter
      <4>2. CASE Release(h)
        BY <4>2, <1>0, <2>5 DEF Release, Over
      <4> QED BY <4>1, <4>2, <1>1, HarvestSteps
    <3>2. pc'[p] \in Registered => pc[p] \in Registered
      <4>1. CASE h # p
        BY <1>1, <4>1, HarvestSteps
      <4>2. CASE ~Enter(h) /\ ~Release(h) /\ h = p
        <5>1. CASE AttemptStep(h)
          BY <5>1, <4>2, AttemptTypes DEF Registered, Pulling
        <5>2. CASE Diff(h) \/ Prepare(h) \/ NoSpace(h) \/ Pull(h)
          BY <5>2, <4>2 DEF Diff, Prepare, NoSpace, Pull, Registered, Pulling
        <5>3. CASE DiscardEmpty(h) \/ WriteOrder(h) \/ Report(h)
          BY <5>3, <4>2 DEF DiscardEmpty, WriteOrder, Report, Registered, Pulling
        <5>4. CASE Lower(h)
          BY <1>0, <5>4, <4>2 DEF Lower, Lowered, Registered, Pulling, Loading
        <5> QED BY <1>1, <4>2, <5>1, <5>2, <5>3, <5>4 DEF HarvestStep, AttemptStep
      <4> QED BY <2>5, <4>1, <4>2
    <3> QED BY <2>1, <2>2, <3>1, <3>2 DEF BaselineOrder
  <2> QED BY <2>3, <2>4, <2>5, <2>1
<1>2. ASSUME NEW q \in Pipelines, PrintDone(q), NEW p \in Pipelines
      PROVE  Numbered' /\ Fine(p)
  <2>1. pc' = [pc EXCEPT ![q] = "gate"] /\ pending' = q /\ starts' = starts
        /\ after' = [after EXCEPT ![q] = starts]
    BY <1>2 DEF PrintDone
  <2>2. pc'[p] \in Registered /\ p \notin cancelled' => pending' = p
    BY DEF LastPipeline, Registered, Pulling, Loading
  <2>3. pc'[q] \notin Registered
    BY <1>0, <2>1 DEF Registered, Pulling, Loading
  <2> QED BY <1>0, <2>1, <2>2, <2>3 DEF Numbered
<1>3. ASSUME NEW q \in Pipelines, Gate(q) \/ Stage2(q) \/ Stage3(q), NEW p \in Pipelines
      PROVE  Numbered' /\ Fine(p)
  <2>1. UNCHANGED <<pending, starts, after, drawn, cancelled>>
    BY <1>3 DEF Gate, Stage2, Stage3
  <2>2. pc'[p] \in Registered => pc[p] \in Registered
    BY <1>0, <1>3 DEF Gate, Stage2, Stage3, Registered, Pulling, Loading
  <2> QED BY <2>1, <2>2 DEF Numbered, BaselineOrder
<1>4. ASSUME NEW m \in Manuals, Fetch(m) \/ Lock(m), NEW p \in Pipelines
      PROVE  Numbered' /\ Fine(p)
  <2>1. UNCHANGED <<pending, starts, after, drawn, cancelled>>
    BY <1>4 DEF Fetch, Lock
  <2>2. pc'[p] = pc[p]
    BY <1>0, <1>4 DEF Fetch, Lock
  <2> QED BY <2>1, <2>2 DEF Numbered, BaselineOrder
<1>5. ASSUME NEW h \in Harvests, Gone(h), NEW p \in Pipelines,
             pending' = IF pending = h THEN NoHarvest ELSE pending
      PROVE  Numbered' /\ Fine(p)
  <2>1. Numbered'
    BY <1>0, <1>5, GoneStep DEF Numbered
  <2>2. p = h => pc'[p] \notin Registered
    BY <1>5, GoneStep DEF Registered, Pulling, Loading
  <2> QED BY <1>5, <2>1, <2>2, GoneStep DEF BaselineOrder
<1>6. ASSUME NEW q \in Pipelines, EndWorker(q), NEW p \in Pipelines
      PROVE  Numbered' /\ Fine(p)
  BY <1>5, <1>6 DEF EndWorker
<1>7. ASSUME NEW m \in Manuals, Unlock(m), NEW p \in Pipelines
      PROVE  Numbered' /\ Fine(p)
  <2>1. pending # m
    BY <1>0
  <2> QED BY <1>5, <1>7, <2>1 DEF Unlock
<1>8. ASSUME Started, NEW p \in Pipelines PROVE Numbered' /\ Fine(p)
  <2>1. pending' = NoHarvest
    BY <1>8 DEF Started, HandleStart
  <2>2. pc'[p] \in Registered /\ p \notin cancelled' => pending' = p
    BY DEF LastPipeline, Registered, Pulling, Loading
  <2> QED BY <2>1, <2>2 DEF Numbered
<1>9. ASSUME \/ PrintStarts \/ PrintEnds \/ Record \/ (\E n \in snapping : Snapshot(n))
             \/ Stop \/ Sweep \/ UNCHANGED vars,
             NEW p \in Pipelines
      PROVE  Numbered' /\ Fine(p)
  <2>1. UNCHANGED <<pc, after, drawn>>
    BY <1>9, QuietSteps
  <2>2. UNCHANGED <<pending, starts>> /\ cancelled \subseteq cancelled'
    BY <1>9 DEF PrintStarts, PrintEnds, Record, Snapshot, Stop, Cancel, Sweep,
                SweepBegin,
         SweepGroup, SweepDiscard, SweepVars, vars
  <2> QED BY <2>1, <2>2 DEF Numbered, BaselineOrder
<1>10. ASSUME Crash, NEW p \in Pipelines PROVE Numbered' /\ Fine(p)
  BY <1>10 DEF Crash, Numbered, Registered, Pulling, Loading
<1>11. ASSUME NEW p \in Pipelines PROVE Numbered' /\ Fine(p)
  BY <1>1, <1>2, <1>3, <1>4, <1>6, <1>7, <1>8, <1>9, <1>10
     DEF Next, PipelineStep, ManualStep
<1>12. BaselineOrder'
  BY <1>11 DEF BaselineOrder
<1>13. Numbered'
  <2>1. pending' \in Pipelines \cup {NoHarvest}
    BY DEF TypeOK
  <2> QED BY <1>11, <2>1 DEF Numbered
<1> QED BY <1>12, <1>13

\* The baseline of a later print never reaches the harvest of an earlier one that
\* goes on.
THEOREM OwnBaseline == Spec => []BaselineOrder
<1>1. Init => Numbered /\ BaselineOrder
  BY HarvestSets DEF Init, Numbered, BaselineOrder, Registered, Pulling, Loading
<1>2. TypeOK /\ TypeOK' /\ LastPipeline /\ LastPipeline' /\ Numbered /\ BaselineOrder
        /\ [Next]_vars => Numbered' /\ BaselineOrder'
  BY OrderStep
<1> QED BY <1>1, <1>2, OnlyTheLast, PostPrintTypes, PTL DEF Spec

----------------------------------------------------------------------------
(* Stop and the busy flag. *)

\* Two harvests at the same time have met.
Alone ==
  \A g, h \in Harvests :
    g # h /\ pc[g] \in Entered /\ pc[h] \in Entered => g \in met /\ h \in met

Shared == Alone /\ StopReaches /\ BusyTruthful

\* A step between the entry and the end of a harvest, or outside it.
Inside(h) ==
  /\ UNCHANGED <<running, busy, met>>
  /\ \A g \in Harvests \ {h} : pc'[g] = pc[g]
  /\ (pc[h] \in Registered) = (pc'[h] \in Registered)
  /\ (pc[h] \in Entered) = (pc'[h] \in Entered)

LEMMA Moves ==
  ASSUME TypeOK, NEW h \in Harvests, NEW step, pc' = [pc EXCEPT ![h] = step],
         UNCHANGED <<running, busy, met>>,
         \/ pc[h] \in Registered /\ step \in Registered
         \/ pc[h] \notin Entered /\ step \notin Entered
  PROVE  Inside(h)
<1>1. pc \in [Harvests -> States]
  BY DEF TypeOK
<1>2. Registered \subseteq Entered
  BY DEF Entered
<1> QED BY <1>1, <1>2 DEF Inside

LEMMA InsideShared ==
  ASSUME TypeOK, Shared, NEW h \in Harvests, Inside(h)
  PROVE  Shared'
<1>1. \A g \in Harvests : /\ (pc[g] \in Registered) = (pc'[g] \in Registered)
                          /\ (pc[g] \in Entered) = (pc'[g] \in Entered)
  BY DEF Inside
<1>2. Alone'
  BY <1>1 DEF Shared, Alone, Inside
<1>3. StopReaches'
  BY <1>1 DEF Shared, StopReaches, Inside, TypeOK
<1>4. BusyTruthful'
  BY <1>1 DEF Shared, BusyTruthful, Inside
<1> QED BY <1>2, <1>3, <1>4 DEF Shared

LEMMA HarvestShared ==
  ASSUME TypeOK, Shared, NEW h \in Harvests, HarvestStep(h)
  PROVE  Shared'
<1> USE HarvestSets DEF TypeOK, To, States, Entered, Registered, Pulling, Loading,
                        Before,
        printerVars, baseVars, cancelVars, eventVars, givenVars, workVars, diskVars, boundVars
<1>1. CASE Enter(h)
  <2>1. /\ pc' = [pc EXCEPT ![h] = "diff"] /\ running' = h /\ busy' = TRUE
        /\ met' = IF Others(h) = {} THEN met ELSE met \cup {h} \cup Others(h)
    BY <1>1 DEF Enter
  <2>2. \A g \in Harvests : g # h /\ pc'[g] \in Entered => g \in met' /\ h \in met'
    BY <2>1 DEF Others
  <2>3. Alone'
    BY <2>1, <2>2 DEF Alone, Shared
  <2>4. StopReaches'
    BY <2>1, <2>2 DEF StopReaches, Shared
  <2>5. BusyTruthful'
    BY <2>1 DEF BusyTruthful
  <2> QED BY <2>3, <2>4, <2>5 DEF Shared
<1>2. CASE Release(h)
  <2>1. /\ pc[h] = "release" /\ pc' = [pc EXCEPT ![h] = "lower"] /\ busy' = busy
        /\ running' = (IF running = h THEN NoHarvest ELSE running) /\ met' = met
    BY <1>2 DEF Release, Over
  <2>2. Alone'
    BY <2>1 DEF Alone, Shared
  <2>3. StopReaches'
    BY <2>1 DEF StopReaches, Shared
  <2>4. BusyTruthful'
    BY <2>1 DEF BusyTruthful, Shared
  <2> QED BY <2>2, <2>3, <2>4 DEF Shared
<1>3. CASE Lower(h)
  <2>1. /\ pc[h] = "lower" /\ pc' = [pc EXCEPT ![h] = "end"] /\ busy' = FALSE
        /\ running' = running /\ met' = met
    BY <1>3 DEF Lower, Lowered
  <2>2. Alone'
    BY <2>1 DEF Alone, Shared
  <2>3. StopReaches'
    BY <2>1 DEF StopReaches, Shared
  <2>4. BusyTruthful'
    BY <2>1 DEF BusyTruthful, Shared, Alone
  <2> QED BY <2>2, <2>3, <2>4 DEF Shared
<1>4. CASE Diff(h) \/ Prepare(h) \/ NoSpace(h) \/ Pull(h)
  <2>1. UNCHANGED <<running, busy, met>> /\ pc[h] \in Registered
    BY <1>4 DEF Diff, Prepare, NoSpace, Pull
  <2>2. \E step \in Registered : pc' = [pc EXCEPT ![h] = step]
    BY <1>4 DEF Diff, Prepare, NoSpace, Pull
  <2> QED BY <2>1, <2>2, Moves, InsideShared
<1>5. CASE AttemptStep(h)
  <2>1. UNCHANGED <<running, busy, met>> /\ pc[h] \in Registered
    BY <1>5, AttemptTypes DEF AttemptVars
  <2>2. \E step \in {"pull", "attempt"} \cup Loading : pc' = [pc EXCEPT ![h] = step]
    BY <1>5, AttemptTypes
  <2>3. \E step \in Registered : pc' = [pc EXCEPT ![h] = step]
    BY <2>2
  <2> QED BY <2>1, <2>3, Moves, InsideShared
<1>6. CASE DiscardEmpty(h) \/ WriteOrder(h) \/ Report(h)
  <2>1. UNCHANGED <<running, busy, met>> /\ pc[h] \in Registered
    BY <1>6 DEF DiscardEmpty, WriteOrder, Report
  <2>2. \E step \in Registered : pc' = [pc EXCEPT ![h] = step]
    BY <1>6 DEF DiscardEmpty, WriteOrder, Report
  <2> QED BY <2>1, <2>2, Moves, InsideShared
<1> QED BY <1>1, <1>2, <1>3, <1>4, <1>5, <1>6 DEF HarvestStep, AttemptStep

LEMMA SharedStep == TypeOK /\ Shared /\ [Next]_vars => Shared'
<1> SUFFICES ASSUME TypeOK, Shared, [Next]_vars PROVE Shared'
  OBVIOUS
<1> USE HarvestSets DEF TypeOK, To, States, Entered, Registered, Pulling, Loading,
                        Before,
        OnlyPc, printerVars, baseVars, cancelVars, eventVars, givenVars, workVars, boundVars
<1>1. ASSUME NEW p \in Pipelines,
             PrintDone(p) \/ Gate(p) \/ Stage2(p) \/ Stage3(p) \/ EndWorker(p)
      PROVE  Shared'
  <2>1. UNCHANGED <<running, busy, met>> /\ pc[p] \notin Entered
    BY <1>1 DEF PrintDone, Gate, Stage2, Stage3, EndWorker, Gone
  <2>2. \E step \in {"gate", "stage2", "stage3", "enter", "end", "done"} :
          pc' = [pc EXCEPT ![p] = step]
    BY <1>1 DEF PrintDone, Gate, Stage2, Stage3, EndWorker, Gone
  <2>3. PICK step \in {"gate", "stage2", "stage3", "enter", "end", "done"} :
          pc' = [pc EXCEPT ![p] = step]
    BY <2>2
  <2>4. step \notin Entered
    BY <2>3
  <2> QED BY <2>1, <2>3, <2>4, Moves, InsideShared
<1>2. ASSUME NEW m \in Manuals, Fetch(m) \/ Lock(m) \/ Unlock(m) PROVE Shared'
  <2>1. UNCHANGED <<running, busy, met>> /\ pc[m] \notin Entered
    BY <1>2 DEF Fetch, Lock, Unlock, Gone
  <2>2. PICK step \in {"queued", "enter", "done"} : pc' = [pc EXCEPT ![m] = step]
    BY <1>2 DEF Fetch, Lock, Unlock, Gone
  <2>3. step \notin Entered
    BY <2>2
  <2> QED BY <2>1, <2>2, <2>3, Moves, InsideShared
<1>3. CASE \/ PrintStarts \/ PrintEnds \/ Record \/ Started
           \/ (\E n \in snapping : Snapshot(n)) \/ Stop \/ Sweep \/ UNCHANGED vars
  <2>1. UNCHANGED <<pc, running, busy, met>>
    BY <1>3, QuietSteps
  <2> QED BY <2>1 DEF Shared, Alone, StopReaches, BusyTruthful
<1>4. CASE Crash
  <2>1. /\ running' = NoHarvest /\ busy' = FALSE
        /\ \A h \in Harvests : pc'[h] \in {"none", "dead"}
    BY <1>4 DEF Crash
  <2> QED BY <2>1 DEF Shared, Alone, StopReaches, BusyTruthful
<1> QED BY <1>1, <1>2, <1>3, <1>4, HarvestShared DEF Next, PipelineStep, ManualStep

LEMMA SharedAlways == Spec => []Shared
<1>1. Init => Shared
  BY DEF Init, Shared, Alone, StopReaches, BusyTruthful, Entered, Registered,
     Pulling,
         Loading
<1> QED BY <1>1, SharedStep, PostPrintTypes, PTL DEF Spec

\* Stop never reaches for a harvest that is over, and finds the one that runs alone.
THEOREM StopFinds == Spec => []StopReaches
<1>1. Shared => StopReaches
  BY DEF Shared
<1> QED BY <1>1, SharedAlways, PTL

\* The busy flag is up only while a harvest runs, and then, if it runs alone.
THEOREM BusyIsTrue == Spec => []BusyTruthful
<1>1. Shared => BusyTruthful
  BY DEF Shared
<1> QED BY <1>1, SharedAlways, PTL

----------------------------------------------------------------------------
(* Groups. *)

Early == Before \cup {"diff", "prepare"}
Working == {"pull", "attempt", "order", "notify"} \cup Loading

\* What ties a harvest to its group, before it has one, while it is at work in it and
\* afterwards ...
Group(h) ==
  /\ pc[h] \in Early \ {"prepare"} => want[h] = {} /\ notice[h] = "none"
  /\ pc[h] \in Early => /\ got[h] = {} /\ chunk[h] = {} /\ h \notin dir
                        /\ h \notin sweep /\ h # doomed
  /\ pc[h] \in {"prepare"} \cup Working => notice[h] # "done"
  /\ pc[h] \in Working /\ h \notin swept => got[h] = chunk[h] /\ h \in dir
  /\ pc[h] = "notify" => got[h] # {}
  /\ notice[h] = "done" /\ want[h] # {} /\ h \notin swept => chunk[h] = want[h]

\* ... and what the group is made of.
Made(h) ==
  /\ h \in dir /\ chunk[h] = {} => pc[h] \in Pulling \/ Unswept(h)
  /\ h \in part => h \in dir /\ (pc[h] \in {"transfer", "save"} \/ Unswept(h))
  /\ chunk[h] # {} => h \in dir
  /\ h \in listed => order[h] = chunk[h] /\ chunk[h] # {}
  /\ pc[h] \in Early \cup Pulling => h \notin listed
  /\ h \in swept => h \notin dir /\ pc[h] \notin Early
  /\ h = doomed /\ pc[h] = "dead" => chunk[h] = {}

Sound(h) == Group(h) /\ Made(h)
Groups == \A h \in Harvests : Sound(h)

\* A step that is not of the harvest h and its group, whatever else it does ...
Untouched(h) ==
  /\ want'[h] = want[h] /\ got'[h] = got[h] /\ notice'[h] = notice[h]
  /\ chunk'[h] = chunk[h] /\ order'[h] = order[h]
  /\ (h \in dir') = (h \in dir) /\ (h \in part') = (h \in part)
  /\ (h \in listed') = (h \in listed) /\ UNCHANGED sweepVars

\* ... if only its worker stays where it is, or is not, and does not get, at the group.
LEMMA UntouchedGroup ==
  ASSUME NEW h \in Harvests, Sound(h), Untouched(h),
         \/ pc'[h] = pc[h]
         \/ pc[h] \in Before /\ pc'[h] \in Before \cup {"end"}
         \/ pc[h] = "end" /\ pc'[h] = "done"
  PROVE  Sound(h)'
BY DEF Sound, Group, Made, Untouched, Unswept, sweepVars, Early, Working, Before,
   Pulling,
       Loading

LEMMA OtherGroups ==
  ASSUME TypeOK, NEW g \in Harvests, NEW h \in Harvests \ {g}, HarvestStep(g)
  PROVE  Untouched(h) /\ pc'[h] = pc[h]
<1>0. /\ want \in [Harvests -> SUBSET Chunks] /\ got \in [Harvests -> SUBSET Chunks]
      /\ chunk \in [Harvests -> SUBSET Chunks] /\ order \in [Harvests -> SUBSET Chunks]
      /\ notice \in [Harvests -> {"none", "started", "done", "failed"}]
  BY DEF TypeOK
<1>1. pc'[h] = pc[h]
  BY HarvestSteps
<1> USE <1>0 DEF Notify, Untouched, workVars, diskVars
<1>2. CASE Enter(g) \/ Diff(g) \/ Pull(g)
  BY <1>1, <1>2 DEF Enter, Diff, Pull
<1>3. CASE Prepare(g) \/ WriteOrder(g) \/ Report(g)
  BY <1>1, <1>3 DEF Prepare, WriteOrder, Report
<1>4. CASE NoSpace(g) \/ DiscardEmpty(g)
  BY <1>1, <1>4 DEF NoSpace, DiscardEmpty, Discard
<1>5. CASE AttemptStep(g)
  <2>1. UNCHANGED AttemptVars /\ part' \in {part, part \ {g}, part \cup {g}}
    BY <1>5, AttemptTypes
  <2>2. got'[h] = got[h] /\ chunk'[h] = chunk[h]
    BY <1>5, AttemptSaves
  <2> QED BY <1>1, <2>1, <2>2 DEF AttemptVars
<1>6. CASE Release(g) \/ Lower(g)
  BY <1>1, <1>6 DEF Release, Over, Lower, Lowered
<1> QED BY <1>2, <1>3, <1>4, <1>5, <1>6 DEF HarvestStep, AttemptStep

LEMMA OwnGroup ==
  ASSUME TypeOK, NEW h \in Harvests, Sound(h), HarvestStep(h)
  PROVE  Sound(h)'
<1>0. /\ want \in [Harvests -> SUBSET Chunks] /\ got \in [Harvests -> SUBSET Chunks]
      /\ chunk \in [Harvests -> SUBSET Chunks] /\ order \in [Harvests -> SUBSET Chunks]
      /\ notice \in [Harvests -> {"none", "started", "done", "failed"}]
      /\ pc \in [Harvests -> States]
  BY DEF TypeOK
<1> USE <1>0 DEF To, Notify, Sound, Group, Made, Unswept, Early, Working, Before,
                 Pulling,
        Loading, workVars, diskVars, sweepVars
<1>1. CASE Enter(h)
  BY <1>1 DEF Enter
<1>2. CASE Diff(h)
  BY <1>2 DEF Diff
<1>3. CASE Prepare(h)
  BY <1>3 DEF Prepare
<1>4. CASE NoSpace(h)
  BY <1>4 DEF NoSpace, Discard
<1>5. CASE Pull(h)
  BY <1>5 DEF Pull
<1>6. CASE Attempt(h)
  BY <1>6 DEF Attempt, Leave
<1>7. CASE Connect(h)
  BY <1>7 DEF Connect, AttemptVars, Failed
<1>8. CASE LastBlock(h)
  BY <1>8 DEF LastBlock, AttemptVars
<1>9. CASE Save(h)
  BY <1>9 DEF Save, AttemptVars, Leave
<1>10. CASE Lose(h)
  BY <1>10 DEF Lose, AttemptVars, Failed, Leave
<1>11. CASE DiscardEmpty(h)
  BY <1>11 DEF DiscardEmpty, Discard
<1>12. CASE WriteOrder(h)
  BY <1>12 DEF WriteOrder
<1>13. CASE Report(h)
  BY <1>13 DEF Report
<1>14. CASE Release(h)
  BY <1>14 DEF Release, Over
<1>15. CASE Lower(h)
  BY <1>15 DEF Lower, Lowered
<1> QED BY <1>1, <1>2, <1>3, <1>4, <1>5, <1>6, <1>7, <1>8, <1>9, <1>10, <1>11,
           <1>12,
           <1>13, <1>14, <1>15 DEF HarvestStep

\* The sweep, at any group.
LEMMA SweepGroups ==
  ASSUME TypeOK, NEW h \in Harvests, Sound(h), Sweep
  PROVE  Sound(h)'
<1> USE HarvestSets DEF Sound, Group, Made, Unswept, SweepVars, workVars
<1>0. /\ chunk \in [Harvests -> SUBSET Chunks] /\ order \in [Harvests -> SUBSET Chunks]
      /\ doomed \in Harvests \cup {NoHarvest}
      /\ "dead" \notin Early \cup Pulling \cup Working
  BY DEF TypeOK, Early, Working, Before, Pulling, Loading
<1>1. CASE SweepBegin
  BY <1>0, <1>1 DEF SweepBegin, diskVars
<1>2. ASSUME NEW g \in Harvests, SweepGroup(g) PROVE Sound(h)'
  BY <1>0, <1>2 DEF SweepGroup
<1>3. CASE SweepDiscard
  <2>1. CASE h = doomed
    <3>1. /\ chunk'[h] = {} /\ h \notin dir' /\ h \notin part' /\ h \notin listed'
          /\ UNCHANGED <<pc, got, want, notice>> /\ doomed' = NoHarvest
          /\ pc[h] # "dead" => h \in swept'
      BY <1>0, <1>3, <2>1 DEF SweepDiscard, Discard
    <3>2. pc[h] \notin Early /\ (h \notin swept' => pc[h] = "dead" /\ h \notin swept)
      BY <1>0, <1>3, <2>1, <3>1 DEF SweepDiscard
    <3>3. h \notin swept' => pc[h] = "dead" /\ h \notin swept /\ chunk[h] = {}
      BY <3>2, <2>1
    <3> QED BY <1>0, <3>1, <3>2, <3>3
  <2>2. CASE h # doomed
    BY <1>0, <1>3, <2>2 DEF SweepDiscard, Discard
  <2> QED BY <2>1, <2>2
<1> QED BY <1>1, <1>2, <1>3 DEF Sweep

LEMMA CrashGroups ==
  ASSUME NEW h \in Harvests, Sound(h), Crash
  PROVE  Sound(h)'
<1>1. /\ (pc'[h] = "none" /\ pc[h] = "none") \/ pc'[h] = "dead"
      /\ got'[h] = {} /\ due' = TRUE /\ sweep' = {} /\ doomed' = NoHarvest
      /\ UNCHANGED <<want, notice, swept, dir, part, chunk, listed, order>>
  BY DEF Crash, diskVars
<1>2. "dead" \notin Early \cup Pulling \cup Working /\ "none" \in Early
      /\ "none" \notin Pulling \cup Working
  BY DEF Early, Working, Before, Pulling, Loading
<1>3. h # NoHarvest
  BY HarvestSets
<1> QED BY <1>1, <1>2, <1>3 DEF Sound, Group, Made, Unswept

LEMMA GroupsStep == TypeOK /\ Groups /\ [Next]_vars => Groups'
<1> SUFFICES ASSUME TypeOK, Groups, [Next]_vars, NEW h \in Harvests PROVE Sound(h)'
  BY DEF Groups
<1>0. Sound(h) /\ pc \in [Harvests -> States]
  BY DEF Groups, TypeOK
<1> USE HarvestSets DEF To, OnlyPc, workVars, diskVars
<1>1. ASSUME NEW g \in Harvests, HarvestStep(g) PROVE Sound(h)'
  BY <1>0, <1>1, OwnGroup, OtherGroups, UntouchedGroup
<1>2. ASSUME NEW p \in Pipelines,
             PrintDone(p) \/ Gate(p) \/ Stage2(p) \/ Stage3(p) \/ EndWorker(p)
      PROVE  Sound(h)'
  <2>1. Untouched(h)
    BY <1>2 DEF PrintDone, Gate, Stage2, Stage3, EndWorker, Gone, Untouched
  <2>2. \/ pc'[h] = pc[h]
        \/ pc[h] \in Before /\ pc'[h] \in Before \cup {"end"}
        \/ pc[h] = "end" /\ pc'[h] = "done"
    BY <1>0, <1>2 DEF PrintDone, Gate, Stage2, Stage3, EndWorker, Gone, Before
  <2> QED BY <1>0, <2>1, <2>2, UntouchedGroup
<1>3. ASSUME NEW m \in Manuals, Fetch(m) \/ Lock(m) \/ Unlock(m) PROVE Sound(h)'
  <2>1. Untouched(h)
    BY <1>3 DEF Fetch, Lock, Unlock, Gone, Untouched
  <2>2. \/ pc'[h] = pc[h]
        \/ pc[h] \in Before /\ pc'[h] \in Before \cup {"end"}
        \/ pc[h] = "end" /\ pc'[h] = "done"
    BY <1>0, <1>3 DEF Fetch, Lock, Unlock, Gone, Before
  <2> QED BY <1>0, <2>1, <2>2, UntouchedGroup
<1>4. CASE \/ PrintStarts \/ PrintEnds \/ Record \/ Started
           \/ (\E n \in snapping : Snapshot(n)) \/ Stop \/ UNCHANGED vars
  <2>1. Untouched(h) /\ pc' = pc
    BY <1>4 DEF PrintStarts, PrintEnds, Record, Started, HandleStart, Snapshot,
                Stop, vars,
         Untouched
  <2> QED BY <1>0, <2>1, UntouchedGroup
<1>5. CASE Sweep
  BY <1>0, <1>5, SweepGroups
<1>6. CASE Crash
  BY <1>0, <1>6, CrashGroups
<1> QED BY <1>1, <1>2, <1>3, <1>4, <1>5, <1>6 DEF Next, PipelineStep, ManualStep

LEMMA GroupsAlways == Spec => []Groups
<1>1. Init => Groups
  BY HarvestSets DEF Init, Groups, Sound, Group, Made, Early, Working, Before,
                     Pulling,
     Loading
<1> QED BY <1>1, GroupsStep, PostPrintTypes, PTL DEF Spec

\* No directory without a chunk and no .part is left by a harvest, or by a crash once
\* the sweep was there.
THEOREM NoPhantoms == Spec => []NoPhantom
<1>1. Groups => NoPhantom
  BY DEF Groups, Sound, Made, NoPhantom
<1> QED BY <1>1, GroupsAlways, PTL

\* A harvest that says "done" has saved every chunk, listed or not, and every one is
\* there unless the sweep took the group.
THEOREM DoneIsWhole == Spec => []DoneMeansWhole
<1>1. Groups => DoneMeansWhole
  BY DEF Groups, Sound, Group, DoneMeansWhole
<1> QED BY <1>1, GroupsAlways, PTL

----------------------------------------------------------------------------
(* The shelf. *)

\* What is shown, without the detour over what is listed.
Mark(h) ==
  IF h \in listed THEN "chunks_ready"
  ELSE IF chunk[h] = {} /\ h \notin part THEN "none" ELSE "incomplete"
Marks == [h \in Harvests |-> Mark(h)]

Seen == ShownState = Marks /\ ShownChunks = chunk

LEMMA SeenNow == TypeOK /\ Groups => Seen
<1> SUFFICES ASSUME TypeOK, Groups PROVE Seen
  OBVIOUS
<1>1. ASSUME NEW h \in Harvests
      PROVE  /\ GroupState(h) = Mark(h)
             /\ (IF GroupState(h) = "none" THEN {} ELSE Resolved(h)) = chunk[h]
  <2>1. Made(h)
    BY DEF Groups, Sound
  <2>2. /\ h \in part => h \in dir
        /\ h \in listed => h \in dir
        /\ Resolved(h) = chunk[h]
    BY <2>1 DEF Made, Resolved
  <2> QED BY <2>1, <2>2 DEF GroupState, Mark, Made
<1>2. chunk = [h \in Harvests |-> chunk[h]]
  BY DEF TypeOK
<1> QED BY <1>1, <1>2 DEF Seen, ShownState, ShownChunks, Marks

LEMMA SeenAlways == Spec => []Seen
BY SeenNow, GroupsAlways, PostPrintTypes, PTL

\* Shelf, of what is on the disk.
Plain == INSTANCE Shelf
           WITH Groups <- Harvests, NoGroup <- NoHarvest, state <- Marks, chunks <- chunk

\* Steps that leave the marks, the chunks and the sweep's verdict alone.
Idle == Marks' = Marks /\ chunk' = chunk /\ doomed' = doomed

LEMMA PlainAttempt ==
  ASSUME TypeOK, TypeOK', NEW g \in Harvests, Sound(g), AttemptStep(g)
  PROVE  Idle \/ Plain!Next
<1>0. /\ chunk \in [Harvests -> SUBSET Chunks] /\ chunk' \in [Harvests -> SUBSET Chunks]
      /\ pc[g] \in {"attempt"} \cup Loading
  BY AttemptTypes DEF TypeOK
<1>1. UNCHANGED <<listed, doomed>>
  BY AttemptTypes DEF AttemptVars, sweepVars
<1>2. g \notin listed
  BY <1>0 DEF Sound, Made, Pulling
<1>3. CASE Save(g)
  <2>1. chunk' = [chunk EXCEPT ![g] = @ \cup {at[g]}] /\ part' = part \ {g}
    BY <1>3 DEF Save
  <2>2. Marks[g] \in {"none", "incomplete"}
    BY <1>2 DEF Marks, Mark
  <2>3. chunk'[g] # {} /\ \A h \in Harvests \ {g} : chunk'[h] = chunk[h]
    BY <1>0, <2>1
  <2>4. Marks' = [Marks EXCEPT ![g] = "incomplete"]
    BY <1>1, <1>2, <2>1, <2>3 DEF Marks, Mark
  <2>5. chunk'[g] \in SUBSET Chunks /\ chunk[g] \cup chunk'[g] = chunk'[g]
    BY <1>0, <2>1
  <2>6. chunk' = [chunk EXCEPT ![g] = @ \cup chunk'[g]]
    BY <1>0, <2>1, <2>5
  <2>7. Plain!Gain(g)
    BY <1>1, <2>2, <2>4, <2>5, <2>6 DEF Plain!Gain
  <2> QED BY <2>7 DEF Plain!Next
<1>4. CASE ~Save(g)
  <2>1. chunk' = chunk /\ part' \in {part, part \ {g}, part \cup {g}}
    BY <1>4, AttemptTypes, AttemptSaves
  <2>2. CASE part' = part
    BY <1>1, <2>1, <2>2 DEF Idle, Marks, Mark
  <2>3. CASE part' = part \cup {g}
    <3>1. Marks[g] \in {"none", "incomplete"}
      BY <1>2 DEF Marks, Mark
    <3>2. Marks' = [Marks EXCEPT ![g] = "incomplete"]
      BY <1>1, <1>2, <2>1, <2>3 DEF Marks, Mark
    <3>3. chunk' = [chunk EXCEPT ![g] = @ \cup {}]
      BY <1>0, <2>1
    <3>4. {} \in SUBSET Chunks
      OBVIOUS
    <3>5. Plain!Gain(g)
      BY <1>1, <3>1, <3>2, <3>3, <3>4 DEF Plain!Gain
    <3> QED BY <3>5 DEF Plain!Next
  <2>4. CASE part' = part \ {g} /\ chunk[g] = {}
    <3>1. Marks[g] \in {"none", "incomplete"}
      BY <1>2 DEF Marks, Mark
    <3>2. Marks' = [Marks EXCEPT ![g] = "none"]
      BY <1>1, <1>2, <2>1, <2>4 DEF Marks, Mark
    <3>3. Plain!Withdraw(g)
      BY <1>1, <2>1, <2>4, <3>1, <3>2 DEF Plain!Withdraw, Plain!Empty
    <3> QED BY <3>3 DEF Plain!Next
  <2>5. CASE part' = part \ {g} /\ chunk[g] # {}
    BY <1>1, <2>1, <2>5 DEF Idle, Marks, Mark
  <2> QED BY <2>1, <2>2, <2>3, <2>4, <2>5
<1> QED BY <1>3, <1>4

LEMMA PlainHarvest ==
  ASSUME TypeOK, TypeOK', Groups, NEW g \in Harvests, HarvestStep(g)
  PROVE  Idle \/ Plain!Next
<1>0. Sound(g)
  BY DEF Groups
<1>1. chunk \in [Harvests -> SUBSET Chunks]
  BY DEF TypeOK
<1>2. CASE AttemptStep(g)
  BY <1>0, <1>2, PlainAttempt
<1>3. CASE Enter(g) \/ Diff(g) \/ Pull(g) \/ Report(g) \/ Release(g) \/ Lower(g)
  <2>1. UNCHANGED <<chunk, listed, part, doomed>>
    BY <1>3 DEF Enter, Diff, Pull, Report, Release, Over, Lower, Lowered, diskVars,
         sweepVars
  <2> QED BY <2>1 DEF Idle, Marks, Mark
<1>4. CASE Prepare(g)
  <2>1. g \notin part
    BY <1>0, <1>4 DEF Sound, Group, Made, Prepare, Early
  <2>2. UNCHANGED <<chunk, listed, part, doomed>>
    BY <1>4, <2>1 DEF Prepare, sweepVars
  <2> QED BY <2>2 DEF Idle, Marks, Mark
<1>5. CASE NoSpace(g) \/ DiscardEmpty(g)
  <2>1. g \notin part /\ g \notin listed /\ chunk[g] = {}
    BY <1>0, <1>5 DEF Sound, Group, Made, Unswept, NoSpace, DiscardEmpty, Early,
                      Working,
         Pulling
  <2>2. /\ chunk' = [chunk EXCEPT ![g] = {}] /\ part' = part \ {g}
        /\ listed' = listed \ {g} /\ doomed' = doomed
    BY <1>5 DEF NoSpace, DiscardEmpty, Discard, sweepVars
  <2>3. UNCHANGED <<chunk, listed, part, doomed>>
    BY <1>1, <2>1, <2>2
  <2> QED BY <2>3 DEF Idle, Marks, Mark
<1>6. CASE WriteOrder(g)
  <2>1. UNCHANGED <<chunk, part, doomed>> /\ (listed' = listed \/ g \in dir)
        /\ (listed' = listed \/ listed' = listed \cup {g})
    BY <1>6 DEF WriteOrder, sweepVars
  <2>2. CASE listed' = listed
    BY <2>1, <2>2 DEF Idle, Marks, Mark
  <2>3. CASE g \in dir /\ listed' = listed \cup {g}
    <3>1. g \notin listed /\ chunk[g] # {}
      BY <1>0, <1>6, <2>3 DEF Sound, Group, Made, WriteOrder, Pulling, Working
    <3>2. Marks[g] = "incomplete"
      BY <3>1 DEF Marks, Mark
    <3>3. Marks' = [Marks EXCEPT ![g] = "chunks_ready"]
      BY <2>1, <2>3 DEF Marks, Mark
    <3>4. Plain!Offer(g)
      BY <2>1, <3>1, <3>2, <3>3 DEF Plain!Offer
    <3> QED BY <3>4 DEF Plain!Next
  <2> QED BY <2>1, <2>2, <2>3
<1> QED BY <1>2, <1>3, <1>4, <1>5, <1>6 DEF HarvestStep, AttemptStep

LEMMA PlainSweep ==
  ASSUME TypeOK, Groups, Sweep
  PROVE  Idle \/ Plain!Next
<1>0. chunk \in [Harvests -> SUBSET Chunks] /\ doomed \in Harvests \cup {NoHarvest}
  BY DEF TypeOK
<1>1. CASE SweepBegin
  BY <1>1 DEF SweepBegin, diskVars, Idle, Marks, Mark
<1>2. ASSUME NEW h \in Harvests, SweepGroup(h) PROVE Idle \/ Plain!Next
  <2>1. UNCHANGED <<chunk, listed>> /\ part' = part \ {h} /\ doomed = NoHarvest
        /\ doomed' = (IF chunk[h] = {} THEN h ELSE NoHarvest)
    BY <1>2 DEF SweepGroup
  <2>2. CASE chunk[h] = {}
    <3>1. h \notin listed
      BY <2>2 DEF Groups, Sound, Made
    <3>2. Marks[h] \in {"none", "incomplete"}
      BY <3>1 DEF Marks, Mark
    <3>3. Marks' = [Marks EXCEPT ![h] = "none"]
      BY <2>1, <2>2, <3>1 DEF Marks, Mark
    <3>4. Plain!Condemn(h)
      BY <2>1, <2>2, <3>2, <3>3 DEF Plain!Condemn, Plain!Empty
    <3> QED BY <3>4 DEF Plain!Next
  <2>3. CASE chunk[h] # {}
    BY <2>1, <2>3 DEF Idle, Marks, Mark
  <2> QED BY <2>2, <2>3
<1>3. CASE SweepDiscard
  <2>1. /\ doomed \in Harvests /\ chunk' = [chunk EXCEPT ![doomed] = {}]
        /\ listed' = listed \ {doomed} /\ part' = part \ {doomed} /\ doomed' = NoHarvest
    BY <1>0, <1>3 DEF SweepDiscard, Discard
  <2>2. chunk'[doomed] = {} /\ \A h \in Harvests \ {doomed} : chunk'[h] = chunk[h]
    BY <1>0, <2>1
  <2>3. Marks' = [Marks EXCEPT ![doomed] = "none"]
    BY <2>1, <2>2 DEF Marks, Mark
  <2>4. Plain!Discard(doomed)
    BY <2>1, <2>3 DEF Plain!Discard
  <2> QED BY <2>1, <2>4 DEF Plain!Next
<1> QED BY <1>1, <1>2, <1>3 DEF Sweep

LEMMA PlainStep ==
  TypeOK /\ TypeOK' /\ Groups /\ [Next]_vars => Idle \/ Plain!Next
<1> SUFFICES ASSUME TypeOK, TypeOK', Groups, [Next]_vars PROVE Idle \/ Plain!Next
  OBVIOUS
<1> USE DEF OnlyPc, diskVars, sweepVars
<1>1. ASSUME NEW g \in Harvests, HarvestStep(g) PROVE Idle \/ Plain!Next
  BY <1>1, PlainHarvest
<1>2. ASSUME NEW p \in Pipelines,
             PrintDone(p) \/ Gate(p) \/ Stage2(p) \/ Stage3(p) \/ EndWorker(p)
      PROVE  Idle
  <2>1. UNCHANGED <<chunk, listed, part, doomed>>
    BY <1>2 DEF PrintDone, Gate, Stage2, Stage3, EndWorker, Gone
  <2> QED BY <2>1 DEF Idle, Marks, Mark
<1>3. ASSUME NEW m \in Manuals, Fetch(m) \/ Lock(m) \/ Unlock(m) PROVE Idle
  <2>1. UNCHANGED <<chunk, listed, part, doomed>>
    BY <1>3 DEF Fetch, Lock, Unlock, Gone
  <2> QED BY <2>1 DEF Idle, Marks, Mark
<1>4. CASE \/ PrintStarts \/ PrintEnds \/ Record \/ Started
           \/ (\E n \in snapping : Snapshot(n)) \/ Stop \/ UNCHANGED vars
  <2>1. UNCHANGED <<chunk, listed, part, doomed>>
    BY <1>4 DEF PrintStarts, PrintEnds, Record, Started, HandleStart, Snapshot,
                Stop, vars
  <2> QED BY <2>1 DEF Idle, Marks, Mark
<1>5. CASE Sweep
  BY <1>5, PlainSweep
<1>6. CASE Crash
  <2>1. UNCHANGED <<chunk, listed, part>> /\ doomed' = NoHarvest
    BY <1>6 DEF Crash
  <2>2. Plain!Reprieve
    BY <2>1 DEF Plain!Reprieve, Marks, Mark
  <2> QED BY <2>2 DEF Plain!Next
<1> QED
  BY <1>1, <1>2, <1>3, <1>4, <1>5, <1>6, HarvestSets
     DEF Next, PipelineStep, ManualStep

\* The harvests implement Shelf: what was saved stays, and what is ready is left alone,
\* but for a group the sweep of a restart found empty.
THEOREM HarvestsKeepShelf == Spec => ShelfKept
<1>1. Init /\ Seen => Shown!Init
  BY DEF Init, Seen, Marks, Mark, Shown!Init
<1>2. Seen /\ Seen' /\ (Idle \/ Plain!Next) =>
        [Shown!Next]_<<ShownState, ShownChunks, doomed>>
  <2> SUFFICES ASSUME Seen, Seen', Idle \/ Plain!Next
               PROVE  [Shown!Next]_<<ShownState, ShownChunks, doomed>>
    OBVIOUS
  <2>1. /\ ShownState = Marks /\ ShownChunks = chunk
        /\ ShownState' = Marks' /\ ShownChunks' = chunk'
    BY DEF Seen
  <2>2. CASE Idle
    BY <2>1, <2>2 DEF Idle
  <2>3. CASE Plain!Next
    BY <2>1, <2>3 DEF Plain!Next, Plain!Gain, Plain!Offer, Plain!Withdraw,
                      Plain!Condemn,
         Plain!Empty, Plain!Discard, Plain!Reprieve, Shown!Next, Shown!Gain, Shown!Offer,
         Shown!Withdraw, Shown!Condemn, Shown!Empty, Shown!Discard, Shown!Reprieve
  <2> QED BY <2>2, <2>3
<1> QED
  BY <1>1, <1>2, PlainStep, SeenAlways, GroupsAlways, PostPrintTypes, PTL
     DEF Spec, ShelfKept, Shown!Spec

----------------------------------------------------------------------------
(* Stop. *)

\* A chunk that only waits for its name may still get it.
Halted(h) ==
  h \in cancelled => chunk[h] \subseteq kept[h] /\ (pc[h] = "save" => at[h] \in kept[h])
Halts == \A h \in Harvests : Halted(h)

LEMMA CancelHalts ==
  ASSUME TypeOK, Halts, NEW hs \in SUBSET Harvests, Cancel(hs), NEW h \in Harvests,
         UNCHANGED <<chunk, at>>, pc'[h] = pc[h] \/ pc'[h] # "save"
  PROVE  Halted(h)'
<1>1. /\ cancelled' = cancelled \cup hs
      /\ kept'[h] = IF h \notin hs \ cancelled THEN kept[h]
                    ELSE chunk[h] \cup (IF pc[h] = "save" THEN {at[h]} ELSE {})
  BY DEF Cancel
<1>2. Halted(h)
  BY DEF Halts
<1> QED BY <1>1, <1>2 DEF Halted

\* Steps that set no event and save nothing.
LEMMA OtherHalts ==
  ASSUME NEW h \in Harvests, Halted(h), kept'[h] = kept[h],
         (h \in cancelled') => (h \in cancelled), chunk'[h] \subseteq chunk[h],
         (pc'[h] = pc[h] /\ at'[h] = at[h]) \/ pc'[h] # "save"
  PROVE  Halted(h)'
BY DEF Halted

LEMMA HaltsStep == TypeOK /\ Halts /\ [Next]_vars => Halts'
<1> SUFFICES ASSUME TypeOK, Halts, [Next]_vars, NEW h \in Harvests PROVE Halted(h)'
  BY DEF Halts
<1>0. /\ Halted(h) /\ pc \in [Harvests -> States] /\ chunk \in [Harvests -> SUBSET Chunks]
      /\ at \in [Harvests -> 0..MaxChunks] /\ kept \in [Harvests -> SUBSET Chunks]
  BY DEF Halts, TypeOK
<1> USE HarvestSets DEF OnlyPc, diskVars, cancelVars, eventVars, To
<1>1. ASSUME NEW g \in Harvests, HarvestStep(g) PROVE Halted(h)'
  <2>1. UNCHANGED <<cancelled, kept>> /\ (g # h => pc'[h] = pc[h])
    BY <1>1, HarvestSteps
  <2>2. CASE AttemptStep(g)
    <3>1. at' = at
      BY <2>2, AttemptTypes DEF AttemptVars
    <3>2. CASE g # h
      <4>1. chunk'[h] = chunk[h]
        BY <1>0, <2>2, <3>2, AttemptSaves
      <4> QED BY <1>0, <2>1, <3>1, <3>2, <4>1, OtherHalts
    <3>3. CASE g = h /\ Save(g)
      BY <1>0, <2>1, <3>1, <3>3 DEF Save, Leave, Halted
    <3>4. CASE g = h /\ LastBlock(g)
      BY <1>0, <2>1, <3>4 DEF LastBlock, Halted
    <3>5. CASE g = h /\ (Attempt(g) \/ Connect(g) \/ Lose(g))
      <4>1. pc'[h] # "save"
        BY <1>0, <3>5 DEF Attempt, Connect, Lose, Leave, Failed
      <4>2. chunk' = chunk
        BY <3>5 DEF Attempt, Connect, Lose
      <4> QED BY <1>0, <2>1, <4>1, <4>2, OtherHalts
    <3> QED BY <2>2, <3>2, <3>3, <3>4, <3>5 DEF AttemptStep
  <2>3. CASE ~AttemptStep(g)
    <3>1. chunk'[h] \subseteq chunk[h]
      BY <1>0, <1>1, <2>3 DEF HarvestStep, AttemptStep, Enter, Diff, Prepare,
                              NoSpace,
           Discard, Pull, DiscardEmpty, WriteOrder, Report, Release, Over, Lower, Lowered
    <3>2. g = h => pc'[h] # "save"
      BY <1>0, <1>1, <2>3 DEF HarvestStep, AttemptStep, Enter, Diff, Prepare,
                              NoSpace,
           Pull, DiscardEmpty, WriteOrder, Report, Release, Over, Lower, Lowered
    <3>3. g # h => at'[h] = at[h]
      BY <1>0, <1>1, <2>3 DEF HarvestStep, AttemptStep, Enter, Diff, Prepare,
                              NoSpace,
           Pull, DiscardEmpty, WriteOrder, Report, Release, Over, Lower, Lowered
    <3> QED BY <1>0, <2>1, <3>1, <3>2, <3>3, OtherHalts
  <2> QED BY <2>2, <2>3
<1>2. ASSUME NEW q \in Pipelines, PrintDone(q) PROVE Halted(h)'
  <2>1. Cancel(Armed) /\ UNCHANGED <<chunk, at>> /\ Armed \in SUBSET Harvests
    BY <1>2 DEF PrintDone, Armed, TypeOK
  <2>2. pc'[h] = pc[h] \/ pc'[h] # "save"
    BY <1>0, <1>2 DEF PrintDone
  <2> QED BY <2>1, <2>2, CancelHalts
<1>3. ASSUME NEW q \in Pipelines, Gate(q) \/ Stage2(q) \/ Stage3(q) PROVE Halted(h)'
  <2>1. UNCHANGED <<cancelled, kept, chunk,
                    at>> /\ (pc'[h] = pc[h] \/ pc'[h] # "save")
    BY <1>0, <1>3 DEF Gate, Stage2, Stage3
  <2> QED BY <1>0, <2>1, OtherHalts
<1>4. ASSUME NEW m \in Manuals, Fetch(m) \/ Lock(m) PROVE Halted(h)'
  <2>1. UNCHANGED <<cancelled, kept, chunk,
                    at>> /\ (pc'[h] = pc[h] \/ pc'[h] # "save")
    BY <1>0, <1>4 DEF Fetch, Lock
  <2> QED BY <1>0, <2>1, OtherHalts
<1>5. ASSUME NEW g \in Harvests, Gone(g) PROVE Halted(h)'
  <2>1. /\ cancelled' = cancelled \ {g} /\ kept' = [kept EXCEPT ![g] = {}]
        /\ pc' = [pc EXCEPT ![g] = "done"] /\ UNCHANGED <<chunk, at>>
    BY <1>5 DEF Gone
  <2>2. CASE g = h
    BY <2>1, <2>2 DEF Halted
  <2>3. CASE g # h
    BY <1>0, <2>1, <2>3, OtherHalts
  <2> QED BY <2>2, <2>3
<1>6. CASE Started
  <2>1. Cancel(Armed) /\ UNCHANGED <<pc, chunk, at>> /\ Armed \in SUBSET Harvests
    BY <1>6, QuietSteps DEF Started, HandleStart, Armed, TypeOK
  <2> QED BY <2>1, CancelHalts
<1>7. CASE Stop
  <2>1. Cancel({running}) /\ UNCHANGED <<pc, chunk,
                                         at>> /\ {running} \in SUBSET Harvests
    BY <1>7, QuietSteps DEF Stop, TypeOK
  <2> QED BY <2>1, CancelHalts
<1>8. CASE \/ PrintStarts \/ PrintEnds \/ Record \/ (\E n \in snapping : Snapshot(n))
           \/ UNCHANGED vars
  <2>1. UNCHANGED <<pc, at, cancelled, kept, chunk>>
    BY <1>8, QuietSteps DEF PrintStarts, PrintEnds, Record, Snapshot, vars
  <2> QED BY <1>0, <2>1, OtherHalts
<1>9. CASE Sweep
  <2>1. UNCHANGED <<pc, at, cancelled, kept>>
    BY <1>9, QuietSteps DEF Sweep, SweepBegin, SweepGroup, SweepDiscard, SweepVars
  <2>2. chunk'[h] \subseteq chunk[h]
    BY <1>0, <1>9 DEF Sweep, SweepBegin, SweepGroup, SweepDiscard, Discard
  <2> QED BY <1>0, <2>1, <2>2, OtherHalts
<1>10. CASE Crash
  BY <1>10 DEF Crash, Halted
<1> QED BY <1>1, <1>2, <1>3, <1>4, <1>5, <1>6, <1>7, <1>8, <1>9, <1>10
        DEF Next, PipelineStep, ManualStep, EndWorker, Unlock

\* Once its cancel event is set, a harvest saves no chunk but the one whose last block
\* was in.
THEOREM StopStops == Spec => []NothingAfterStop
<1>1. Init => Halts
  BY DEF Init, Halts, Halted
<1>2. TypeOK /\ Halts => NothingAfterStop
  BY DEF TypeOK, Halts, Halted, NothingAfterStop
<1> QED BY <1>1, <1>2, HaltsStep, PostPrintTypes, PTL DEF Spec
=============================================================================
