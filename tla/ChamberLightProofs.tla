------------------------ MODULE ChamberLightProofs ------------------------
(* What holds of ChamberLight for every number of switches, clicks and        *)
(* rounds: one command at a time, one switch pending, and a click during a    *)
(* print that is not undone at its end.                                       *)
EXTENDS ChamberLight, TLAPS

----------------------------------------------------------------------------
(* Types. *)

LEMMA DriverSets ==
  /\ Switches \subseteq Drivers /\ Clickers \subseteq Drivers
  /\ \A w \in Switches : w \notin Clickers /\ w # NoSwitch
BY LightAssumption DEF Drivers, Switches, NoSwitch

LEMMA InitTypes == Init => TypeOK
<1> SUFFICES ASSUME Init PROVE TypeOK
  OBVIOUS
<1>1. queue \in Seq(Events)
  BY DEF Init
<1>2. printing \in BOOLEAN /\ overridden \in BOOLEAN /\ busy \in BOOLEAN
      /\ connected \in BOOLEAN
  BY DEF Init
<1>3. prints \in 0..MaxPrints /\ clicks \in 0..MaxClicks /\ outside \in 0..MaxOutside
  BY LightAssumption DEF Init
<1>4. tries \in [Switches -> 0..MaxTries]
  BY LightAssumption DEF Init
<1> QED BY <1>1, <1>2, <1>3, <1>4 DEF Init, TypeOK, States, Transports, Seen

LEMMA Joined ==
  ASSUME NEW S, NEW s \in Seq(S), NEW r \in Seq(S)
  PROVE  s \o r \in Seq(S)
OBVIOUS

LEMMA PrinterTypes ==
  ASSUME TypeOK,
         PrintStarts \/ PrintEnds \/ Touch \/ ConnectorChanges
         \/ MonitorStart \/ MonitorConnect \/ StopLedMonitor \/ HandleReport
  PROVE  TypeOK'
<1> USE DEF TypeOK, printVars, armVars, driveVars, seenVars, Seen
<1>1. CASE PrintStarts
  <2>1. queue' \in Seq(Events)
    <3>1. PICK es \in {<<"started">>, <<"started", "again">>} : queue' = queue \o es
      BY <1>1 DEF PrintStarts
    <3>2. <<"started">> \in Seq(Events) /\ <<"started", "again">> \in Seq(Events)
      BY DEF Events, Starts
    <3>3. queue \in Seq(Events)
      OBVIOUS
    <3> QED BY ONLY <3>1, <3>2, <3>3, Joined
  <2>2. prints' \in 0..MaxPrints
    BY <1>1, LightAssumption DEF PrintStarts
  <2> QED BY <1>1, <2>1, <2>2 DEF PrintStarts
<1>2. CASE PrintEnds
  <2>1. queue' \in Seq(Events)
    <3>1. PICK es \in {<<"ended">>, <<"ended", "ended">>} : queue' = queue \o es
      BY <1>2 DEF PrintEnds
    <3>2. <<"ended">> \in Seq(Events) /\ <<"ended", "ended">> \in Seq(Events)
      BY DEF Events
    <3>3. queue \in Seq(Events)
      OBVIOUS
    <3> QED BY ONLY <3>1, <3>2, <3>3, Joined
  <2>2. UNCHANGED <<chosen, prints, armVars, driveVars, seenVars, light, clicks>>
        /\ printing' = FALSE
    BY <1>2 DEF PrintEnds
  <2> USE <2>2
  <2>3. pc' \in [Drivers -> States] /\ want' \in [Drivers -> {"on", "off"}]
        /\ via' \in [Drivers -> Transports] /\ tries' \in [Switches -> 0..MaxTries]
    OBVIOUS
  <2>4. printing' \in BOOLEAN /\ chosen' \in {"no", "doubled", "settled"}
        /\ handler' \in {"idle", "arm_on", "arm_off"} /\ overridden' \in BOOLEAN
        /\ pending' \in Switches \cup {NoSwitch} /\ cancelled' \subseteq Switches
    OBVIOUS
  <2>5. busy' \in BOOLEAN /\ light' \in {"on", "off"} /\ connected' \in BOOLEAN
        /\ monitor' \in {"down", "connecting", "up"} /\ ledState' \in Seen
    OBVIOUS
  <2>6. prints' \in 0..MaxPrints /\ clicks' \in 0..MaxClicks
        /\ outside' \in 0..MaxOutside
    OBVIOUS
  <2> HIDE <1>2, <2>2
  <2> QED BY <2>1, <2>3, <2>4, <2>5, <2>6
<1>3. CASE Touch
  BY <1>3, LightAssumption DEF Touch
<1>4. CASE ConnectorChanges
  <2>1. connected' \in BOOLEAN
    BY <1>4 DEF ConnectorChanges
  <2> QED BY <1>4, <2>1, LightAssumption DEF ConnectorChanges
<1>5. CASE MonitorStart
  BY <1>5, LightAssumption DEF MonitorStart
<1>6. CASE MonitorConnect
  BY <1>6 DEF MonitorConnect
<1>7. CASE StopLedMonitor
  BY <1>7 DEF StopLedMonitor
<1>8. CASE HandleReport
  BY <1>8 DEF HandleReport
<1> QED BY <1>1, <1>2, <1>3, <1>4, <1>5, <1>6, <1>7, <1>8

LEMMA StartedTypes ==
  ASSUME TypeOK, Started \/ Ended
  PROVE  TypeOK'
<1> USE DEF TypeOK, printVars, armVars, driveVars, seenVars, To, States
<1>1. CASE Started
  <2>1. queue' \in Seq(Events)
    BY <1>1 DEF Started
  <2> QED BY <1>1, <2>1 DEF Started
<1>2. CASE Ended
  <2>1. queue' \in Seq(Events)
    BY <1>2 DEF Ended
  <2> QED BY <1>2, <2>1 DEF Ended
<1> QED BY <1>1, <1>2

LEMMA ArmTypes ==
  ASSUME TypeOK, NEW w \in Switches, Schedule(w)
  PROVE  TypeOK'
<1> USE DEF TypeOK, printVars, armVars, driveVars, seenVars, To, States
<1>1. cancelled' \subseteq Switches
  BY DEF Schedule, Supersede
<1> QED BY <1>1, DriverSets DEF Schedule, NewSwitch

\* A worker that may still wait has a round left.
TriesLeft ==
  \A w \in Switches :
    pc[w] \in {"none", "delay", "claim", "wait"} => tries[w] < MaxTries

LEMMA WorkerTypes ==
  ASSUME TypeOK, TriesLeft, NEW w \in Switches,
         Delay(w) \/ ClaimLed(w) \/ WaitLed(w) \/ CheckWanted(w) \/ EndWorker(w)
  PROVE  TypeOK'
<1> USE DriverSets DEF TypeOK, printVars, armVars, driveVars, seenVars, To, States
<1>1. CASE Delay(w)
  BY <1>1 DEF Delay
<1>2. CASE ClaimLed(w)
  <2>1. busy' \in BOOLEAN
    BY <1>2 DEF ClaimLed
  <2>2. pc' \in [Drivers -> States]
    BY <1>2 DEF ClaimLed
  <2> QED BY <1>2, <2>1, <2>2 DEF ClaimLed
<1>3. CASE WaitLed(w)
  <2>1. tries[w] \in 0..MaxTries /\ tries[w] < MaxTries
    BY <1>3 DEF WaitLed, TriesLeft
  <2>2. tries[w] + 1 \in 0..MaxTries
    BY <2>1, LightAssumption
  <2>3. tries' \in [Switches -> 0..MaxTries]
    BY <1>3, <2>2 DEF WaitLed
  <2>4. pc' \in [Drivers -> States]
    BY <1>3 DEF WaitLed
  <2> QED BY <1>3, <2>3, <2>4 DEF WaitLed
<1>4. CASE CheckWanted(w)
  BY <1>4 DEF CheckWanted
<1>5. CASE EndWorker(w)
  BY <1>5, LightAssumption DEF EndWorker, Gone, NoSwitch
<1> QED BY <1>1, <1>2, <1>3, <1>4, <1>5

LEMMA DriveTypes ==
  ASSUME TypeOK, NEW d \in Drivers, Apply(d) \/ Send(d) \/ ReleaseLed(d)
  PROVE  TypeOK'
<1> USE DriverSets DEF TypeOK, printVars, armVars, driveVars, seenVars, To, States,
                       Transports
<1>1. CASE Apply(d)
  BY <1>1 DEF Apply
<1>2. CASE Send(d)
  <2>1. light' \in {"on", "off"}
    BY <1>2 DEF Send, Sent
  <2> QED BY <1>2, <2>1 DEF Send, Sent
<1>3. CASE ReleaseLed(d)
  <2>1. pc' \in [Drivers -> States]
    BY <1>3 DEF ReleaseLed
  <2>2. want' \in [Drivers -> {"on", "off"}] /\ via' \in [Drivers -> Transports]
    BY <1>3 DEF ReleaseLed
  <2>3. UNCHANGED <<tries, printVars, armVars, seenVars, light, clicks>>
        /\ busy' = FALSE
    BY <1>3 DEF ReleaseLed
  <2> QED BY <2>1, <2>2, <2>3
<1> QED BY <1>1, <1>2, <1>3

LEMMA ClickTypes ==
  ASSUME TypeOK, NEW c \in Clickers,
         Click(c) \/ Note(c) \/ Override(c) \/ CancelAutoLed(c)
  PROVE  TypeOK'
<1> USE DriverSets DEF TypeOK, printVars, armVars, driveVars, seenVars, To, States
<1>1. CASE Click(c)
  <2>1. PICK s \in {"on", "off"} : want' = [want EXCEPT ![c] = s]
    BY <1>1 DEF Click
  <2>2. clicks' \in 0..MaxClicks
    BY <1>1, LightAssumption DEF Click
  <2> QED BY <1>1, <2>1, <2>2 DEF Click
<1>2. CASE Note(c)
  BY <1>2 DEF Note
<1>3. CASE Override(c)
  <2>1. chosen' \in {"no", "doubled", "settled"}
    BY <1>3 DEF Override
  <2> QED BY <1>3, <2>1 DEF Override
<1>4. CASE CancelAutoLed(c)
  <2>1. cancelled' \subseteq Switches
    BY <1>4 DEF CancelAutoLed, Supersede
  <2> QED BY <1>4, <2>1 DEF CancelAutoLed
<1> QED BY <1>1, <1>2, <1>3, <1>4

LEMMA TriesStep ==
  ASSUME TypeOK, TriesLeft, Next
  PROVE  TriesLeft'
<1> USE DriverSets, LightAssumption
    DEF TypeOK, TriesLeft, printVars, armVars, driveVars, seenVars, To
<1>1. CASE UNCHANGED <<pc, tries>>
  BY <1>1
<1>2. CASE PrintStarts \/ PrintEnds \/ Touch \/ ConnectorChanges \/ Started \/ Ended
           \/ MonitorStart \/ MonitorConnect \/ StopLedMonitor \/ HandleReport
  BY <1>1, <1>2 DEF PrintStarts, PrintEnds, Touch, ConnectorChanges, Started, Ended,
     MonitorStart, MonitorConnect, StopLedMonitor, HandleReport
<1>3. ASSUME NEW w \in Switches, Schedule(w) PROVE TriesLeft'
  BY <1>3 DEF Schedule, NewSwitch
<1>4. ASSUME NEW w \in Switches, Worker(w) PROVE TriesLeft'
  <2>1. CASE Delay(w)
    BY <2>1 DEF Delay
  <2>2. CASE ClaimLed(w)
    BY <2>2 DEF ClaimLed
  <2>3. CASE WaitLed(w)
    <3>1. tries[w] \in Nat /\ tries[w] < MaxTries
      BY <2>3 DEF WaitLed
    <3>2. tries'[w] = tries[w] + 1
      BY <2>3 DEF WaitLed
    <3>3. pc'[w] \in {"end", "claim"} /\ (tries'[w] = MaxTries => pc'[w] = "end")
      BY <2>3 DEF WaitLed
    <3>4. \A v \in Switches \ {w} : pc'[v] = pc[v] /\ tries'[v] = tries[v]
      BY <2>3 DEF WaitLed
    <3> QED BY <3>1, <3>2, <3>3, <3>4
  <2>4. CASE CheckWanted(w)
    BY <2>4 DEF CheckWanted
  <2>5. CASE EndWorker(w)
    BY <2>5 DEF EndWorker, Gone
  <2>6. CASE Apply(w)
    BY <2>6 DEF Apply
  <2>7. CASE Send(w)
    BY <2>7 DEF Send, Sent
  <2>8. CASE ReleaseLed(w)
    BY <2>8 DEF ReleaseLed
  <2> QED BY <1>4, <2>1, <2>2, <2>3, <2>4, <2>5, <2>6, <2>7, <2>8 DEF Worker
<1>5. ASSUME NEW c \in Clickers, Click(c) \/ ClickStep(c) PROVE TriesLeft'
  <2>1. \A w \in Switches : pc'[w] = pc[w]
    BY <1>5 DEF Click, ClickStep, Note, Override, CancelAutoLed, Apply, Send, Sent,
                ReleaseLed
  <2>2. tries' = tries
    BY <1>5 DEF Click, ClickStep, Note, Override, CancelAutoLed, Apply, Send, Sent,
                ReleaseLed
  <2> QED BY <2>1, <2>2
<1> QED BY <1>2, <1>3, <1>4, <1>5 DEF Next

LightTypes == TypeOK /\ TriesLeft

LEMMA TypesInit == Init => LightTypes
BY InitTypes, LightAssumption DEF LightTypes, TriesLeft, Init

LEMMA TypesStep == LightTypes /\ [Next]_vars => LightTypes'
<1> SUFFICES ASSUME LightTypes, [Next]_vars PROVE LightTypes'
  OBVIOUS
<1> USE DEF LightTypes
<1>1. CASE UNCHANGED vars
  BY <1>1 DEF TypeOK, TriesLeft, vars, printVars, armVars, driveVars, seenVars
<1>2. CASE Next
  <2>1. TriesLeft'
    BY <1>2, TriesStep
  <2>2. ASSUME NEW w \in Switches, Schedule(w) \/ Worker(w) PROVE TypeOK'
    BY <2>2, ArmTypes, WorkerTypes, DriveTypes, DriverSets DEF Worker
  <2>3. ASSUME NEW c \in Clickers, Click(c) \/ ClickStep(c) PROVE TypeOK'
    BY <2>3, ClickTypes, DriveTypes, DriverSets DEF ClickStep
  <2>4. TypeOK'
    BY <1>2, <2>2, <2>3, StartedTypes, PrinterTypes DEF Next
  <2> QED BY <2>1, <2>4
<1> QED BY <1>1, <1>2

\* Every variable keeps its type, and no worker waits more rounds than it has.
THEOREM LightTypeCorrect == Spec => []TypeOK
<1>1. LightTypes => TypeOK
  BY DEF LightTypes
<1> QED BY <1>1, TypesInit, TypesStep, PTL DEF Spec

----------------------------------------------------------------------------
(* Safety. *)

\* The code's own flag keeps switches off from driving the light ...
OffRespects == overridden => ~DrivesOff

\* ... and it stays up after a click that has no report of a start before it.
Settled ==
  chosen = "settled" => overridden /\ \A i \in DOMAIN queue : queue[i] \notin Starts

SafeLight == OneCommand /\ OneSwitchPending /\ OffRespects /\ Settled

LEMMA SafeInit == Init => SafeLight
BY DriverSets DEF Init, SafeLight, OneCommand, OneSwitchPending, OffRespects,
                  Settled,
   DrivesOff, Holding

\* Steps that leave the drivers, the flag and what is armed alone.
LEMMA SafeOutside ==
  ASSUME SafeLight, Settled',
         UNCHANGED <<pc, want, busy, pending, cancelled>>,
         overridden' => overridden
  PROVE  SafeLight'
BY DEF SafeLight, OneCommand, OneSwitchPending, OffRespects, DrivesOff

\* A click stays settled as long as no start is added and the flag is up.
LEMMA SettledKept ==
  ASSUME Settled, UNCHANGED <<overridden, chosen, queue>>
  PROVE  Settled'
BY DEF Settled

LEMMA SettledEvents ==
  ASSUME TypeOK, Settled, PrintStarts \/ PrintEnds \/ Started \/ Ended
  PROVE  Settled'
<1>1. queue \in Seq(Events) /\ "ended" \notin Starts
  BY DEF TypeOK, Starts
<1>2. CASE PrintStarts
  BY <1>2 DEF PrintStarts, Settled
<1>3. CASE PrintEnds
  <2>1. PICK es \in {<<"ended">>, <<"ended", "ended">>} : queue' = queue \o es
    BY <1>3 DEF PrintEnds
  <2>2. overridden' = overridden /\ chosen' = chosen
    BY <1>3 DEF PrintEnds, armVars
  <2>3. es \in Seq({"ended"}) /\ \A i \in 1..Len(es) : es[i] = "ended"
    <3>1. CASE es = <<"ended">>
      BY <3>1
    <3>2. CASE es = <<"ended", "ended">>
      BY <3>2
    <3> QED BY <3>1, <3>2
  <2>4. ASSUME NEW i \in DOMAIN queue', chosen = "settled" PROVE queue'[i] \notin Starts
    <3>1. \A k \in DOMAIN queue : queue[k] \notin Starts
      BY <2>4 DEF Settled
    <3>2. i \in 1..(Len(queue) + Len(es))
      BY <1>1, <2>1, <2>3, <2>4
    <3>3. CASE i \in 1..Len(queue)
      BY <1>1, <2>1, <2>3, <3>1, <3>3
    <3>4. CASE i \notin 1..Len(queue)
      <4>1. i - Len(queue) \in 1..Len(es) /\ queue'[i] = es[i - Len(queue)]
        BY <1>1, <2>1, <2>3, <3>2, <3>4
      <4> QED BY <4>1, <2>3, <1>1
    <3> QED BY <3>3, <3>4
  <2> QED BY <2>2, <2>4 DEF Settled
<1>4. CASE Started
  <2>1. 1 \in DOMAIN queue /\ queue[1] \in Starts
    BY <1>1, <1>4 DEF Started
  <2>2. chosen # "settled" /\ chosen' = chosen
    BY <1>4, <2>1 DEF Settled, Started
  <2> QED BY <2>2 DEF Settled
<1>5. CASE Ended
  <2>1. queue' = Tail(queue) /\ queue # <<>>
        /\ overridden' = overridden /\ chosen' = chosen
    BY <1>5 DEF Ended
  <2>2. \A i \in DOMAIN queue' : i + 1 \in DOMAIN queue /\ queue'[i] = queue[i + 1]
    BY <1>1, <2>1
  <2> QED BY <2>1, <2>2 DEF Settled
<1> QED BY <1>2, <1>3, <1>4, <1>5

LEMMA SafeWorker ==
  ASSUME TypeOK, SafeLight, NEW w \in Switches, Schedule(w) \/ Worker(w)
  PROVE  SafeLight'
<1> USE DriverSets DEF TypeOK, SafeLight, OneCommand, OneSwitchPending, OffRespects,
        DrivesOff, Holding, To
<1>0. Settled'
  BY SettledKept DEF Schedule, NewSwitch, Worker, Delay, ClaimLed, WaitLed,
                     CheckWanted,
     EndWorker, Gone, Apply, Send, Sent, ReleaseLed, printVars, armVars
<1> USE <1>0 DEF printVars, armVars, driveVars, seenVars
<1>1. CASE Schedule(w)
  <2>1. OneCommand' /\ OffRespects'
    BY <1>1 DEF Schedule, NewSwitch
  <2>2. OneSwitchPending'
    BY <1>1 DEF Schedule, NewSwitch, Supersede
  <2> QED BY <2>1, <2>2
<1>2. CASE Delay(w)
  BY <1>2 DEF Delay
<1>3. CASE ClaimLed(w)
  BY <1>3 DEF ClaimLed
<1>4. CASE WaitLed(w)
  BY <1>4 DEF WaitLed
<1>5. CASE CheckWanted(w)
  BY <1>5 DEF CheckWanted
<1>6. CASE EndWorker(w)
  BY <1>6 DEF EndWorker, Gone
<1>7. CASE Apply(w)
  BY <1>7 DEF Apply
<1>8. CASE Send(w)
  BY <1>8 DEF Send, Sent
<1>9. CASE ReleaseLed(w)
  BY <1>9 DEF ReleaseLed
<1> QED BY <1>1, <1>2, <1>3, <1>4, <1>5, <1>6, <1>7, <1>8, <1>9 DEF Worker

LEMMA SafeClick ==
  ASSUME TypeOK, SafeLight, NEW c \in Clickers, Click(c) \/ ClickStep(c)
  PROVE  SafeLight'
<1> USE DriverSets DEF TypeOK, SafeLight, OneCommand, OneSwitchPending, OffRespects,
        DrivesOff, Holding, printVars, armVars, driveVars, seenVars, To
<1>1. CASE Click(c)
  BY <1>1, SettledKept DEF Click
<1>2. CASE Note(c)
  BY <1>2, SettledKept DEF Note
<1>3. CASE Override(c)
  <2>1. chosen' = "settled" => \A i \in DOMAIN queue : queue[i] \notin Starts
    BY <1>3 DEF Override, Settled, Queued, Starts
  <2>2. Settled'
    BY <1>3, <2>1 DEF Override, Settled
  <2> QED BY <1>3, <2>2 DEF Override
<1>4. CASE CancelAutoLed(c)
  <2>1. OneCommand' /\ OffRespects' /\ Settled'
    BY <1>4, SettledKept DEF CancelAutoLed
  <2>2. OneSwitchPending'
    BY <1>4 DEF CancelAutoLed, Supersede
  <2> QED BY <2>1, <2>2
<1>5. CASE Apply(c)
  BY <1>5, SettledKept DEF Apply
<1>6. CASE Send(c)
  BY <1>6, SettledKept DEF Send, Sent
<1>7. CASE ReleaseLed(c)
  BY <1>7, SettledKept DEF ReleaseLed
<1> QED BY <1>1, <1>2, <1>3, <1>4, <1>5, <1>6, <1>7 DEF ClickStep

LEMMA SafeStep == TypeOK /\ SafeLight /\ [Next]_vars => SafeLight'
<1> SUFFICES ASSUME TypeOK, SafeLight, [Next]_vars PROVE SafeLight'
  OBVIOUS
<1> USE DEF printVars, armVars, driveVars, seenVars
<1>0. Settled
  BY DEF SafeLight
<1>1. CASE UNCHANGED vars
  BY <1>0, <1>1, SafeOutside, SettledKept DEF vars
<1>2. CASE Touch \/ ConnectorChanges
           \/ MonitorStart \/ MonitorConnect \/ StopLedMonitor \/ HandleReport
  <2>1. UNCHANGED <<printVars, armVars, driveVars>>
    BY <1>2 DEF Touch, ConnectorChanges, MonitorStart, MonitorConnect,
       StopLedMonitor, HandleReport
  <2> QED BY <1>0, <2>1, SafeOutside, SettledKept
<1>3. CASE PrintStarts \/ PrintEnds \/ Started \/ Ended
  <2>1. Settled'
    BY <1>0, <1>3, SettledEvents
  <2> QED BY <1>3, <2>1, SafeOutside DEF PrintStarts, PrintEnds, Started, Ended
<1> QED BY <1>1, <1>2, <1>3, SafeWorker, SafeClick DEF Next

LEMMA AlwaysSafe == Spec => []SafeLight
<1>1. LightTypes => TypeOK
  BY DEF LightTypes
<1> QED BY <1>1, TypesInit, TypesStep, SafeInit, SafeStep, PTL DEF Spec

\* One command drives the light at a time, and the flag that turns the others
\* away is up exactly while it does.
THEOREM LightExclusion == Spec => []OneCommand
<1>1. SafeLight => OneCommand
  BY DEF SafeLight
<1> QED BY <1>1, AlwaysSafe, PTL

\* Whatever order events, clicks and workers come in, every switch but the one
\* armed last knows that it was superseded.
THEOREM LastSwitchPending == Spec => []OneSwitchPending
<1>1. SafeLight => OneSwitchPending
  BY DEF SafeLight
<1> QED BY <1>1, AlwaysSafe, PTL

\* A click noted during a print whose start was delivered before is not undone at
\* the end of that print.
THEOREM ClickWins == Spec => []ManualOffWins
<1>1. SafeLight => ManualOffWins
  BY DEF SafeLight, OffRespects, Settled, ManualOffWins
<1> QED BY <1>1, AlwaysSafe, PTL

=============================================================================
