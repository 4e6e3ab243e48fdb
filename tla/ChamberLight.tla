---------------------------- MODULE ChamberLight ----------------------------
(* The automatic chamber light (auto_led.py) beside the manual button        *)
(* (_handle_set_led), the transports both use (_apply_led, connector_led.py, *)
(* mqtt.py) and the monitor that observes the light.                         *)
(*                                                                           *)
(* OctoPrint's event thread arms a switch at each start and end of a print;  *)
(* a worker waits the delay, claims the light and drives it, unless a newer  *)
(* switch or a click superseded it.  The state of the printer flips before   *)
(* the event thread gets to the event.                                       *)
(*                                                                           *)
(* Left out: the messages to the browser, the settings (auto_led is on), the *)
(* 20 seconds after which a click is answered though its thread goes on.     *)
EXTENDS Integers, Sequences, FiniteSets

CONSTANTS
  Clickers,     \* request threads of the manual button
  MaxTries,     \* _BUSY_MAX_RETRIES
  MaxSwitches,  \* bound: switches under way at a time
  MaxPrints,    \* bound: prints
  MaxClicks,    \* bound: clicks
  MaxOutside    \* bound: starts of the monitor, switches at the printer's
                \* display, changes of the connection

ASSUME LightAssumption ==
  /\ MaxTries \in Nat \ {0} /\ MaxSwitches \in Nat /\ MaxPrints \in Nat
  /\ MaxClicks \in Nat /\ MaxOutside \in Nat
  /\ Clickers \cap Nat = {}

Switches == 1..MaxSwitches
NoSwitch == 0
Drivers == Switches \cup Clickers

VARIABLES
  printing,   \* _print_active()
  queue,      \* events OctoPrint has still to deliver
  chosen,     \* history: a click noted since the start of this print was
              \* delivered, and whether the second report of it was still to come
  handler,    \* the event thread, in on_auto_led_event
  overridden, \* _auto_led_overridden
  pending,    \* _auto_led_cancel, as the switch whose event it is
  cancelled,  \* switches whose event is set
  pc,         \* where each worker and each click is
  want,       \* what it wants of the light
  tries,      \* rounds of _claim_led
  via,        \* the transport it uses
  busy,       \* _led_busy
  light,      \* the light
  connected,  \* BambuConnector is the active connection
  monitor,    \* _led_monitor
  ledState,   \* _led_state
  prints, clicks, outside

printVars == <<printing, queue, chosen, prints>>
armVars == <<handler, overridden, pending, cancelled>>
driveVars == <<pc, want, tries, via, busy>>
seenVars == <<connected, monitor, ledState, outside>>
vars == <<printVars, armVars, driveVars, seenVars, light, clicks>>

States == {"none", "delay", "claim", "wait", "note", "override", "drop",
           "check", "apply", "send", "release", "end"}

\* Between the claim of the light and its release.
Holding == {"note", "override", "drop", "check", "apply", "send", "release"}

\* What a start and an end are reported as; the second report of a start is told
\* from the first for the properties only.
Starts == {"started", "again"}
Events == Starts \cup {"ended"}

Transports == {"connector", "monitor", "oneshot"}
Seen == {"unknown", "on", "off"}

\* Every variable has its type.
TypeOK ==
  /\ printing \in BOOLEAN
  /\ queue \in Seq(Events)
  /\ chosen \in {"no", "doubled", "settled"}
  /\ handler \in {"idle", "arm_on", "arm_off"}
  /\ overridden \in BOOLEAN
  /\ pending \in Switches \cup {NoSwitch}
  /\ cancelled \subseteq Switches
  /\ pc \in [Drivers -> States]
  /\ want \in [Drivers -> {"on", "off"}]
  /\ tries \in [Switches -> 0..MaxTries]
  /\ via \in [Drivers -> Transports]
  /\ busy \in BOOLEAN
  /\ light \in {"on", "off"}
  /\ connected \in BOOLEAN
  /\ monitor \in {"down", "connecting", "up"}
  /\ ledState \in Seen
  /\ prints \in 0..MaxPrints /\ clicks \in 0..MaxClicks
  /\ outside \in 0..MaxOutside

Init ==
  /\ printing = FALSE /\ queue = <<>> /\ chosen = "no"
  /\ handler = "idle" /\ overridden = FALSE
  /\ pending = NoSwitch /\ cancelled = {}
  /\ pc = [d \in Drivers |-> "none"]
  /\ want = [d \in Drivers |-> "off"]
  /\ tries = [w \in Switches |-> 0]
  /\ via = [d \in Drivers |-> "oneshot"]
  /\ busy = FALSE
  /\ light = "off"
  /\ connected \in BOOLEAN
  /\ monitor = "down" /\ ledState = "unknown"
  /\ prints = 0 /\ clicks = 0 /\ outside = 0

To(d, step) == pc' = [pc EXCEPT ![d] = step]

----------------------------------------------------------------------------
(* The printer and OctoPrint. *)

\* A start is reported twice now and then.
PrintStarts ==
  /\ ~printing /\ prints < MaxPrints
  /\ printing' = TRUE
  /\ prints' = prints + 1
  /\ chosen' = "no"
  /\ \E es \in {<<"started">>, <<"started", "again">>} : queue' = queue \o es
  /\ UNCHANGED <<armVars, driveVars, seenVars, light, clicks>>

\* Done, failed, cancelled: a cancel is reported as both.
PrintEnds ==
  /\ printing
  /\ printing' = FALSE
  /\ \E es \in {<<"ended">>, <<"ended", "ended">>} : queue' = queue \o es
  /\ UNCHANGED <<chosen, prints, armVars, driveVars, seenVars, light, clicks>>

\* Somebody uses the printer's display.
Touch ==
  /\ outside < MaxOutside
  /\ outside' = outside + 1
  /\ light' = IF light = "on" THEN "off" ELSE "on"
  /\ UNCHANGED <<connected, monitor, ledState, printVars, armVars, driveVars,
                 clicks>>

ConnectorChanges ==
  /\ outside < MaxOutside
  /\ outside' = outside + 1
  /\ connected' = ~connected
  /\ UNCHANGED <<light, monitor, ledState, printVars, armVars, driveVars, clicks>>

----------------------------------------------------------------------------
(* on_auto_led_event, on the event thread. *)

Started ==
  /\ handler = "idle" /\ queue # <<>> /\ Head(queue) \in Starts
  /\ queue' = Tail(queue)
  /\ overridden' = FALSE
  /\ handler' = "arm_on"
  /\ UNCHANGED <<printing, chosen, prints, pending, cancelled, driveVars,
                 seenVars, light, clicks>>

Ended ==
  /\ handler = "idle" /\ queue # <<>> /\ Head(queue) = "ended"
  /\ queue' = Tail(queue)
  /\ handler' = IF overridden THEN "idle" ELSE "arm_off"
  /\ UNCHANGED <<printing, chosen, prints, overridden, pending, cancelled,
                 driveVars, seenVars, light, clicks>>

\* The switch a click or a newer switch supersedes.
Supersede == IF pending = NoSwitch THEN cancelled ELSE cancelled \cup {pending}

NewSwitch(w) ==
  /\ handler # "idle"
  /\ pc[w] = "none" /\ \A v \in 1..(w - 1) : pc[v] # "none"
  /\ pending' = w
  /\ To(w, "delay")
  /\ want' = [want EXCEPT ![w] = IF handler = "arm_on" THEN "on" ELSE "off"]
  /\ handler' = "idle"
  /\ UNCHANGED <<overridden, tries, via, busy, printVars, seenVars, light, clicks>>

\* Variant: the switch before it stays armed.
ScheduleBeside(w) == NewSwitch(w) /\ UNCHANGED cancelled

\* _schedule_auto_led.
Schedule(w) == NewSwitch(w) /\ cancelled' = Supersede

----------------------------------------------------------------------------
(* _auto_led_worker. *)

Delay(w) ==
  /\ pc[w] = "delay"
  /\ To(w, IF w \in cancelled THEN "end" ELSE "claim")
  /\ UNCHANGED <<want, tries, via, busy, printVars, armVars, seenVars, light,
                 clicks>>

\* Variant: the flag is set, whoever has it.
ClaimAnyway(w) ==
  /\ pc[w] = "claim"
  /\ busy' = TRUE /\ To(w, "check")
  /\ UNCHANGED <<want, tries, via, printVars, armVars, seenVars, light, clicks>>

\* _claim_led: a free flag is taken ...
ClaimLed(w) ==
  /\ pc[w] = "claim"
  /\ IF busy THEN To(w, "wait") /\ UNCHANGED busy
             ELSE To(w, "check") /\ busy' = TRUE
  /\ UNCHANGED <<want, tries, via, printVars, armVars, seenVars, light, clicks>>

\* Variant: the rounds are not limited.
WaitOn(w) ==
  /\ pc[w] = "wait"
  /\ tries' = [tries EXCEPT ![w] = @ + 1]
  /\ To(w, IF w \in cancelled THEN "end" ELSE "claim")
  /\ UNCHANGED <<want, via, busy, printVars, armVars, seenVars, light, clicks>>

\* ... a busy one is waited for; a cancel is noticed here only.
WaitLed(w) ==
  /\ pc[w] = "wait"
  /\ tries' = [tries EXCEPT ![w] = @ + 1]
  /\ To(w, IF w \in cancelled \/ tries'[w] = MaxTries THEN "end" ELSE "claim")
  /\ UNCHANGED <<want, via, busy, printVars, armVars, seenVars, light, clicks>>

\* _current_led_state: the connector's view, or if there is none or it cannot be
\* read, what the monitor saw last.
Readings == IF connected THEN {light, ledState} ELSE {ledState}

\* Variant: the override is not asked for again.
CheckState(w) ==
  /\ pc[w] = "check"
  /\ \E seen \in Readings :
       To(w, IF want[w] = "off" /\ seen = "off" THEN "release" ELSE "apply")
  /\ UNCHANGED <<want, tries, via, busy, printVars, armVars, seenVars, light,
                 clicks>>

\* The switch off asks for an override and whether the light is off already.
CheckWanted(w) ==
  /\ pc[w] = "check"
  /\ \E seen \in Readings :
       To(w, IF want[w] = "off" /\ (overridden \/ seen = "off")
             THEN "release" ELSE "apply")
  /\ UNCHANGED <<want, tries, via, busy, printVars, armVars, seenVars, light,
                 clicks>>

\* The thread is gone, and with it all that was its own.
Gone(w) ==
  /\ pc[w] = "end"
  /\ To(w, "none")
  /\ want' = [want EXCEPT ![w] = "off"]
  /\ tries' = [tries EXCEPT ![w] = 0]
  /\ cancelled' = cancelled \ {w}
  /\ UNCHANGED <<handler, overridden, via, busy, printVars, seenVars, light,
                 clicks>>

EndWorker(w) == Gone(w) /\ pending' = IF pending = w THEN NoSwitch ELSE pending

----------------------------------------------------------------------------
(* _apply_led, by whoever holds the light. *)

\* The connector's connection first, then the monitor's, then one of its own.
Apply(d) ==
  /\ pc[d] = "apply"
  /\ \E t \in Transports :
       /\ t = "connector" => connected
       /\ t = "monitor" => monitor = "up"
       /\ t = "oneshot" => monitor # "up"
       /\ via' = [via EXCEPT ![d] = t]
  /\ To(d, "send")
  /\ UNCHANGED <<want, tries, busy, printVars, armVars, seenVars, light, clicks>>

\* The command arrives, or an error is returned whether it arrived or not; the
\* client of a monitor that is gone refuses it.
Sent(d) ==
  /\ pc[d] = "send"
  /\ light' \in {light, want[d]}
  /\ (via[d] = "monitor" /\ monitor = "down") => light' = light
  /\ To(d, "release")
  /\ UNCHANGED <<want, tries, via, busy, printVars, armVars, seenVars, clicks>>

\* Variant: a publish that is never acknowledged is waited for without a limit.
SendOrHang(d) == Sent(d) /\ (via[d] = "monitor" => monitor = "up")

Send(d) == Sent(d)

\* The "finally" of the worker and of the click.
ReleaseLed(d) ==
  /\ pc[d] = "release"
  /\ busy' = FALSE
  /\ To(d, IF d \in Clickers THEN "none" ELSE "end")
  /\ via' = [via EXCEPT ![d] = "oneshot"]
  /\ want' = [want EXCEPT ![d] = "off"]
  /\ UNCHANGED <<tries, printVars, armVars, seenVars, light, clicks>>

----------------------------------------------------------------------------
(* _handle_set_led. *)

\* A busy light refuses the click.
Click(c) ==
  /\ pc[c] = "none" /\ ~busy /\ clicks < MaxClicks
  /\ clicks' = clicks + 1
  /\ busy' = TRUE
  /\ \E s \in {"on", "off"} : want' = [want EXCEPT ![c] = s]
  /\ To(c, "note")
  /\ UNCHANGED <<tries, via, printVars, armVars, seenVars, light>>

\* _note_manual_led: only a click during a print counts.
Note(c) ==
  /\ pc[c] = "note"
  /\ To(c, IF printing THEN "override" ELSE "apply")
  /\ UNCHANGED <<want, tries, via, busy, printVars, armVars, seenVars, light,
                 clicks>>

Queued(e) == \E i \in DOMAIN queue : queue[i] = e

Override(c) ==
  /\ pc[c] = "override"
  /\ overridden' = TRUE
  /\ chosen' = IF Queued("started") THEN chosen
               ELSE IF Queued("again") THEN "doubled" ELSE "settled"
  /\ To(c, "drop")
  /\ UNCHANGED <<printing, queue, prints, handler, pending, cancelled, want,
                 tries, via, busy, seenVars, light, clicks>>

\* _cancel_auto_led.
CancelAutoLed(c) ==
  /\ pc[c] = "drop"
  /\ cancelled' = Supersede
  /\ pending' = NoSwitch
  /\ To(c, "apply")
  /\ UNCHANGED <<handler, overridden, want, tries, via, busy, printVars, seenVars,
                 light, clicks>>

----------------------------------------------------------------------------
(* The monitor, for one browser. *)

\* _handle_led_monitor_start opens a connection if BambuConnector has none.
MonitorStart ==
  /\ monitor = "down" /\ outside < MaxOutside /\ ~connected
  /\ outside' = outside + 1
  /\ monitor' = "connecting"
  /\ UNCHANGED <<connected, ledState, printVars, armVars, driveVars, light, clicks>>

MonitorConnect ==
  /\ monitor = "connecting"
  /\ monitor' \in {"down", "up"}
  /\ UNCHANGED <<connected, outside, ledState, printVars, armVars, driveVars,
                 light, clicks>>

\* _stop_led_monitor; what was seen last stays in _led_state.
StopLedMonitor ==
  /\ monitor = "up"
  /\ monitor' = "down"
  /\ UNCHANGED <<connected, outside, ledState, printVars, armVars, driveVars,
                 light, clicks>>

\* _handle_report, _on_led_state_change; a report may be late or never come.
HandleReport ==
  /\ monitor = "up" /\ ledState # light
  /\ ledState' = light
  /\ UNCHANGED <<connected, monitor, outside, printVars, armVars, driveVars,
                 light, clicks>>

----------------------------------------------------------------------------

Worker(w) ==
  \/ Delay(w) \/ ClaimLed(w) \/ WaitLed(w) \/ CheckWanted(w)
  \/ Apply(w) \/ Send(w) \/ ReleaseLed(w) \/ EndWorker(w)

ClickStep(c) ==
  \/ Note(c) \/ Override(c) \/ CancelAutoLed(c)
  \/ Apply(c) \/ Send(c) \/ ReleaseLed(c)

Next ==
  \/ PrintStarts \/ PrintEnds \/ Touch \/ ConnectorChanges
  \/ Started \/ Ended
  \/ \E w \in Switches : Schedule(w) \/ Worker(w)
  \/ \E c \in Clickers : Click(c) \/ ClickStep(c)
  \/ MonitorStart \/ MonitorConnect \/ StopLedMonitor \/ HandleReport

Spec == Init /\ [][Next]_vars

\* The threads are scheduled, a delay passes, and a transport answers or times
\* out.
FairSpec ==
  /\ Spec
  /\ \A w \in Switches : WF_vars(Worker(w))
  /\ \A c \in Clickers : WF_vars(ClickStep(c))

----------------------------------------------------------------------------
(* Properties. *)

\* "the two can never open two sockets": one command at a time, and the flag is
\* up exactly as long as it lasts.
OneCommand ==
  /\ \A d, e \in Drivers : pc[d] \in Holding /\ pc[e] \in Holding => d = e
  /\ busy <=> \E d \in Drivers : pc[d] \in Holding

\* "Only one switch is ever pending": every armed switch but the last one is
\* marked superseded, whatever order events, clicks and workers come in.
OneSwitchPending ==
  \A w \in Switches :
    pc[w] # "none" /\ w \notin cancelled => pending = w

\* Some switch off drives the light.
DrivesOff ==
  \E w \in Switches : pc[w] \in {"apply", "send"} /\ want[w] = "off"

\* A click noted during a print, once every report of its start is delivered,
\* holds against the end of that print: no switch off drives the light before the
\* next print begins, whatever events and workers are under way.
ManualOffWins == chosen = "settled" => ~DrivesOff

\* "A manual toggle on the live stream wins for the rest of the running print",
\* and a doubled start "just re-arms the same on-timer": the same of a click that
\* comes between the two reports of the start.  The second one clears the
\* override (a violation).
ToggleWins == chosen \in {"doubled", "settled"} => ~DrivesOff

\* "An unknown state (None) means BambuConnector is not the active connection.
\* It is not evidence of anything, so the switch proceeds": no switch off is
\* dropped while the light burns and neither the connector nor a monitor looks.
SkipsOnlyWhatItSees ==
  [][\A w \in Switches :
       pc[w] = "check" /\ pc'[w] = "release" /\ ~overridden =>
         connected \/ monitor # "down" \/ light = "off"]_vars

\* The light is always free again in the end, whoever drives it and however the
\* transport fails: no click is refused as "busy" for ever.
CommandsEnd == busy ~> ~busy
=============================================================================
