----------------------- MODULE TelemetryPublication -----------------------
(***************************************************************************)
(* What components/mazda_telemetry publishes while frames arrive, samples  *)
(* expire and the transport fails and recovers: the notification channels, *)
(* the polled publication store and the lighting sink, all fed by the one  *)
(* runtime worker.  The worker receives a frame (Process), then reports    *)
(* diagnostics (OnDiagnostics), which publishes; time passes between the   *)
(* two.  A receive timeout or a driver fault reports diagnostics alone.    *)
(* A publication goes to the channels of the descriptors whose message     *)
(* group was touched, came due, or on a global health transition.          *)
(***************************************************************************)
EXTENDS MazdaState, FiniteSetsExt

CONSTANTS Frames,             \* what the bus may carry: [id, shape, data]
          Watched,            \* the notification descriptors of the instance
          SilenceTimeout,     \* transport_silence_timeout_us
          Heartbeat,          \* kLightingHeartbeatUs
          MaxDelay,           \* bound: age of a frame when it is processed
          MaxFrames,          \* bound: frames received in a behaviour
          MaxTime             \* bound on the clock

ASSUME PublicationAssumption ==
  /\ Watched \subseteq Signals
  /\ {SilenceTimeout, Heartbeat, MaxDelay, MaxFrames, MaxTime} \subseteq Nat

(* The decoders of one-bit payloads take every signal of their message.    *)
ASSUME FramesAssumption ==
  \A fr \in Frames :
    fr.id \in {"Doors", "BlinkInfo"} => DOMAIN fr.data = MessageSignals[fr.id]

VARIABLES
  now,        \* the monotonic clock
  frames,     \* frames received
  worker,     \* "none", "idle", or "processed": between process and report
  st,         \* processing_state_
  changed,    \* processing_state_changed_
  due,        \* notification_due_observations_
  pending,    \* pending_observation_identifier_, as a set of at most one
  rt,         \* runtime_diagnostics_: lifecycle and transport
  lastRx,     \* last_transport_receive_us_, as a set of at most one
  life,       \* lifecycle_state_
  pub,        \* PublicationStore::published_
  health,     \* published_lifecycle_, published_transport_, initialized
  chan,       \* the reading last published to each descriptor's channel
  light,      \* lighting_*: the update last sent, failure, next heartbeat
  sink,       \* what the lighting sink last accepted
  servedAt,   \* history: clock value of the last publication
  procAt,     \* history: clock value of the last process()
  seen        \* history: newest sample time of every turn value, if any

vars == <<now, frames, worker, st, changed, due, pending, rt, lastRx, life, pub,
          health, chan, light, sink, servedAt, procAt, seen>>

Directions == {"Left", "Right", "Hazard"}
TransportRequiresFailoff(transport) == transport \in FailOffTransports

(* Mutant: recovery is not a global transition.                            *)
MRequiresGlobalHealthEvaluation(lifecycle, transport) ==
  \/ ~health.initialized
  \/ /\ lifecycle # health.lifecycle \/ transport # health.transport
     /\ lifecycle = "Faulted" \/ TransportRequiresFailoff(transport)

RequiresGlobalHealthEvaluation(lifecycle, transport) ==
  \/ ~health.initialized
  \/ /\ lifecycle # health.lifecycle \/ transport # health.transport
     /\ lifecycle = "Faulted" \/ TransportRequiresFailoff(transport)
  \/ /\ lifecycle = "Running" /\ transport = "Live"
     /\ health.lifecycle = "Faulted" \/ health.transport \in {"TimedOut", "Faulted"}

(***************************************************************************)
(* Notifications.                                                          *)
(***************************************************************************)
DescriptorDue(s, d) ==
  /\ d \in DOMAIN s.sig /\ d \in DOMAIN Freshness
  /\ now > s.sig[d].t + Freshness[d]
  /\ d \in DOMAIN due => due[d] # s.sig[d].t

(* publish_notifications: the channels after the pass, and the due marks.  *)
Selected(s, affected, global) ==
  LET groups == {MessageOf(d) : d \in {x \in Watched : DescriptorDue(s, x)}} IN
  {d \in Watched : global \/ MessageOf(d) \in affected \cup groups}

PublishNotifications(s, transport, affected, global) ==
  LET sel == Selected(s, affected, global)
      served == {d \in sel : DescriptorDue(s, d)} IN
  /\ chan' = [d \in DOMAIN chan |->
                IF d \in sel THEN ReadingAt(s, d, now, transport) ELSE chan[d]]
  /\ due' = [d \in DOMAIN due \cup served |->
               IF d \in served THEN s.sig[d].t ELSE due[d]]

(***************************************************************************)
(* Lighting.                                                               *)
(***************************************************************************)
IsAvailable(reading) == reading.availability \in {"Fresh", "FreshnessUnverified"}

(* Mutant: the deadline counts from the publication, not from the sample.  *)
MSampleDeadline(s, d) ==
  {now + Freshness[d] : x \in {d} \cap DOMAIN s.sig \cap DOMAIN Freshness}

SampleDeadline(s, d) ==
  {s.sig[d].t + Freshness[d] :
     x \in {d} \cap DOMAIN s.sig \cap DOMAIN Freshness}

(* health_observation() never sets the signal's health, so the override of *)
(* the availability at the end of the reading never applies.               *)
LightingUpdate(s, transport, rx) ==
  LET turn == ReadingAt(s, "turn_state", now, transport)
      brake == ReadingAt(s, "brake_pressed", now, transport)
      actionable == /\ IsAvailable(turn) /\ turn.sample[1][1] # "Unknown"
                    /\ ~TransportRequiresFailoff(transport)
      pressed == brake.availability = "Fresh" /\ brake.sample[1][1]
      deadlines == (IF actionable THEN SampleDeadline(s, "turn_state") ELSE {})
                   \cup (IF pressed THEN SampleDeadline(s, "brake_pressed") ELSE {})
                   \cup {r + SilenceTimeout : r \in rx}
      deadline == IF deadlines = {} THEN now + Heartbeat ELSE Min(deadlines) IN
  [turn |-> IF actionable THEN turn.sample[1][1] ELSE "Unknown",
   availability |-> turn.availability,
   brake |-> pressed, brakeAvailability |-> brake.availability,
   until |-> IF deadline <= now THEN now ELSE deadline]

Decision(u) == <<u.turn, u.availability, u.brake, u.brakeAvailability>>

Send(u, accepted) ==
  /\ light' = [sent |-> TRUE, last |-> Decision(u), failure |-> ~accepted,
               next |-> now + Heartbeat]
  /\ sink' = IF accepted THEN u ELSE sink

PublishLighting(s, transport, rx, accepted) ==
  LET u == LightingUpdate(s, transport, rx) IN
  IF ~light.sent \/ Decision(u) # light.last \/ light.failure \/ now >= light.next
    THEN Send(u, accepted)
    ELSE UNCHANGED <<light, sink>>

StartupBlack ==
  [turn |-> "Unknown", availability |-> "NoData", brake |-> FALSE,
   brakeAvailability |-> "NoData", until |-> now]

(***************************************************************************)
(* publish_current, called by the worker's diagnostics report.             *)
(***************************************************************************)
(* PublicationStore: publish() with the state, or publish_diagnostics().   *)
StorePublish(lifecycle, transport) ==
  pub' = [st |-> IF changed THEN st ELSE pub.st,
          lifecycle |-> lifecycle, transport |-> transport]

(* read_descriptor_signal: one coherent copy, the clock sampled after it.  *)
PolledReading(d, t) == ReadingAt(pub.st, d, t, pub.transport)

PublishCurrent(lifecycle, transport, rx, accepted) ==
  /\ StorePublish(lifecycle, transport)
  /\ changed' = FALSE
  /\ PublishNotifications(st, transport, pending,
                          RequiresGlobalHealthEvaluation(lifecycle, transport))
  /\ PublishLighting(st, transport, rx, accepted)
  /\ pending' = {}
  /\ health' = [initialized |-> TRUE, lifecycle |-> lifecycle,
                transport |-> transport]
  /\ servedAt' = now

OnDiagnostics(lifecycle, transport, rx, accepted) ==
  /\ rt' = [lifecycle |-> lifecycle, transport |-> transport]
  /\ life' = lifecycle
  /\ lastRx' = rx
  /\ worker' = "idle"
  /\ PublishCurrent(lifecycle, transport, rx, accepted)
  /\ UNCHANGED <<now, frames, st, procAt, seen>>

(***************************************************************************)
(* The runtime worker.                                                     *)
(***************************************************************************)
(* Mutant: expiry is not served before the frame is decoded.               *)
MServiceDueNotifications == UNCHANGED <<chan, due>>

(* service_due_notifications, before the frame is decoded.                 *)
ServiceDueNotifications ==
  IF life = "Running"
    THEN PublishNotifications(st, rt.transport, {}, FALSE)
    ELSE UNCHANGED <<chan, due>>

MessageMutationMarker(s, id) ==
  IF id \in DOMAIN s.msg THEN {s.msg[id].frame.t} ELSE {}

(* process(): expiry is served on the state the frame has not yet changed. *)
Process(fr, t) ==
  LET f == [id |-> fr.id, t |-> t, shape |-> fr.shape, data |-> fr.data]
      new == Decode(st, f) IN
  /\ worker = "idle" /\ frames < MaxFrames
  /\ frames' = frames + 1
  /\ worker' = "processed"
  /\ pending' = {f.id}
  /\ ServiceDueNotifications
  /\ st' = new
  /\ changed' = (changed \/ MessageMutationMarker(st, f.id)
                              # MessageMutationMarker(new, f.id))
  /\ procAt' = now
  /\ seen' = IF "turn_state" \in DOMAIN new.sig
               THEN [seen EXCEPT ![new.sig["turn_state"].value] =
                       {Max(@ \cup {new.sig["turn_state"].t})}]
               ELSE seen
  /\ UNCHANGED <<now, rt, lastRx, life, pub, health, light, sink, servedAt>>

ReportFrame(accepted) ==
  /\ worker = "processed"
  /\ OnDiagnostics("Running", "Live", {procAt}, accepted)

Silent == \E r \in lastRx : now > r + SilenceTimeout

ReportTimeout(accepted) ==
  /\ worker = "idle" /\ rt.lifecycle = "Running"
  /\ OnDiagnostics("Running", IF Silent THEN "TimedOut" ELSE rt.transport,
                   lastRx, accepted)

ReportFault(accepted) ==
  /\ worker = "idle" /\ rt.transport # "Faulted"
  /\ OnDiagnostics("Faulted", "Faulted", lastRx, accepted)

(***************************************************************************)
(* The lifecycle owner.  Start and stop are one step here: the worker is   *)
(* not running during either (TelemetryLifecycle has their interleaving).  *)
(***************************************************************************)
(* reset(): nothing observed in an earlier run remains.                    *)
Cleared ==
  /\ st' = EmptyState /\ changed' = FALSE /\ pending' = {} /\ lastRx' = {}
  /\ due' = << >>

RestState(lifecycle, transport) ==
  [st |-> EmptyState, lifecycle |-> lifecycle, transport |-> transport]

(* The startup update.  A runtime that resets its processor as it starts   *)
(* makes the service forget that it sent one.                              *)
SendStartup(u, accepted) ==
  /\ sink' = IF accepted THEN u ELSE sink
  /\ \E sent \in BOOLEAN :
       light' = [sent |-> sent, last |-> Decision(u), failure |-> sent /\ ~accepted,
                 next |-> now + Heartbeat]

(* start(): black first, then the startup publication, then the runtime.   *)
(* A rejected black is repeated by the startup publication.                *)
Start(black, startup, runtime) ==
  /\ life = "Stopped"
  /\ Cleared
  /\ IF black THEN SendStartup(StartupBlack, TRUE)
     ELSE SendStartup(LightingUpdate(EmptyState, "AwaitingTraffic", {}), startup)
  /\ rt' = [lifecycle |-> "Running", transport |-> "AwaitingTraffic"]
  /\ health' = [initialized |-> TRUE, lifecycle |-> "Running",
                transport |-> "AwaitingTraffic"]
  /\ servedAt' = now
  /\ \/ /\ runtime = "Ok"
        /\ life' = "Running" /\ worker' = "idle"
        /\ pub' = RestState("Running", "AwaitingTraffic")
        /\ chan' = [d \in Watched |->
                      ReadingAt(EmptyState, d, now, "AwaitingTraffic")]
     \/ /\ runtime \in {"Stopped", "Faulted"}
        /\ life' = runtime /\ worker' = "none"
        /\ pub' = RestState(runtime, runtime)
        /\ chan' = << >>
  /\ UNCHANGED <<now, frames, procAt, seen>>

Stop ==
  /\ life # "Stopped" /\ worker # "processed"
  /\ worker' = "none" /\ life' = "Stopped"
  /\ rt' = [lifecycle |-> "Stopped", transport |-> "Stopped"]
  /\ pub' = RestState("Stopped", "Stopped")
  /\ chan' = << >>
  /\ Cleared
  /\ health' = [initialized |-> TRUE, lifecycle |-> "Stopped",
                transport |-> "Stopped"]
  /\ UNCHANGED <<now, frames, light, sink, servedAt, procAt, seen>>

Tick == now < MaxTime /\ now' = now + 1
        /\ UNCHANGED <<frames, worker, st, changed, due, pending, rt, lastRx, life,
                       pub, health, chan, light, sink, servedAt, procAt, seen>>

Init ==
  /\ now = 0 /\ frames = 0 /\ worker = "none" /\ st = EmptyState
  /\ changed = FALSE /\ due = << >> /\ pending = {}
  /\ rt = [lifecycle |-> "Stopped", transport |-> "Stopped"]
  /\ lastRx = {} /\ life = "Stopped"
  /\ pub = RestState("Stopped", "Stopped")
  /\ health = [initialized |-> FALSE, lifecycle |-> "Stopped", transport |-> "Stopped"]
  /\ chan = << >>
  /\ light = [sent |-> FALSE, last |-> << >>, failure |-> FALSE, next |-> 0]
  /\ sink = StartupBlack
  /\ servedAt = 0 /\ procAt = 0
  /\ seen = [v \in Directions \cup {"Off", "Unknown"} |-> {}]

Next ==
  \/ \E fr \in Frames, k \in 0..MaxDelay : k <= now /\ Process(fr, now - k)
  \/ \E a \in BOOLEAN : ReportFrame(a) \/ ReportTimeout(a) \/ ReportFault(a)
  \/ \E a, b \in BOOLEAN, r \in {"Ok", "Stopped", "Faulted"} : Start(a, b, r)
  \/ Stop
  \/ Tick

Spec == Init /\ [][Next]_vars
-----------------------------------------------------------------------------
Readings == {"NoData", "Fresh", "FreshnessUnverified", "Stale", "Unavailable"}

(* Type correctness of the service's state.                                *)
TypeOK ==
  /\ now \in 0..MaxTime /\ frames \in 0..MaxFrames
  /\ worker \in {"none", "idle", "processed"}
  /\ life \in {"Stopped", "Running", "Faulted"}
  /\ \A d \in DOMAIN chan : chan[d].availability \in Readings
  /\ DOMAIN st.sig \subseteq Signals /\ DOMAIN due \subseteq DOMAIN st.sig
  /\ sink.until \in Nat

AtRest == worker = "idle"

(* After every report each channel holds the reading the state gives at    *)
(* the time of the report: publishing only to touched, due and globally    *)
(* affected groups (publish_notifications, requires_global_health_         *)
(* evaluation) loses no change of value, freshness, message or transport   *)
(* health.                                                                 *)
SelectionLosesNothing ==
  AtRest => \A d \in Watched :
              chan[d] = ReadingAt(st, d, servedAt, rt.transport)

(* Polling and notification agree: for the clock value of the last report  *)
(* a poll of the publication store reads what the channel was given,       *)
(* although the store copies the state only when a message record moved.   *)
PollAgreesWithNotice ==
  AtRest => \A d \in Watched :
              chan[d] = PolledReading(d, servedAt)

(* A command the sink still holds valid never shows a direction longer     *)
(* than the freshness of a sample that gave it, nor (but for the moment of *)
(* the report itself) longer than the transport's silence timeout after    *)
(* the last frame, whatever was rejected in between (publish_lighting's    *)
(* deadline).                                                              *)
LitTurnHasEvidence ==
  sink.turn \in Directions /\ now <= sink.until =>
    /\ \/ "turn_state" \notin DOMAIN Freshness
       \/ \E t \in seen[sink.turn] : now <= t + Freshness["turn_state"]
    /\ now <= procAt + SilenceTimeout \/ now = servedAt

(* The sink shows the state of the last report unless the next report has  *)
(* to send again: its rejection is remembered, or nothing counts as sent.  *)
SinkFollowsReport ==
  AtRest /\ light.sent /\ ~light.failure =>
    LET turn == ReadingAt(st, "turn_state", servedAt, rt.transport) IN
    /\ sink.turn \in Directions =>
         IsAvailable(turn) /\ turn.sample[1][1] = sink.turn
    /\ IsAvailable(turn) /\ turn.sample[1][1] \in Directions =>
         sink.turn = turn.sample[1][1]
    /\ sink.brake => /\ "brake_pressed" \in DOMAIN Freshness
                     /\ StatusAt(st, "brake_pressed", servedAt, rt.transport) = "Fresh"

(* A channel never goes from one fresh sample to a newer fresh sample over *)
(* a gap: when the newer frame was processed after the older sample had    *)
(* expired, the unavailable reading was published first (process()).       *)
NoSilentGap ==
  [][\A d \in DOMAIN chan \cap DOMAIN chan' \cap DOMAIN Freshness :
       (/\ chan[d].availability = "Fresh" /\ chan'[d].availability = "Fresh"
        /\ chan[d].sample # chan'[d].sample)
       => procAt <= chan[d].sample[1][2] + Freshness[d]]_vars

(* Both ways to read the vehicle, notified and polled, follow its state.   *)
ChannelsFollowState == TypeOK /\ SelectionLosesNothing /\ PollAgreesWithNotice

(* The lighting sink shows what was reported, while evidence for it lasts. *)
SinkHasEvidence == LitTurnHasEvidence /\ SinkFollowsReport

=============================================================================
