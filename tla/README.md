# Verification of the Mazda CAN accessory controller

TLA+ models of the controller's own logic: telemetry, signal notifications and
rules, the lighting output with its off orders and restart, the one-shot
transients, the configuration from the companion app down to flash and back up
to the strip, the companion link itself, and the replay tools. TLC checks each
on small instances; TLAPS proves the most important safety properties for every
value of the constants. `PROJECT.json` maps every definition to the lines it
translates, and lists the components, the hazards and the theorems.

## 1. The system

CAN frames are decoded into signals; rules turn signals into actions; actions
become lighting commands; a renderer task draws them on an LED strip. A phone
app may, over BLE, watch signals and replace the configuration that holds the
rules. The firmware's overriding goal is *fail dark*: when anything goes
wrong, the strip goes black and stays black.

```
 CAN rx -> telemetry service -> NotificationChannel -> ActionEngine -> LedActionSink
           (runtime worker)      (dispatcher task)     (rules)          | publish
 sampling loop --- polled reads ------------------------^               v
                                                              StallGatedSink (gate, epoch)
 supervisor task: stall -> close, black; resume -> open ------^         | one-item queue
 fail_off(), fail_off_for_restart() --------------------------^         v
                                                              renderer worker -> LED driver
 companion app -> BLE host task: pairing policy, live streams,
                  ConfigTransfer -> ConfigService -> NVS -> restart -> boot -> rules, bindings
 host tools: capture -> replay schedule -> the same telemetry service -> renders, browser
```

### Components, state and operations

| Component | State it keeps | Operations | Hard behaviour |
| --- | --- | --- | --- |
| Lighting gate and off orders (`components/local_argb`) | gate state, in-flight count, cancellation epoch, one-item queue | `publish`, `close`, `open`, `shut`, `fail_off`, `fail_off_for_restart` | lock-free races of publishers with off orders; a wait that must end |
| Renderer worker, supervisor (`components/local_argb`) | held command, desired and last written frame, fault latch, transient layers; leases and watchdogs | `apply`, `tick`, `write_desired`; stall, resume, reset | driver writes that fail or hang; a strip that survives a reset |
| LED action sink (`components/local_argb_actions`) | bindings, levels, retained one-shot starts | `bind_*`, `execute`, `discard_starts` | starts that ride in a queue that overwrites |
| Notification channel (`lib/signal_notification`) | slots, pending notices, cursor | `subscribe`, `unsubscribe`, `start`, `stop`, `publish`, `dispatch_one` | coalescing; callbacks with the mutex released |
| Action engine (`lib/action_engine`) | last outputs, baselines, subscriptions | `attach`, `detach`, `on_notice`, `on_sample` | edges over data gaps; an attach that fails half way |
| Configuration store (`components/controller_config`) | two slots and a marker in NVS | `write_override`, `clear_override`, boot load | power loss and failing calls between any two steps |
| Configuration model (`components/controller_config`) | the loaded document, the active one, the boot status | load, validate, serialize, apply, fall back | three checks of one document that must agree |
| Configuration transfer (`lib/companion_protocol`, `components/companion_config`, `components/companion_ble`) | transfer status, upload buffer, idle and restart timers | Start, Chunk, Commit, Abort, Revert, timers | a client that stalls, repeats or vanishes |
| Pairing and protected access (`components/companion_ble`) | pairing window, link security, bonds, drop timers | connect, encryption change, repeat pairing, key press, Clear bonds | timers racing security events; a host that resets |
| Live streams (`components/companion_ble`) | subscriptions, due times, page selection | subscribe, publish, pace, select | a link that loses trust while it streams |
| Telemetry service (`components/mazda_telemetry`, `lib/mazda`) | decoded state, health, registrations, lifecycle word | start, stop, drain, subscribe, configure, receive, age | a worker, a dispatcher and an owner over one word |
| Replay and emulator (`lib/replay`, `lib/gvret`) | schedule, barrier, output, pacer, web session | step, drain, stop; play, pause, rate, restart | a host that must never read a publication in flight |
| Vehicle profile runtime | provider state, service task | start, stop, publish | not modelled, section 5 |
| Board, CAN driver, loggers, host tools | none whose order matters | - | pure I/O |

What makes the parts correct:

- *gate*: a command that raced an off order never stays lit behind it;
- *restart*: it always happens, and is confirmed only when the strip is black;
- *renderer*: dark from the startup black to the first command, and in every
  lasting stall, whatever the driver does;
- *one-shots*: an accepted start is not lost, plays once, for a bounded time,
  and never across a cancellation;
- *channel*: no state and no transition is lost, nobody starves, quiet after stop;
- *rules*: sink levels follow the signal, events never span a gap in the data;
- *store*: a replacement is atomic at every crash point and success is the truth;
- *update*: only a complete, checked upload is stored, what the client was told
  is what boots, and no client blocks the transfer or the restart;
- *configuration*: what the dry run vouches for boots and runs as a whole;
- *link*: trust rests on a bond, bonds on the owner's key press, and an
  untrusted link is ended in bounded time and gets no data;
- *facade*: stopped means quiescent, and whatever two parts keep of one
  registration agrees;
- *telemetry*: publishing only to what changed loses nothing, and a lit turn
  signal has fresh evidence;
- *replay*: the schedule is followed exactly, and every ending is dark.

## 2. Modules

| Module | Models | Granularity |
| --- | --- | --- |
| `LightingRuntime` | gate, queue, worker, supervisor, `fail_off`, restart, startup | one action per atomic access; a pc per task |
| `TransientPath` | one-shots from trigger to strip, with epochs and a clock | sink, queue, `RendererController` with its layers |
| `NotificationChannel` | one signal's channel | one action per critical section |
| `EngineRules` | engine and four rule kinds; EXTENDS `NotificationChannel` | composition of channel, rules and sink |
| `ConfigSelection` | the abstract register a configuration store promises | - |
| `ConfigStore` | `NvsConfigBackend` | one action per NVS call |
| `ConfigUpdate` | transfer, GATT handlers, timers, commit, restart, boot; EXTENDS `ConfigStore` | one action per BLE event, timer and NVS call |
| `ConfigModel` | JSON trees, loader, validation, serializer | pure operators |
| `ConfigApply` | commit, boot, application to engine and sink, fallback, commands; EXTENDS `ConfigModel` | one action per call on one task |
| `LinkPolicy` | window, debouncer, link security, drop deadlines | pure operators |
| `LiveStreams` | catalog export, pages, both streams' records and pacing | pure operators over a stream's state |
| `Companion` | `security.cpp`, `store_guard.cpp`, characteristics and timers over NimBLE; EXTENDS the two above | one action per host-task event or timer |
| `MazdaState` | message watermarks, decoders, health, availability | pure operators |
| `TelemetryPublication` | receive, age, poll, publish to channels, store and lighting sink; EXTENDS `MazdaState` | one action per worker cycle or frame |
| `TelemetryLifecycle` | start, stop, drain, worker, dispatcher, registrations, the engine's subscriptions | one action per step between locks and per provider call |
| `GvretCapture` | the capture reader | pure operators |
| `Replay` | scheduler, gated source, barrier, controller, output; EXTENDS `GvretCapture` | one action per host or worker step |
| `Emulator` | server, channel, frame decoder, command parser, pacer; EXTENDS `Replay` | one action per message, command and clock step |
| `MC...` | values for TLC | - |
| `...Proofs` | theorems (section 4) | - |

Choices that matter when comparing with the code:

- **LightingRuntime.** Frames and commands are `Lit` or `Black`. The epoch and
  the pass counter are wrapping counters that the code only compares with an
  earlier read, so they appear as "has moved since" (`same[p]`, `passed`);
  a wrap through the whole range between two reads is not modelled. A failed
  write may or may not have latched; a write may hang. `strip` survives a
  restart, everything else does not. `Publishers` may overlap inside the gate,
  which the gate is written for, although today the engine serialises them.
- **TransientPath.** Here the epoch is a number because starts carry it; the
  clock counts units of which `Duration` make one transient. The gate's own
  races are in LightingRuntime.
- **NotificationChannel.** A handle is `<<slot, generation, order>>`; the order
  is history, the first two are the code's. `log`, `seen`, `delivered` and
  `overtaken` are history.
- **EngineRules.** A condition is the set of readings that satisfy it.
  `evaluation_` serialises evaluations, so a callback's evaluation is one action
  and a polled sample is a read followed by an evaluation.
- **ConfigStore.** NVS is external. It is modelled from how the adapter uses it
  and what its read-backs defend against: a set takes effect before its commit, a
  set may report success and be lost, a blob may be torn, and a call that reports
  a failure may have taken effect or not (`MarkerCall`; a value that NVS reports
  as written, with the removal of the old one left for its next initialisation,
  counts as written at once).
- **ConfigUpdate.** An upload is a sequence of blocks and its CRC is the upload
  itself, so CRC collisions are not modelled. `Canonical` maps uploads to stored
  documents; several uploads may share one, or serialize to something too large.
  Every write that changes nothing but the timers is `WriteRefused`.
- **ConfigModel, ConfigApply.** Numbers are counted in halves, so that a
  fraction exists. Paths and wording of diagnostics, string escapes and the
  `%.9g` text are left out; a number keeps the spelling class (whole, real,
  float) that decides how its token is read. NVS failures are an outcome here;
  what happens inside a save is ConfigStore's.
- **Companion.** One host-task event is one action; persisting a pairing and
  restoring its subscriptions are their own events (`HostFree`), and time may
  pass between two store writes. Timers are due at their deadline and fire at
  most `MaxLate` later. There is one central at a time; which bond is the oldest
  is left open; NimBLE calls the listeners in either order and puts its own
  store callback back on a host sync before the firmware's handler runs. A
  failing `ble_gap_terminate` is ignored as in the code, and a failed start of
  advertising is not retried. `DocumentLength` is a recursive sum, so it enters
  the proofs as the assumption that it is a natural number.
- **TelemetryLifecycle.** `start()`, `stop()`, drain, and the engine's
  `attach()` and `detach()` are split wherever another task can run. A call that
  the provider refuses changes nothing except that it may claim the lifecycle.
  The engine's calls from inside a callback are always refused and are not begun.
  `MaxRegistrations` acts like the provider's capacity refusal.
- **TelemetryPublication.** Bit positions and scaling are the unit tests'; which
  signal a payload code updates, invalidates or leaves is modelled. A frame may
  arrive up to `MaxDelay` after it was stamped. Whether the runtime, which is a
  submodule, resets the service once more as it starts is left open
  (`SendStartup`); if it does, the startup update no longer counts as sent.
- **Replay, Emulator.** `Runtime` publishes exactly once per grant; it is
  external and a comment of the code pins that. `process_source_fault` is a test
  seam. Record text, UTF-8, base64, SHA-1 and arguments are abstracted. The
  pacer's positions are whole microseconds as in the code: a re-anchor keeps the
  whole ones (`TimelineKept`) and drops the fraction played since the last.
  With `--signals`, records on the stream the pixels use are not written one by
  one: a failure of theirs shows at the next pixel write.

## 3. Runs

Each property of a passing run has a mutant, a plausible bug in the mapped code
(defined beside the definition it mutates), with which TLC finds it violated.
Some properties are conjunctions of named parts, given in parentheses; `TypeOK`
is a part of one property of each module that has several.

| Run | Shows |
| --- | --- |
| `lighting_gate` | two publishers inside the gate: `OffOrderHolds`, `StallStaysDark` |
| `lighting_live` | with a failing write: a confirmed restart means a black strip (`RestartConfirmedBlack`), dark until the first command (`DarkUntilFirstCommand`), `LastingStallGoesDark`, `RestartCompletes` |
| `engine` | the channel: `LatestStateReachesSubscriber`, `PendingNoticeTruthful`, `NoSlotStarves`; the rules through it: `LevelsFollowInputs` (`LevelFollowsSignal`, `SampledFollowsHysteresis`, `RangeFollowsLastRead`), `TriggerSpansNoGap` |
| `transient` | `AcceptedStartReachesRenderer`, `ActiveOnlyInItsEpoch`, `OneShotsPlayOnce` (`NoReplay`, `BoundedPlay`) under racing off orders and at the clock's edges |
| `config_update` | end to end: `StoresOnlyThisUpload`, `PromiseIsBooted`; the register `SelectionSpec` is implemented; `PendingRestartHappens`, `TransferEnds` |
| `companion` | `LinkTrustBounded`, `NothingOutlivesLink`, `BondStoreGuarded`, `FramesOnlyOnTrustedLink`, `StreamPaced` (`StreamArmed`, `RateCap`, `NoSignalStarves`) |
| `config_model` | `LoaderAcceptsSchema` against a schema written down once; `StoredMeansUploaded` (`CanonicalReloads`, `SavedOverrideLoads`), `DryRunSpeaksForBoot` (`OnlyCatalogOrCapacity`, `VouchedOverrideBoots`), `BoardRunsConfiguration` (`RunsWholeConfiguration`, `BindingsFitStrip`), `StripShowsLevels` (`CommandFollowsLevels`, `SolidOnlyOnOff`) |
| `telemetry_lifecycle` | `FacadeQuiescent` (`StoppedIsQuiescent`, `OneDispatcher`), `RegistryStableInDispatch`, `BookkeepingAgrees` (`TokenNamesItsRegistration`, `TrampolinesLive`, `EngineHoldsWhatItSubscribed`, `ConfigCopiesAgree`) |
| `telemetry_publication` | `ChannelsFollowState` (`SelectionLosesNothing`, `PollAgreesWithNotice`), `SinkHasEvidence` (`LitTurnHasEvidence`, `SinkFollowsReport`), `NoSilentGap` |
| `replay` | `ReplayIsTheSchedule` (`ScheduleFollowed`, `BudgetExact`), `ConsumersSeeOneReplay` (`ObserversSeeStartedReplay`, `StreamGrammar`, `StripDarkAtEnd`), `PlayerFaithful` (`NeverEarly`, `TimelineKept`, `CommandsKept`), `HostAndWorkerApart` (`HostReadsQuiescent`, `ConsumersLeaveQuietFacade`), `HostEnds` |
| `config_store_retain` | *violation*: see below |
| `config_update_idle` | *violation*: see below |

**Bounds**, and why they are enough:

- *lighting*: two publishers are the fewest that race each other as well as an
  off order; one failing write leaves a lit frame behind a command. The proofs
  lift both bounds.
- *engine*: the channel has its two slots as in the code; generations wrap at 2
  instead of 65535 so that the wrap happens; four publications allow a loss and
  a recovery to merge and be followed by another change; four inputs reach both
  hysteresis edges. The proofs lift all of them.
- *transient*: one binding triggered twice, two epochs and two durations reach
  every order of expiry, cancellation and re-publication; bindings interact only
  through the shared snapshot, and the proofs lift the bounds.
- *config_update*: two documents let one replace the other in the other slot, a
  third one does not apply; two NVS faults in one operation let a marker commit
  and its restoration fail (one is enough for the violation below). Uploads of one or two blocks are enough for a
  transfer to be incomplete, to leave bytes behind and to be overtaken by a
  shorter one. The proofs of the safety properties lift them.
- *companion*: six environments (`MCBudgets`), each with one difficulty and time
  for two window periods: pairing at a full store across two links, Clear bonds
  with an open window, a host reset with a pairing under way, the fixed stream
  with trust revoked, the extensible stream with more records than a packet
  takes, and page selection across a reset and a reconnect. The proofs lift the
  environments, the bonds and the times.
- *config_model*: every document one edit away from five documents that together
  use each rule and output type, where an edit replaces, drops, repeats or adds
  one value anywhere in the tree; budgets (`MaxElements` 70, `MaxStoredBytes`
  900, `MaxBytes` 1300) are shrunk so that some of those documents exceed each.
  Every edit meets an ordinary boot, every other firmware and stored document
  meets one document of each kind. Capacities are 1 or 2 so that they fill up.
- *telemetry_lifecycle*: two channels of two slots, an engine whose rules name
  one signal twice, three registrations (an attach that fails on its second
  signal beside another subscriber, or a slot reused twice), two runs (a restart
  that meets the dispatcher of a stop that timed out). The two configurations
  are interchangeable, so TLC treats them as symmetric.
- *telemetry_publication*: two frames of the right age put a signal through
  fresh, expired and recovered; the silence timeout falls after the shorter and
  at the longer freshness timeout.
- *replay*: schedules that fit the event budget of seven exactly, exceed it by
  one or are invalid; captures that go back in time, change bus or do not parse;
  browser scripts that pause, change the rate, restart, repeat a key or break
  the protocol, cut at every piece.

**Fairness.** Liveness assumes only that the RTOS keeps scheduling a task with
work, that time passes, that due timers fire and that NVS calls return. The
deadline of `fail_off_for_restart` is strongly fair (`RestartTimeout`): its loop
reads the clock on every turn. A driver call may hang for ever; only the
supervisor's reset is then assumed, which the driver watchdog gives. The
emulator's host thread and the replay worker keep running; the browser and the
wall clock owe nothing, so `HostEnds` is about a session that was asked to stop.
Nothing obliges a publisher to publish, a client to write, to stay silent or to
disconnect, or a stall to end. The other runs check safety only.

**Deadlock** is left unchecked where the bounds stop the system (`companion`,
`config_model`, `telemetry_lifecycle`, `telemetry_publication`) or where it
really ends (`replay`).

**Disagreements with the documentation.**

- `config_store_retain`: `config_store.hpp` asks implementations to keep the
  previous value when a replacement cannot be committed. One fault breaks this:
  when the call that moves the marker writes it and reports a failure, the write
  reports failure without restoring anything, and the new document is selected.
  A failed marker commit is restored, so there it takes a second fault, in the
  restoration. `FailureTheorem` shows that these calls, and their counterparts in
  a clear, are the only ones where a failed operation changes what is selected,
  and that it is then the document being written. The transfer specification
  does tell the client that the result is then uncertain.
- `config_update_idle`: `config-transfer.md` discards an open transfer when no
  Start or accepted Chunk arrives for 10 s. Every write that leaves it open
  re-arms the whole timer, although `last_activity` has not moved, so a transfer
  with one late refused write stays open for almost twice as long unless another
  write finds it expired. It ends all the same (`TransferEnds`).

**Noticed while modelling**, without a run of their own:

- `controller-config.md` disagrees with itself about an override that exceeds
  the fill slots: lines 190-193 have the firmware fail off without a factory
  fallback, lines 324-335 apply the factory document. The code does the latter,
  and so does `ConfigApply`.
- After an override fails to apply, the factory document runs with the
  override's `pixel_count`, so the active document that the companion reads back
  is neither the stored override nor the factory document, which
  `config_service.cpp:65` says it is.
- A valid upload that leaves out optional members can exceed the parser's
  element budget once it is spelled canonically; it is refused as a storage
  failure, not as an invalid document.
- A repeated pairing inside the window on an accepted link deletes the bond and
  keeps the link accepted until its next encryption change. After Clear bonds
  deleted some bonds and failed on another, pairing again on the same link
  leaves its streams unarmed until the next GAP event.
- The replay's fail-off write that fails while a Restart interrupts it still
  lets the `restart` record out; `StreamGrammar` says so (`sink.good`).
- Where the profile service (not modelled) gives up on its dispatcher in
  `stop()`, a dispatcher that ends later leaves every following `stop()` waiting
  for it.

## 4. Proofs

TLAPS checks every theorem from the constants' `ASSUME`s alone: for any number
of publishers, slots, bindings, documents, centrals, channels or threads, any
bound and any number of faults. The assumptions are those of the modules
(`LifecycleAssumption`, `CompanionAssumption`, ...): finite sets where the code
has arrays, natural numbers for counts, times and the times of capture rows,
special values that are no ordinary ones, frames that carry every signal of a
one-bit payload; TLC evaluates each in a run. One theorem has a hypothesis of its
own: `BookkeepingHolds` is about behaviours that make no more registrations than
a slot has generations (`NoWrap`; 65535 in the code, a `uint16_t` that skips 0).
It is needed: past it a subscriber's stale token may equal a live one of the
engine's and remove it (with one generation TLC finds that in eight steps).
`TokensAndTrampolines`, what holds without it, has no hypothesis.

None of the properties is inductive: each is about a moment at which several
parties have finished something. Each proof module states the inductive
invariant, shows that `Init` and every action establish it, one step per action
and one per conjunct below it, and derives the property.

| Module | Inductive invariant | What its parts add | Proved |
| --- | --- | --- | --- |
| `LightingRuntimeProofs` | `IInv` | `FlightInv`: `in_flight_` counts exactly the publishers inside `publish`; `RaceInv`: a lit newest command behind an off order belongs to a publisher that has yet to compare epochs and send its black; `StallInv`, `ShutInv`: the gate stays closed and nobody is about to send with a current epoch; `RenderInv`: `last_written_` is what the strip shows unless the driver hangs; `BlackInv`, `ConfirmInv`: what each of the three separate loads of the restart's wait loop has established | `OffOrderHolds`, `StallStaysDark`, `RestartConfirmedBlack`, `DarkUntilFirstCommand`, the drain |
| `EngineRulesProofs` | channel: `TypeOK`, `NoticeInv`, `WaitInv`, `OrderInv` | how far the notice of a slot has read the log; how many registrations may still be served before a waiting one | `LatestStateReachesSubscriber`, `PendingNoticeTruthful`, `NoSlotStarves`, quiescence, handles |
| | engine: the channel's and `HandleKept`, `SampleInv`, `LevelInv`, `EdgeInv`, `TriggerInv` | when the level may lag behind the signal; how far an event rule's baseline has read the log | `LevelsFollowInputs`, `TriggerSpansNoGap`, and that the engine uses the channel only through its operations, so the channel's theorems hold around it |
| `TransientPathProofs` | `SenderOK`, `WorkerOK`, `ChainInv`, `PlayInv`, `EpochInv`, `CarryInv` | sequence numbers only grow along the path; what still stands between a layer of an earlier epoch and the strip; where the newest start is | `AcceptedStartReachesRenderer`, `ActiveOnlyInItsEpoch`, `OneShotsPlayOnce` |
| `ConfigUpdateProofs` | store: `IInv` | for every NVS call which slot the marker may name and what it holds (`WriteInv`, `ClearInv`); the slot a restoration would select stays complete (`OldSlotComplete`); a marker that is not the old one during a restoration has cost a fault, two once it was tried (`RestoreInv`) | atomicity, completeness, success, `FailureExplained`; `StoreRefinesSelection` |
| | update: `UInv` | which upload a waiting commit wrote (`CommitInv`), that the transfer received its own blocks (`TransferInv`), that slots hold what applies (`ContentInv`), when a promise may be out (`PromiseInv`) | `StoresOnlyThisUpload`, `PromiseIsBooted`; `UpdateRefinesStore`, `UpdateRefinesSelection` (`SelectionSpec`) |
| `CompanionProofs` | `PolicyInv` | the window is one a key press opened (`WindowInv`); what NimBLE's pairing phase says of the store (`KeysInv`) and of encryption (`HostInv`, `TrustedLinkHasBond`); half-deleted bonds are told apart (`OrphanInv`) and fit (`RoomInv`); the timer that will end an untrusted link and how late it can be (`DropInv`) | `LinkTrustBounded`, `BondStoreGuarded` |
| | `StreamInv` | selectors and streams follow NimBLE's link (`SelectorInv`, `SinkInv`); a stream that may send has its timer armed (`ArmInv`); the last frame is never later than the last sample (`RateInv`) | `NothingOutlivesLink`, `FramesOnlyOnTrustedLink`, `StreamArmed` and `RateCap` |
| `TelemetryLifecycleProofs` | `ControlInv` | a callback runs under its marker (`MarkerInv`); one dispatcher lives and has not reported done (`TaskInv`); a worker in sight never reports "Stopped" (`WorkerInv`); what each step of `start()` and `stop()` may still find (`StepInv`) | `FacadeQuiescent`, `RegistryStableInDispatch` |
| | `BookInv`, `LiveInv`, `FlowInv` | live registrations and channel slots in use pair off (`HandleInv`), and so do live generic registrations and records (`ContextInv`, `RecordInv`); how far a slot's generation has gone since a token was issued (`TokenInv`); a thread with part of its rules registered owns a stopped facade, so nobody can make the provider refuse its next call (`FlowInv`) | `TokenNamesItsRegistration`, `TrampolinesLive`, `BookkeepingAgrees` |
| `TelemetryPublicationProofs` | `PubInv` | up to when expiry was served, between processing a frame and reporting it (`ServedUpTo`, `DueInv`); which channels may lag behind the state (`ChanInv`); what is still announced as fresh was so when the frame came in (`GapInv`); the store is behind only while `processing_state_changed_` says so (`StoreInv`); a turn in the sink ends with a sample and a run that gave it (`EvidenceInv`, `SeenInv`) and a refused update is remembered (`LightInv`) | `ChannelsFollowState`, `SinkHasEvidence`, `NoSilentGap` |
| `EmulatorProofs` | `EmuInv` | between steps the worker is parked, within one its only grant is at the gate, in the worker or at the barrier (`HandInv`); observers get readings after a catalog and a catalog only from a controller that began (`ObsInv`), and a failure is remembered until the status is set (`StatusInv`); at every step which records the stream may hold, and that a strip the controller believes dark is dark on the wire (`WireInv`); replay time granted so far, and what the pacer would grant from its anchor on, is paid for by wall time at the rate in force, and the anchor is never ahead of the wall clock (`PaceInv`; with it every re-anchor keeps the player's place, `ReanchorKeepsPlace`); header, body and close of a frame stay together across buffer and network, and the commands in them are those still owed (`ChanInv`) | `HostAndWorkerApart`, `ConsumersSeeOneReplay`, `PlayerFaithful` |
| | `SchedInv`, with `EmuInv` | the plan is one that `validate()` let through (`ValidInv`), so it is sorted and its generated calls, counted cadence by cadence (`BudgetIsDemand`), fit; at each program point the place in the order of the calls, with the calls before it recorded, every deadline at the next call of its cadence and `next_frame_` at the next frame, which a grant on its way may have moved by one (`TraceInv`) | `ReplayIsTheSchedule` |

**Refinement.** `ConfigSelection` is a register that an operation replaces at
once or not at all; only a failed operation leaves open which. `ConfigStore` implements it through every NVS fault and
power loss, `ConfigUpdate` implements `ConfigStore` (every transfer, timer,
restart and boot step is a store step or leaves the store alone) and so the
register. What is proved of the store and of the channel is inherited that way.

**Only model-checked.**

- Liveness (`LastingStallGoesDark`, `RestartCompletes`, `PendingRestartHappens`,
  `TransferEnds`, `HostEnds`): fairness and `ENABLED` are out of the prover's
  reach.
- `ConfigModel` and `ConfigApply`: the loader, validation and application are
  recursive over documents; what a recursive definition computes needs
  induction over data.
- `NoSignalStarves` (the pacing cursor folds over the catalog) and the record
  layout of the streams, for the same reason.

## 5. Not modelled

- *Vehicle profile runtime*: an alternative to the Mazda telemetry service that
  the firmware of this board links only as an optional probe; the channel it
  owns is `NotificationChannel`.
- *Pixels, zones, colours, animations*: a frame is lit or black; which bindings
  are lit at which priority is in `ConfigApply`.
- *Watchdog timing*: resets and stalls may happen at any legal time, so nothing
  is said of how long a stall may last before it is noticed.
- *Signal decoding bits and scaling*, number formats, UTF-8: pure functions with
  byte-exact tests.
- *Compiled-in lighting profiles*: used by the replay tool's LED stage and host
  tests.
- *Paged read-back of the active document, status notifications*: reads without
  an effect on the transfer.
- *GPIO, CAN driver configuration, loggers, code generation, host tools*: I/O.

## 6. Next

The vehicle profile runtime, whose service is a second owner of the channel:
its extraction rules, its notifications and its part in the telemetry
interface.
