---------------------------- MODULE TransientPath ----------------------------
(***************************************************************************)
(* One-shot transients from Trigger to strip: LedActionSink::execute with  *)
(* its TransientBindings, the gate's cancellation epoch, the length-one    *)
(* overwrite queue, and the renderer's TransientLayers. LightingRuntime    *)
(* has the gate's own races; here the epoch is a number, because starts    *)
(* carry it, and one publisher (evaluation_ serialises the engine) runs.   *)
(***************************************************************************)
EXTENDS Naturals, FiniteSets

CONSTANTS
    Ids,            \* bound transients, by renderer identity
    Duration,       \* LightingTransient::duration_us, in clock units
    MaxTime,        \* bound: clock
    MaxEpoch,       \* bound: epoch_ increments
    MaxSequence,    \* bound: triggers of one binding
    MaxFaults       \* bound: failed driver writes

ASSUME DurationAssumption == Duration \in Nat \ {0}
ASSUME TimeBoundsAssumption ==
    MaxTime \in Nat /\ MaxEpoch \in Nat /\ MaxSequence \in Nat /\ MaxFaults \in Nat

VARIABLES
    now,        \* the monotonic clock
    gateOpen,   \* StallGatedSink::state_ == Open
    epoch,      \* StallGatedSink::epoch_
    binding,    \* TransientBindings: sequence, origin, epoch, retained per id
    held,       \* some level effect or fill is lit
    pc,         \* the engine task inside execute()
    command,    \* the snapshot it publishes
    sentEpoch,  \* the epoch StallGatedSink::publish read on entry
    queue,      \* the one-item queue: no command or one
    wpc,        \* the worker's pass
    taken,      \* g_worker_command
    shown,      \* RendererController::command_.actionable
    timing,     \* TransientLayers::timing_: seq, started, active per id
    seenEpoch,  \* RendererController::transient_epoch_
    faulted, blackWritten, faults,
    spc,        \* the supervisor inside ProgressFailOff::apply
    fpc,        \* the task inside local_argb::fail_off()
    origin,     \* history: trigger time and epoch of the start in timing
    played,     \* history: <<id, sequence>> of every start that became active
    overridden  \* history: the last command queued was an off order's black

gateVars == <<gateOpen, epoch, spc, fpc>>
publisherVars == <<binding, held, pc, command, sentEpoch>>
workerVars == <<wpc, taken, shown, timing, seenEpoch, faulted, blackWritten, faults, origin,
                played>>
vars == <<now, gateVars, publisherVars, queue, workerVars, overridden>>

None == [seq |-> 0, at |-> 0, epoch |-> 0]
Black == [starts |-> [i \in Ids |-> None], actionable |-> FALSE]

Starts == [seq : 0..MaxSequence, at : 0..MaxTime, epoch : 0..MaxEpoch]
Commands == [starts : [Ids -> Starts], actionable : BOOLEAN]

TypeOK ==
    /\ now \in 0..MaxTime /\ epoch \in 0..MaxEpoch /\ gateOpen \in BOOLEAN
    /\ binding \in [Ids -> [seq : 0..MaxSequence, at : 0..MaxTime, epoch : 0..MaxEpoch,
                            retained : BOOLEAN]]
    /\ held \in BOOLEAN
    /\ pc \in {"idle", "enter", "check", "send", "recheck", "compare", "black", "rejected"}
    /\ command \in Commands /\ sentEpoch \in 0..MaxEpoch
    /\ queue \subseteq Commands /\ Cardinality(queue) <= 1
    /\ wpc \in {"receive", "apply", "fault"}
    /\ taken \in Commands /\ shown \in BOOLEAN
    /\ timing \in [Ids -> [seq : 0..MaxSequence, started : 0..MaxTime, active : BOOLEAN]]
    /\ seenEpoch \in 0..MaxEpoch
    /\ faulted \in BOOLEAN /\ blackWritten \in BOOLEAN /\ faults \in 0..MaxFaults
    /\ spc \in {"idle", "closeEpoch", "closeBlack", "stalled", "openState"}
    /\ fpc \in {"idle", "black"}
    /\ origin \in [Ids -> Starts]
    /\ played \subseteq Ids \X (1..MaxSequence)
    /\ overridden \in BOOLEAN

Init ==
    /\ now = 0 /\ gateOpen = TRUE /\ epoch = 0
    /\ binding = [i \in Ids |-> [seq |-> 0, at |-> 0, epoch |-> 0, retained |-> FALSE]]
    /\ held = FALSE /\ pc = "idle" /\ command = Black /\ sentEpoch = 0
    /\ queue = {}
    /\ wpc = "receive" /\ taken = Black /\ shown = FALSE
    /\ timing = [i \in Ids |-> [seq |-> 0, started |-> 0, active |-> FALSE]]
    /\ seenEpoch = 0 /\ faulted = FALSE /\ blackWritten = TRUE /\ faults = 0
    /\ spc = "idle" /\ fpc = "idle" /\ origin = [i \in Ids |-> None] /\ played = {}
    /\ overridden = FALSE

ClockTick ==
    /\ now < MaxTime
    /\ now' = now + 1
    /\ UNCHANGED <<overridden, gateVars, publisherVars, queue, workerVars>>

-----------------------------------------------------------------------------
(* LedActionSink::execute on the engine task.                               *)

\* held_command with TransientBindings::latest(e): every retained start of the
\* epoch read by execute() rides in every snapshot.
HeldCommand(b, lit, e) ==
    LET starts == [i \in Ids |-> IF b[i].retained /\ b[i].epoch = e
                                 THEN [seq |-> b[i].seq, at |-> b[i].at, epoch |-> b[i].epoch]
                                 ELSE None]
    IN  [starts |-> starts, actionable |-> lit \/ \E i \in Ids : starts[i] # None]

\* Trigger: TransientBindings::trigger of the bindings of one action.
ExecuteTrigger ==
    /\ pc = "idle"
    /\ \E i \in Ids :
          /\ binding[i].seq < MaxSequence
          /\ binding' = [binding EXCEPT ![i] = [seq |-> @.seq + 1, at |-> now, epoch |-> epoch,
                                                retained |-> TRUE]]
    /\ command' = HeldCommand(binding', held, epoch)
    /\ pc' = "enter"
    /\ UNCHANGED <<overridden, now, gateVars, held, sentEpoch, queue, workerVars>>

\* Mutant of ExecuteLevel: a held update carries no transient starts.
ExecuteLevelWithoutStarts ==
    /\ pc = "idle"
    /\ held' \in BOOLEAN
    /\ command' = [Black EXCEPT !.actionable = held']
    /\ pc' = "enter"
    /\ UNCHANGED <<overridden, now, gateVars, binding, sentEpoch, queue, workerVars>>

\* Activate, Deactivate or SetLevel of a bound effect or fill.
ExecuteLevel ==
    /\ pc = "idle"
    /\ held' \in BOOLEAN
    /\ command' = HeldCommand(binding, held', epoch)
    /\ pc' = "enter"
    /\ UNCHANGED <<overridden, now, gateVars, binding, sentEpoch, queue, workerVars>>

\* StallGatedSink::publish, as in LightingRuntime.
EnterGate ==
    /\ pc = "enter"
    /\ sentEpoch' = epoch
    /\ pc' = "check"
    /\ UNCHANGED <<overridden, now, gateVars, binding, held, command, queue, workerVars>>

CheckGate ==
    /\ pc = "check"
    /\ pc' = IF gateOpen THEN "send" ELSE "rejected"
    /\ UNCHANGED <<overridden, now, gateVars, binding, held, command, sentEpoch, queue, workerVars>>

SendCommand ==
    /\ pc = "send"
    /\ queue' = {command}
    /\ overridden' = FALSE
    /\ pc' = "recheck"
    /\ UNCHANGED <<now, gateVars, binding, held, command, sentEpoch, workerVars>>

RecheckGate ==
    /\ pc = "recheck"
    /\ pc' = IF gateOpen THEN "compare" ELSE "black"
    /\ UNCHANGED <<overridden, now, gateVars, binding, held, command, sentEpoch, queue, workerVars>>

CompareEpoch ==
    /\ pc = "compare"
    /\ IF epoch = sentEpoch
       THEN pc' = "idle" /\ command' = Black /\ sentEpoch' = 0
       ELSE pc' = "black" /\ UNCHANGED <<command, sentEpoch>>
    /\ UNCHANGED <<overridden, now, gateVars, binding, held, queue, workerVars>>

TrailingBlack ==
    /\ pc = "black"
    /\ queue' = {Black}
    /\ pc' = "rejected"
    /\ UNCHANGED <<overridden, now, gateVars, binding, held, command, sentEpoch, workerVars>>

\* A rejected publish retires every start: transients_.discard_starts(). The
\* origin and epoch of a start that is not retained are never read again.
DiscardStarts ==
    /\ pc = "rejected"
    /\ binding' = [i \in Ids |-> [seq |-> binding[i].seq, at |-> 0, epoch |-> 0,
                                 retained |-> FALSE]]
    /\ pc' = "idle" /\ command' = Black /\ sentEpoch' = 0
    /\ UNCHANGED <<overridden, now, gateVars, held, queue, workerVars>>

-----------------------------------------------------------------------------
(* Off orders: fail_off(), and the supervisor's close and open.             *)

OffOther == <<now, publisherVars, workerVars>>

FailOffEpoch ==
    /\ fpc = "idle" /\ epoch < MaxEpoch
    /\ epoch' = epoch + 1
    /\ fpc' = "black"
    /\ UNCHANGED <<overridden, OffOther, gateOpen, spc, queue>>

FailOffBlack ==
    /\ fpc = "black"
    /\ queue' = {Black}
    /\ overridden' = TRUE
    /\ fpc' = "idle"
    /\ UNCHANGED <<OffOther, gateOpen, epoch, spc>>

CloseGate ==
    /\ spc = "idle" /\ epoch + 1 < MaxEpoch
    /\ gateOpen' = FALSE
    /\ spc' = "closeEpoch"
    /\ UNCHANGED <<overridden, OffOther, epoch, fpc, queue>>

CloseEpoch ==
    /\ spc = "closeEpoch" /\ epoch < MaxEpoch
    /\ epoch' = epoch + 1
    /\ spc' = "closeBlack"
    /\ UNCHANGED <<overridden, OffOther, gateOpen, fpc, queue>>

CloseBlack ==
    /\ spc = "closeBlack"
    /\ queue' = {Black}
    /\ overridden' = TRUE
    /\ spc' = "stalled"
    /\ UNCHANGED <<OffOther, gateOpen, epoch, fpc>>

OpenEpoch ==
    /\ spc = "stalled" /\ epoch < MaxEpoch
    /\ epoch' = epoch + 1
    /\ spc' = "openState"
    /\ UNCHANGED <<overridden, OffOther, gateOpen, fpc, queue>>

OpenGate ==
    /\ spc = "openState"
    /\ gateOpen' = TRUE
    /\ spc' = "idle"
    /\ UNCHANGED <<overridden, OffOther, epoch, fpc, queue>>

-----------------------------------------------------------------------------
(* The worker: receive, then RendererController::apply or tick.             *)

Receive ==
    /\ wpc = "receive"
    /\ taken' \in queue
    /\ queue' = {}
    /\ wpc' = "apply"
    /\ UNCHANGED <<overridden, now, gateVars, publisherVars, shown, timing, seenEpoch, faulted,
                   blackWritten, faults, origin, played>>

\* Mutant of Admitted: without the epoch.
AdmittedAnyEpoch(start, e) == now >= start.at /\ now - start.at < Duration
\* The admission window of a start: not in the future, younger than Duration,
\* and of the current epoch.
Admitted(start, e) == start.epoch = e /\ now >= start.at /\ now - start.at < Duration

\* TransientLayers::cancel. started is only read while active.
IdleLayer(layer) == [seq |-> layer.seq, started |-> 0, active |-> FALSE]
Cancel(layers) == [i \in Ids |-> IdleLayer(layers[i])]

\* Mutant of Layer: a known sequence starts again.
LayerReplayed(start, e, base) ==
    IF start = None THEN IdleLayer(base)
    ELSE IF Admitted(start, e) THEN [seq |-> start.seq, started |-> now, active |-> TRUE]
    ELSE [seq |-> start.seq, started |-> 0, active |-> FALSE]

\* TransientLayers::apply of one id: an absent start deactivates, a known
\* sequence is left alone, a new one is recorded and starts if admitted.
Layer(start, e, base) ==
    IF start = None THEN IdleLayer(base)
    ELSE IF base.seq = start.seq THEN base
    ELSE IF Admitted(start, e) THEN [seq |-> start.seq, started |-> now, active |-> TRUE]
    ELSE [seq |-> start.seq, started |-> 0, active |-> FALSE]

\* TransientLayers::expire.
Expire(layers) ==
    [i \in Ids |-> IF now - layers[i].started < Duration THEN layers[i] ELSE IdleLayer(layers[i])]

\* RendererController::tick on layers with a command, and write_desired: a
\* failed write faults the renderer, cancels and tries black.
TickAndWrite(layers, actionable, isFaulted) ==
    LET kept == Expire(IF isFaulted \/ ~actionable THEN Cancel(layers) ELSE layers)
    IN  \/ /\ timing' = kept
           /\ faulted' = isFaulted
           /\ blackWritten' \in {isFaulted \/ ~actionable, TRUE}
           /\ UNCHANGED faults
        \/ /\ faults < MaxFaults
           /\ ~blackWritten \/ (actionable /\ ~isFaulted)
           /\ faults' = faults + 1
           /\ timing' = Cancel(kept)
           /\ faulted' = TRUE
           /\ blackWritten' \in {actionable /\ ~isFaulted, FALSE}

Apply ==
    /\ wpc = "apply"
    /\ LET base == IF epoch # seenEpoch THEN Cancel(timing) ELSE timing
           layers == [i \in Ids |-> Layer(taken.starts[i], epoch, base[i])]
           started == {i \in Ids : taken.starts[i] # None /\ base[i].seq # taken.starts[i].seq}
       IN  /\ TickAndWrite(layers, taken.actionable, faulted /\ ~blackWritten)
           /\ origin' = [i \in Ids |-> IF ~timing'[i].active THEN None
                                       ELSE IF i \in started THEN taken.starts[i] ELSE origin[i]]
           /\ played' = played \cup
                          {<<i, layers[i].seq>> : i \in {j \in started : layers[j].active}}
    /\ seenEpoch' = epoch
    /\ shown' = taken.actionable
    /\ taken' = Black
    /\ wpc' = "fault"
    /\ UNCHANGED <<overridden, now, gateVars, publisherVars, queue>>

TickPass ==
    /\ wpc = "receive" /\ queue = {}
    /\ TickAndWrite(timing, shown, faulted)
    /\ origin' = [i \in Ids |-> IF timing'[i].active THEN origin[i] ELSE None]
    /\ wpc' = "fault"
    /\ UNCHANGED <<overridden, now, gateVars, publisherVars, queue, taken, shown, seenEpoch,
                   played>>

\* RendererRuntime::invalidate_if_faulted ends the pass.
EndPass ==
    /\ wpc = "fault"
    /\ faulted => epoch < MaxEpoch
    /\ epoch' = IF faulted THEN epoch + 1 ELSE epoch
    /\ wpc' = "receive"
    /\ UNCHANGED <<overridden, now, gateOpen, spc, fpc, publisherVars, queue, taken, shown, timing,
                   seenEpoch, faulted, blackWritten, faults, origin, played>>

Next ==
    \/ ClockTick
    \/ ExecuteTrigger \/ ExecuteLevel \/ EnterGate \/ CheckGate \/ SendCommand \/ RecheckGate
    \/ CompareEpoch \/ TrailingBlack \/ DiscardStarts
    \/ FailOffEpoch \/ FailOffBlack
    \/ CloseGate \/ CloseEpoch \/ CloseBlack \/ OpenEpoch \/ OpenGate
    \/ Receive \/ Apply \/ TickPass \/ EndPass

Spec == Init /\ [][Next]_vars

-----------------------------------------------------------------------------
(* Correctness.                                                             *)

\* Nothing is in transit between the engine task and the renderer.
Settled == pc = "idle" /\ queue = {} /\ wpc = "receive" /\ fpc = "idle"
           /\ spc \in {"idle", "stalled"}

\* An accepted trigger is never lost behind a later held update in the
\* one-item queue: once settled, and unless an off order's black came last, the
\* renderer has taken up the newest start of every binding of the current epoch.
AcceptedStartReachesRenderer ==
    Settled /\ ~overridden => \A i \in Ids :
        binding[i].retained /\ binding[i].epoch = epoch => timing[i].seq = binding[i].seq

\* No start plays across a cancellation: once settled, an active transient was
\* triggered in the current epoch, so no fail-off, stall or driver fault lies
\* between its trigger and now.
ActiveOnlyInItsEpoch ==
    Settled => \A i \in Ids : timing[i].active => origin[i].epoch = epoch

\* A one-shot plays once: no step starts, or starts over, a sequence that already played, after
\* expiry, cancellation, a fault or a re-published snapshot.
NoReplay ==
    [][\A i \in Ids :
          (timing'[i].active /\ (~timing[i].active \/ timing'[i] # timing[i]))
             => <<i, timing'[i].seq>> \notin played]_vars

\* A transient cannot hold a zone: when a pass ends, what is still drawn was
\* triggered less than two durations before that pass's clock reading.
BoundedPlay ==
    [][\A i \in Ids : wpc # "fault" /\ wpc' = "fault" /\ timing'[i].active =>
          now - origin'[i].at < 2 * Duration]_vars

\* A one-shot plays once, for a bounded time.
OneShotsPlayOnce == NoReplay /\ BoundedPlay

=============================================================================
