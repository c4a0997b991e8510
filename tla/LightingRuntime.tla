--------------------------- MODULE LightingRuntime ---------------------------
(***************************************************************************)
(* The lighting output path of components/local_argb: publishers, the      *)
(* StallGatedSink, the length-one overwrite queue, the renderer worker,    *)
(* the supervisor's progress fail-off, the explicit fail_off(), and        *)
(* fail_off_for_restart() followed by esp_restart().                       *)
(*                                                                         *)
(* One action is one atomic access to shared state (a std::atomic, the     *)
(* FreeRTOS queue, or the LED driver); each task has its own pc.           *)
(*                                                                         *)
(* Two wrapping counters of the code are only ever compared with a value   *)
(* read earlier, so each is kept as "has it moved since": same[p] is       *)
(* "epoch_ still equals what publisher p read" and passed is               *)
(* "g_worker_passes differs from what fail_off_for_restart() read".        *)
(* A command or a frame is Lit or Black: LightingCommand{} is Black.       *)
(***************************************************************************)
EXTENDS Naturals

CONSTANTS
    Publishers,   \* tasks that may be inside StallGatedSink::publish
    Calls,        \* which of the calls "fail_off", "restart" other tasks make
    MaxFaults     \* bound: LED driver writes that report failure, per boot

ASSUME CallsAssumption == Calls \subseteq {"fail_off", "restart"}
ASSUME MaxFaultsAssumption == MaxFaults \in Nat

Frames   == {"Lit", "Black"}
StartupAttempts == 3   \* controller.start() and two retries

VARIABLES
    phase,        \* local_argb::start(): "boot", "cleared", "created", "up", "refused"
    attempts,     \* startup black writes that failed
    gate,         \* StallGatedSink::state_
    inFlight,     \* StallGatedSink::in_flight_, as the set of counted publishers
    same,         \* same[p]: epoch_ has not moved since p read it
    pc,           \* where publisher p is inside publish()
    cmd,          \* the command p publishes
    queue,        \* the length-one overwrite queue, or "Empty"
    spc,          \* the supervisor inside ProgressFailOff::apply
    fpc,          \* the task inside local_argb::fail_off()
    rpc,          \* the task inside fail_off_for_restart()
    passed,       \* a worker pass was counted since rpc sampled the count
    wpc,          \* the worker's pass
    held,         \* RendererController::command_, "None" before the first one
    desired,      \* RendererController::desired_
    lastWritten,  \* last_written_, "None" when has_last_written_ is false
    faulted,      \* RendererController::faulted_
    workerBlack,  \* g_worker_black
    faults,       \* failed writes so far, against MaxFaults
    strip,        \* what the physical strip shows; survives a restart
    order         \* history: "off" once an off order's black was queued and no
                  \* publication of a newer epoch followed it

gateVars   == <<gate, inFlight, same, pc, cmd>>
rendererVars == <<wpc, held, desired, lastWritten, faulted, workerBlack, faults>>
bootVars   == <<phase, attempts>>
vars == <<phase, attempts, gate, inFlight, same, pc, cmd, queue, spc, fpc, rpc, passed, wpc,
          held, desired, lastWritten, faulted, workerBlack, faults, strip, order>>

TypeOK ==
    /\ phase \in {"boot", "cleared", "created", "up", "refused"}
    /\ attempts \in 0..StartupAttempts
    /\ gate \in {"Open", "Closed", "Shut"}
    /\ inFlight \subseteq Publishers
    /\ same \in [Publishers -> BOOLEAN]
    /\ pc \in [Publishers -> {"idle", "epoch", "check", "send", "recheck", "compare", "black",
                              "leave"}]
    /\ cmd \in [Publishers -> Frames]
    /\ queue \in Frames \cup {"Empty"}
    /\ spc \in {"idle", "closeEpoch", "closeBlack", "stalled", "openState"}
    /\ fpc \in {"idle", "black"}
    /\ rpc \in {"idle", "shut", "shutEpoch", "drain", "sample", "publish", "waitPass",
                "waitQueue", "waitBlack", "confirmed", "unconfirmed"}
    /\ passed \in BOOLEAN
    /\ wpc \in {"off", "receive", "write", "clear", "hung", "fault", "store", "count"}
    /\ held \in Frames \cup {"None"}
    /\ desired \in Frames
    /\ lastWritten \in Frames \cup {"None"}
    /\ faulted \in BOOLEAN
    /\ workerBlack \in BOOLEAN
    /\ faults \in 0..MaxFaults
    /\ strip \in Frames
    /\ order \in {"none", "off"}

\* Static storage at power-on. A WS2812 strip keeps its last colour, so it may
\* be lit.
Init ==
    /\ phase = "boot" /\ attempts = 0
    /\ gate = "Open" /\ inFlight = {}
    /\ same = [p \in Publishers |-> FALSE]
    /\ pc = [p \in Publishers |-> "idle"]
    /\ cmd = [p \in Publishers |-> "Black"]
    /\ queue = "Empty"
    /\ spc = "idle" /\ fpc = "idle" /\ rpc = "idle" /\ passed = FALSE
    /\ wpc = "off" /\ held = "None" /\ desired = "Black" /\ lastWritten = "None"
    /\ faulted = FALSE /\ workerBlack = FALSE /\ faults = 0
    /\ strip \in Frames /\ order = "none"

\* esp_restart(): every task and all static storage start over; the strip
\* keeps what it shows.
Reboot ==
    /\ phase' = "boot" /\ attempts' = 0
    /\ gate' = "Open" /\ inFlight' = {}
    /\ same' = [p \in Publishers |-> FALSE]
    /\ pc' = [p \in Publishers |-> "idle"]
    /\ cmd' = [p \in Publishers |-> "Black"]
    /\ queue' = "Empty"
    /\ spc' = "idle" /\ fpc' = "idle" /\ rpc' = "idle" /\ passed' = FALSE
    /\ wpc' = "off" /\ held' = "None" /\ desired' = "Black" /\ lastWritten' = "None"
    /\ faulted' = FALSE /\ workerBlack' = FALSE /\ faults' = 0
    /\ strip' = strip /\ order' = "none"

Started == phase = "up"

\* StallGatedSink::invalidate_transients: ++epoch_.
Invalidate == same' = [p \in Publishers |-> FALSE]

\* RendererController::tick: what may be drawn from command c. A lit command
\* also draws black frames (dark animation steps, an expired deadline).
Drawable(c, isFaulted) == IF c = "Lit" /\ ~isFaulted THEN Frames ELSE {"Black"}

-----------------------------------------------------------------------------
(* local_argb::start on the startup task.                                   *)

\* The supervisor task or an LED device could not be created.
StartRefused ==
    /\ phase = "boot" /\ attempts = 0
    /\ phase' = "refused"
    /\ UNCHANGED <<attempts, gateVars, queue, spc, fpc, rpc, passed, rendererVars, strip, order>>

\* Mutant of StartupBlack: a failed write is taken for success.
StartupBlackUnchecked ==
    /\ phase = "boot" /\ attempts < StartupAttempts
    /\ \/ /\ strip' = "Black" /\ lastWritten' = "Black" /\ phase' = "cleared"
          /\ UNCHANGED <<attempts, faulted, faults>>
       \/ /\ faults < MaxFaults
          /\ strip' \in {strip, "Black"}
          /\ attempts' = attempts + 1
          /\ faults' = faults + 1
          /\ faulted' = TRUE
          /\ lastWritten' = "None"
          /\ phase' = "cleared"
    /\ UNCHANGED <<gateVars, queue, spc, fpc, rpc, passed, wpc, held, desired, workerBlack, order>>

\* RendererController::start, then tick() as the retry: write startup black.
StartupBlack ==
    /\ phase = "boot" /\ attempts < StartupAttempts
    /\ \/ /\ strip' = "Black" /\ lastWritten' = "Black" /\ phase' = "cleared"
          /\ UNCHANGED <<attempts, faulted, faults>>
       \/ /\ faults < MaxFaults
          /\ strip' \in {strip, "Black"}
          /\ attempts' = attempts + 1
          /\ faults' = faults + 1
          /\ faulted' = TRUE
          /\ lastWritten' = "None"
          /\ phase' = IF attempts + 1 = StartupAttempts THEN "refused" ELSE phase
    /\ UNCHANGED <<gateVars, queue, spc, fpc, rpc, passed, wpc, held, desired, workerBlack, order>>

\* The worker task exists and runs before g_started is set.
CreateWorker ==
    /\ phase = "cleared"
    /\ \/ phase' = "created" /\ wpc' = "receive"
       \/ phase' = "refused" /\ wpc' = wpc
    /\ UNCHANGED <<attempts, gateVars, queue, spc, fpc, rpc, passed, held, desired, lastWritten,
                   faulted, workerBlack, faults, strip, order>>

FinishStart ==
    /\ phase = "created"
    /\ phase' = "up"
    /\ UNCHANGED <<attempts, gateVars, queue, spc, fpc, rpc, passed, rendererVars, strip, order>>

-----------------------------------------------------------------------------
(* StallGatedSink::publish by publisher p.                                  *)

Goto(p, label) == pc' = [pc EXCEPT ![p] = label]

PublishOther == <<bootVars, gate, spc, fpc, rpc, passed, rendererVars, strip>>

\* InFlight's constructor. A publisher runs only after start() returned true.
Enter(p) ==
    /\ Started /\ pc[p] = "idle"
    /\ inFlight' = inFlight \cup {p}
    /\ \E c \in Frames : cmd' = [cmd EXCEPT ![p] = c]
    /\ Goto(p, "epoch")
    /\ UNCHANGED <<PublishOther, same, queue, order>>

ReadEpoch(p) ==
    /\ pc[p] = "epoch"
    /\ same' = [same EXCEPT ![p] = TRUE]
    /\ Goto(p, "check")
    /\ UNCHANGED <<PublishOther, inFlight, cmd, queue, order>>

CheckOpen(p) ==
    /\ pc[p] = "check"
    /\ Goto(p, IF gate = "Open" THEN "send" ELSE "leave")
    /\ UNCHANGED <<PublishOther, inFlight, same, cmd, queue, order>>

\* downstream_->publish(command): xQueueOverwrite.
Send(p) ==
    /\ pc[p] = "send"
    /\ queue' = cmd[p]
    /\ order' = IF same[p] THEN "none" ELSE order
    /\ Goto(p, "recheck")
    /\ UNCHANGED <<PublishOther, inFlight, same, cmd>>

\* Mutant of RecheckOpen: the gate is not checked again after the send.
RecheckSkipped(p) ==
    /\ pc[p] = "recheck"
    /\ Goto(p, "leave")
    /\ UNCHANGED <<PublishOther, inFlight, same, cmd, queue, order>>

RecheckOpen(p) ==
    /\ pc[p] = "recheck"
    /\ Goto(p, IF gate = "Open" THEN "compare" ELSE "black")
    /\ UNCHANGED <<PublishOther, inFlight, same, cmd, queue, order>>

\* Mutant of CompareEpoch: an open gate is enough, whatever the epoch.
CompareSkipped(p) ==
    /\ pc[p] = "compare"
    /\ Goto(p, "leave")
    /\ UNCHANGED <<PublishOther, inFlight, same, cmd, queue, order>>

CompareEpoch(p) ==
    /\ pc[p] = "compare"
    /\ Goto(p, IF same[p] THEN "leave" ELSE "black")
    /\ UNCHANGED <<PublishOther, inFlight, same, cmd, queue, order>>

TrailingBlack(p) ==
    /\ pc[p] = "black"
    /\ queue' = "Black"
    /\ Goto(p, "leave")
    /\ UNCHANGED <<PublishOther, inFlight, same, cmd, order>>

\* InFlight's destructor; publish()'s locals go out of scope.
Leave(p) ==
    /\ pc[p] = "leave"
    /\ inFlight' = inFlight \ {p}
    /\ same' = [same EXCEPT ![p] = FALSE]
    /\ cmd' = [cmd EXCEPT ![p] = "Black"]
    /\ Goto(p, "idle")
    /\ UNCHANGED <<PublishOther, queue, order>>

Publish(p) ==
    \/ Enter(p) \/ ReadEpoch(p) \/ CheckOpen(p) \/ Send(p)
    \/ RecheckOpen(p) \/ CompareEpoch(p) \/ TrailingBlack(p) \/ Leave(p)

-----------------------------------------------------------------------------
(* The supervisor: ProgressFailOff::apply on Stalled and on Resumed. The    *)
(* watchdog alternates the two; the module Watchdogs says when.             *)

SupervisorOther == <<bootVars, inFlight, pc, cmd, fpc, rpc, passed, rendererVars, strip>>

\* close(): the exchange Open -> Closed, which leaves Shut alone.
CloseState ==
    /\ Started /\ spc = "idle"
    /\ gate' = IF gate = "Open" THEN "Closed" ELSE gate
    /\ spc' = "closeEpoch"
    /\ UNCHANGED <<SupervisorOther, same, queue, order>>

CloseEpoch ==
    /\ spc = "closeEpoch"
    /\ Invalidate
    /\ spc' = "closeBlack"
    /\ UNCHANGED <<SupervisorOther, gate, queue, order>>

\* Mutant of CloseBlack: the stall closes the gate but queues no black.
CloseWithoutBlack ==
    /\ spc = "closeBlack"
    /\ spc' = "stalled"
    /\ UNCHANGED <<SupervisorOther, gate, same, queue, order>>

CloseBlack ==
    /\ spc = "closeBlack"
    /\ queue' = "Black"
    /\ order' = "off"
    /\ spc' = "stalled"
    /\ UNCHANGED <<SupervisorOther, gate, same>>

OpenEpoch ==
    /\ spc = "stalled"
    /\ Invalidate
    /\ spc' = "openState"
    /\ UNCHANGED <<SupervisorOther, gate, queue, order>>

OpenState ==
    /\ spc = "openState"
    /\ gate' = IF gate = "Closed" THEN "Open" ELSE gate
    /\ spc' = "idle"
    /\ UNCHANGED <<SupervisorOther, same, queue, order>>

-----------------------------------------------------------------------------
(* local_argb::fail_off() after a failed start_vehicle_io step.             *)

\* A refused start() has dropped the LED handles, so fail_off() then writes
\* nothing and has no action here.
FailOffEpoch ==
    /\ "fail_off" \in Calls
    /\ Started /\ fpc = "idle"
    /\ Invalidate
    /\ fpc' = "black"
    /\ UNCHANGED <<bootVars, gate, inFlight, pc, cmd, queue, spc, rpc, passed, rendererVars,
                   strip, order>>

FailOffBlack ==
    /\ fpc = "black"
    /\ queue' = "Black"
    /\ order' = "off"
    /\ fpc' = "idle"
    /\ UNCHANGED <<bootVars, gateVars, spc, rpc, passed, rendererVars, strip>>

-----------------------------------------------------------------------------
(* fail_off_for_restart, then esp_restart().                                *)

RestartOther == <<bootVars, inFlight, pc, cmd, spc, fpc, rendererVars, strip>>

\* Any task but the worker may ask; before g_started the call returns false.
RestartBegin ==
    /\ "restart" \in Calls
    /\ phase # "refused" /\ rpc = "idle"
    /\ rpc' = IF Started THEN "shut" ELSE "unconfirmed"
    /\ UNCHANGED <<RestartOther, gate, same, queue, passed, order>>

ShutState ==
    /\ rpc = "shut"
    /\ gate' = "Shut"
    /\ rpc' = "shutEpoch"
    /\ UNCHANGED <<RestartOther, same, queue, passed, order>>

ShutEpoch ==
    /\ rpc = "shutEpoch"
    /\ Invalidate
    /\ rpc' = "drain"
    /\ UNCHANGED <<RestartOther, gate, queue, passed, order>>

\* in_flight() read zero.
Drained ==
    /\ rpc = "drain" /\ inFlight = {}
    /\ rpc' = "sample"
    /\ UNCHANGED <<RestartOther, gate, same, queue, passed, order>>

SamplePasses ==
    /\ rpc = "sample"
    /\ passed' = FALSE
    /\ rpc' = "publish"
    /\ UNCHANGED <<RestartOther, gate, same, queue, order>>

QueueBlack ==
    /\ rpc = "publish"
    /\ queue' = "Black"
    /\ order' = "off"
    /\ rpc' = "waitPass"
    /\ UNCHANGED <<RestartOther, gate, same, passed>>

\* The three loads of the wait loop's condition, in order; a false one loops.
SeePass ==
    /\ rpc = "waitPass" /\ passed
    /\ rpc' = "waitQueue"
    /\ UNCHANGED <<RestartOther, gate, same, queue, passed, order>>

\* Mutant of SeeQueue: a counted pass is taken for the pass that took black.
QueueNotChecked ==
    /\ rpc = "waitQueue"
    /\ rpc' = "waitBlack"
    /\ UNCHANGED <<RestartOther, gate, same, queue, passed, order>>

SeeQueue ==
    /\ rpc = "waitQueue"
    /\ rpc' = IF queue = "Empty" THEN "waitBlack" ELSE "waitPass"
    /\ UNCHANGED <<RestartOther, gate, same, queue, passed, order>>

SeeBlack ==
    /\ rpc = "waitBlack"
    /\ rpc' = IF workerBlack THEN "confirmed" ELSE "waitPass"
    /\ UNCHANGED <<RestartOther, gate, same, queue, passed, order>>

\* Mutant of RestartTimeout: the drain loop has no deadline.
TimeoutOnlyInWait ==
    /\ rpc = "waitPass"
    /\ rpc' = "unconfirmed"
    /\ UNCHANGED <<RestartOther, gate, same, queue, passed, order>>

\* expired(): the deadline passes while draining or waiting for the worker.
RestartTimeout ==
    /\ rpc \in {"drain", "waitPass"}
    /\ rpc' = "unconfirmed"
    /\ UNCHANGED <<RestartOther, gate, same, queue, passed, order>>

\* restart_after_fail_off: esp_restart() follows either way.
Restart ==
    /\ rpc \in {"confirmed", "unconfirmed"}
    /\ Reboot

\* supervisor(): driver or worker-lease watchdog expired. It runs before the
\* startup black, whose write may hang too.
WatchdogRestart ==
    /\ wpc # "off" \/ phase = "boot"
    /\ spc \in {"idle", "stalled"}
    /\ Reboot

-----------------------------------------------------------------------------
(* worker(): one pass is receive-or-tick, write, invalidate, store, count.  *)

WorkerOther == <<bootVars, gate, inFlight, pc, cmd, spc, fpc, rpc, order>>

\* write_desired: an equal frame is not written again. Two Lit frames may differ.
AfterDraw(frame) ==
    IF frame = lastWritten
    THEN IF frame = "Black" THEN {"fault"} ELSE {"fault", "write"}
    ELSE {"write"}

\* RendererController::apply: a command ends a fault only after black was written.
Apply ==
    /\ wpc = "receive" /\ queue # "Empty"
    /\ held' = queue
    /\ queue' = "Empty"
    /\ faulted' = (faulted /\ lastWritten # "Black")
    /\ desired' \in Drawable(queue, faulted')
    /\ wpc' \in AfterDraw(desired')
    /\ UNCHANGED <<WorkerOther, same, passed, lastWritten, workerBlack, faults, strip>>

\* RendererController::tick when nothing was queued for one poll.
Tick ==
    /\ wpc = "receive" /\ queue = "Empty"
    /\ desired' \in Drawable(held, faulted)
    /\ wpc' \in AfterDraw(desired')
    /\ UNCHANGED <<WorkerOther, same, queue, passed, held, faulted, lastWritten, workerBlack,
                   faults, strip>>

\* LedStripSink::write succeeded, either of the frame or of the black after a
\* failed lit frame.
WriteOk ==
    /\ wpc \in {"write", "clear"}
    /\ strip' = (IF wpc = "write" THEN desired ELSE "Black")
    /\ lastWritten' = strip'
    /\ wpc' = "fault"
    /\ UNCHANGED <<WorkerOther, same, queue, passed, held, desired, faulted, workerBlack, faults>>

\* It failed: the strip may or may not have latched the frame.
WriteFail ==
    /\ wpc \in {"write", "clear"} /\ faults < MaxFaults
    /\ faults' = faults + 1
    /\ strip' \in {strip, IF wpc = "write" THEN desired ELSE "Black"}
    /\ lastWritten' = "None"
    /\ faulted' = TRUE
    /\ wpc' = IF wpc = "write" /\ desired = "Lit" THEN "clear" ELSE "fault"
    /\ UNCHANGED <<WorkerOther, same, queue, passed, held, desired, workerBlack>>

\* led_strip_refresh never returns.
WriteHang ==
    /\ wpc \in {"write", "clear"}
    /\ strip' \in {strip, IF wpc = "write" THEN desired ELSE "Black"}
    /\ wpc' = "hung"
    /\ UNCHANGED <<WorkerOther, same, queue, passed, held, desired, lastWritten, faulted,
                   workerBlack, faults>>

\* RendererRuntime::invalidate_if_faulted. The next tick redraws desired_.
InvalidateIfFaulted ==
    /\ wpc = "fault"
    /\ IF faulted THEN Invalidate ELSE UNCHANGED same
    /\ desired' = "Black"
    /\ wpc' = "store"
    /\ UNCHANGED <<WorkerOther, queue, passed, held, lastWritten, faulted, workerBlack,
                   faults, strip>>

StoreBlack ==
    /\ wpc = "store"
    /\ workerBlack' = (lastWritten = "Black")
    /\ wpc' = "count"
    /\ UNCHANGED <<WorkerOther, same, queue, passed, held, desired, lastWritten, faulted, faults,
                   strip>>

CountPass ==
    /\ wpc = "count"
    /\ passed' = TRUE
    /\ wpc' = "receive"
    /\ UNCHANGED <<WorkerOther, same, queue, held, desired, lastWritten, faulted, workerBlack,
                   faults, strip>>

Worker ==
    \/ Apply \/ Tick \/ WriteOk \/ WriteFail \/ InvalidateIfFaulted \/ StoreBlack \/ CountPass

-----------------------------------------------------------------------------
\* app_main returned after a refused start: nothing runs any more.
Halted == phase = "refused" /\ rpc = "idle" /\ UNCHANGED vars

Startup == StartRefused \/ StartupBlack \/ CreateWorker \/ FinishStart
Supervisor == CloseState \/ CloseEpoch \/ CloseBlack \/ OpenEpoch \/ OpenState
FailOff == FailOffEpoch \/ FailOffBlack
FailOffForRestart ==
    \/ RestartBegin \/ ShutState \/ ShutEpoch \/ Drained \/ SamplePasses \/ QueueBlack
    \/ SeePass \/ SeeQueue \/ SeeBlack \/ RestartTimeout \/ Restart

Next ==
    \/ Startup
    \/ \E p \in Publishers : Publish(p)
    \/ Supervisor
    \/ FailOff
    \/ FailOffForRestart
    \/ Worker \/ WriteHang \/ WatchdogRestart
    \/ Halted

Spec == Init /\ [][Next]_vars

\* Every task that has work keeps being scheduled; nothing obliges a publisher
\* to publish, progress to stall or resume, a restart to be asked for, or the
\* driver to hang. A hung driver is reset by the supervisor. The wait loops read
\* the clock on every turn, so a loop that keeps turning meets its deadline.
Fairness ==
    /\ WF_vars(Startup)
    /\ \A p \in Publishers : WF_vars(Publish(p) /\ pc[p] # "idle")
    /\ WF_vars(CloseEpoch \/ CloseBlack \/ OpenState)
    /\ WF_vars(FailOffBlack)
    /\ WF_vars(FailOffForRestart /\ rpc # "idle")
    /\ SF_vars(RestartTimeout)
    /\ WF_vars(Worker)
    /\ WF_vars(wpc = "hung" /\ WatchdogRestart)

FairSpec == Spec /\ Fairness

-----------------------------------------------------------------------------
(* Correctness.                                                             *)

\* The newest command in the pipeline: queued, else held by the renderer.
Latest == IF queue # "Empty" THEN queue ELSE held

\* Publishers past the gate check whose epoch has moved: each still owes the
\* queue a trailing black.
Racing == {p \in Publishers : pc[p] \in {"send", "recheck", "compare", "black"} /\ ~same[p]}

\* A command that raced a gate close, a gate shut or fail_off() cannot stay
\* lit: once the off order's black is queued and no racing publisher is left
\* inside publish(), the newest command is not lit, unless a publication that
\* began after the order replaced it (stall_gated_sink.hpp:22-35).
OffOrderHolds == order = "off" /\ Racing = {} => Latest # "Lit"

\* While watched progress is stalled no publisher can relight the strip: from
\* the stall's black until the resume reopens the gate, the newest command is
\* black as soon as the racing publishers have returned.
StallStaysDark == spc = "stalled" /\ Racing = {} => Latest # "Lit"

\* fail_off_for_restart() returns true only when the strip shows black, and it
\* stays black until esp_restart(), whatever publishers, the supervisor and a
\* failing driver do meanwhile (local_argb_idf.cpp:352-384).
RestartConfirmedBlack == rpc = "confirmed" => strip = "Black"

\* "Once the gate is shut and this reads zero, no gated command can reach the
\* downstream sink again": after the drain no step queues a lit command.
NoLitAfterDrain ==
    [][(rpc \in {"sample", "publish", "waitPass", "waitQueue", "waitBlack", "confirmed"}
          /\ queue' = "Lit") => queue = "Lit"]_vars

\* Startup black comes first: from the moment start() has cleared the strip
\* until the first command of this boot is applied, the strip is dark even
\* though it may have kept a colour from before the restart.
DarkUntilFirstCommand ==
    phase \in {"cleared", "created", "up"} /\ held = "None" => strip = "Black"

\* A stall that lasts ends with the strip black for as long as it lasts,
\* although commands raced the close and driver writes failed.
LastingStallGoesDark ==
    <>[](spc = "stalled" /\ phase = "up") => <>[](strip = "Black")

\* A controlled restart always completes: no publisher, worker fault or driver
\* hang can keep fail_off_for_restart() from reaching esp_restart().
RestartCompletes == rpc # "idle" ~> phase = "boot" /\ rpc = "idle"

=============================================================================
