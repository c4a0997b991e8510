---------------------------- MODULE ConfigUpdate ----------------------------
(***************************************************************************)
(* A configuration update over the companion link, end to end: the chunked *)
(* transfer (ConfigTransfer), its GATT handlers and timers                 *)
(* (config_characteristics.cpp), the commit (ConfigService) down to the    *)
(* NVS calls of ConfigStore, the controlled restart and the next boot.     *)
(*                                                                         *)
(* All handlers run on the BLE host task, one at a time; a commit or a     *)
(* revert is inside its handler until the store operation has ended. Power *)
(* may fail at any time. An upload is a sequence of blocks and its CRC is  *)
(* the sequence itself: two uploads with one CRC are not modelled. What is *)
(* stored is its canonical serialization, which several uploads may share. *)
(* A client may write anything; a write that is refused, or only selects a *)
(* read page, is WriteRefused. The clock counts in units of which Timeout  *)
(* make kTransferIdleTimeout; a timer fires before time moves on.          *)
(***************************************************************************)
EXTENDS ConfigStore, Integers, Sequences

CONSTANTS
    Blocks,        \* the blocks documents are made of
    MaxLength,     \* kMaxConfigBytes, in blocks
    Parses,        \* the uploads that parse_controller_config accepts
    Appliable,     \* those whose dry-run apply completes
    Canonical(_),  \* their canonical serialization; not in Docs if it is too large
    Timeout,       \* kTransferIdleTimeout
    RestartWait    \* kRestartDisconnectWaitMs

Contents == UNION {[1..n -> Blocks] : n \in 1..MaxLength}

ASSUME UpdateAssumption ==
    /\ Appliable \subseteq Parses /\ Parses \subseteq Contents /\ Missing # Factory
    /\ MaxLength \in Nat \ {0} /\ Timeout \in Nat \ {0} /\ RestartWait \in 1..Timeout

Off == Timeout + 1    \* a stopped timer

VARIABLES
    linked,        \* current_connection is a connection
    state,         \* TransferStatus::state
    result,        \* TransferStatus::result
    total,         \* transfer_length
    received,      \* received_length
    crc,           \* upload_.crc32
    buffer,        \* upload_.buffer; kept from one transfer to the next
    age,           \* time since upload_.last_activity, up to 2 * Timeout
    idleTimer,     \* time until idle_timer fires
    restartTimer,  \* time until restart_timer fires
    handler,       \* the handler that waits for the store: "none", "commit", "revert"
    storage,       \* this boot's store: "ok", "unreadable" at boot, "absent"
    running,       \* the configuration this boot applied
    fresh,         \* history: buffer positions written by this transfer
    promised,      \* history: what the client was last told is selected, or Missing
    rebooted       \* history: a boot followed that promise

uploadVars == <<total, received, crc, buffer, age, fresh>>
timerVars == <<idleTimer, restartTimer>>
promiseVars == <<promised, rebooted>>
bootVars == <<storage, running>>
updateVars == <<linked, state, result, uploadVars, timerVars, handler, bootVars, promiseVars>>
vars == <<storeVars, updateVars>>

UpdateTypeOK ==
    /\ TypeOK
    /\ linked \in BOOLEAN
    /\ state \in {"Idle", "Receiving", "RestartPending"}
    /\ result \in {"None", "Saved", "ConfigRejected", "ApplyRejected", "StorageFailed",
                   "ChecksumMismatch", "TimedOut", "Interrupted", "Aborted"}
    /\ total \in 0..MaxLength /\ received \in 0..total
    /\ crc \in Contents \cup {<<>>}
    /\ DOMAIN buffer = 1..MaxLength
    /\ age \in 0..(2 * Timeout)
    /\ idleTimer \in 0..Off /\ restartTimer \in 0..Off
    /\ handler \in {"none", "commit", "revert"}
    /\ storage \in {"ok", "unreadable", "absent"}
    /\ running \in Goals
    /\ fresh \subseteq 1..MaxLength
    /\ promised \in Goals \cup {Missing} /\ rebooted \in BOOLEAN

\* load_boot_configuration: without a readable override the factory document runs.
Init ==
    /\ StoreInit
    /\ linked = FALSE /\ state = "Idle" /\ result = "None"
    /\ total = 0 /\ received = 0 /\ crc = <<>> /\ age = 0 /\ fresh = {}
    /\ buffer = [i \in 1..MaxLength |-> "-"]
    /\ idleTimer = Off /\ restartTimer = Off /\ handler = "none"
    /\ storage \in {"ok", "unreadable", "absent"} /\ running = Factory
    /\ promised = Missing /\ rebooted = FALSE

\* A reset and the boot after it.
Boot ==
    /\ linked' = FALSE /\ state' = "Idle" /\ result' = "None"
    /\ total' = 0 /\ received' = 0 /\ crc' = <<>> /\ age' = 0 /\ fresh' = {}
    /\ buffer' = [i \in 1..MaxLength |-> "-"]
    /\ idleTimer' = Off /\ restartTimer' = Off /\ handler' = "none"
    /\ storage' \in {"ok", "unreadable", "absent"}
    /\ running' = IF storage' = "ok" THEN Selected' ELSE Factory
    /\ rebooted' = TRUE
    /\ UNCHANGED promised

-----------------------------------------------------------------------------
(* The transfer.                                                            *)

Free == handler = "none"

\* expire_if_idle: the first thing every write does.
Expired == state = "Receiving" /\ age >= Timeout
Open == state = "Receiving" /\ ~Expired

\* track_idle_timeout after a handler: running while a transfer is open.
TrackIdle(open) == idleTimer' = IF open THEN Timeout ELSE Off

\* finish(): status_ is cleared but for its result; the buffer is kept.
Finish(why) ==
    /\ state' = "Idle" /\ result' = why
    /\ total' = 0 /\ received' = 0 /\ crc' = <<>> /\ age' = 0 /\ fresh' = {}
    /\ UNCHANGED buffer

\* Start: opens a transfer for a document of this length and CRC.
WriteStart ==
    /\ Free /\ linked /\ storage # "absent"
    /\ state = "Idle" \/ Expired
    /\ \E content \in Contents : total' = Len(content) /\ crc' = content
    /\ state' = "Receiving" /\ result' = "None"
    /\ received' = 0 /\ age' = 0 /\ fresh' = {}
    /\ TrackIdle(TRUE)
    /\ UNCHANGED <<storeVars, linked, buffer, restartTimer, handler, bootVars, promiseVars>>

Fits(data) == received + Len(data) <= total

\* Chunk at offset received_length that does not extend past the total length.
WriteChunk ==
    /\ Free /\ linked /\ Open
    /\ \E data \in Contents :
          /\ Fits(data)
          /\ buffer' = [i \in 1..MaxLength |->
                          IF i \in (received + 1)..(received + Len(data)) THEN data[i - received]
                          ELSE buffer[i]]
          /\ fresh' = fresh \cup (received + 1)..(received + Len(data))
          /\ received' = received + Len(data)
    /\ age' = 0
    /\ TrackIdle(TRUE)
    /\ UNCHANGED <<storeVars, linked, state, result, total, crc, restartTimer, handler, bootVars,
                   promiseVars>>

WriteAbort ==
    /\ Free /\ linked /\ Open
    /\ Finish("Aborted")
    /\ TrackIdle(FALSE)
    /\ UNCHANGED <<storeVars, linked, restartTimer, handler, bootVars, promiseVars>>

\* Mutants of WriteRefused: a refused write counts as activity, and a write
\* refused as Busy arms the restart wait again.
RefusedRefreshes ==
    /\ Free /\ linked
    /\ IF Expired THEN Finish("TimedOut")
       ELSE age' = 0 /\ UNCHANGED <<state, result, total, received, crc, buffer, fresh>>
    /\ TrackIdle(Open)
    /\ UNCHANGED <<storeVars, linked, restartTimer, handler, bootVars, promiseVars>>
RefusedRearmsRestart ==
    /\ Free /\ linked
    /\ IF Expired THEN Finish("TimedOut") ELSE UNCHANGED <<state, result, uploadVars>>
    /\ TrackIdle(Open)
    /\ restartTimer' = IF state = "RestartPending" THEN RestartWait ELSE restartTimer
    /\ UNCHANGED <<storeVars, linked, handler, bootVars, promiseVars>>

\* Every other Config write: malformed, out of order, too early, Busy, or a
\* Select read page. An idle transfer is discarded first; one that stays open
\* gets a full idle timer, although its last_activity has not moved.
WriteRefused ==
    /\ Free /\ linked
    /\ IF Expired THEN Finish("TimedOut") ELSE UNCHANGED <<state, result, uploadVars>>
    /\ TrackIdle(Open)
    /\ UNCHANGED <<storeVars, linked, restartTimer, handler, bootVars, promiseVars>>

-----------------------------------------------------------------------------
(* Commit: the checks in order, then save_override inside the handler.      *)

\* Mutant of Complete: a commit does not wait for the last chunk.
CompleteUnchecked == TRUE

Complete == received = total

\* crc32 of the bytes in the buffer, whichever transfer wrote them.
Uploaded == SubSeq(buffer, 1, total)

\* Commit steps 3 to 6: CRC, parse and validate, dry-run apply, and the size of
\* the canonical document, in this order.
CommitCheck(content) ==
    IF content # crc THEN "ChecksumMismatch"
    ELSE IF content \notin Parses THEN "ConfigRejected"
    ELSE IF content \notin Appliable THEN "ApplyRejected"
    ELSE IF Canonical(content) \notin Docs THEN "ConfigRejected"
    ELSE "Ok"

CommitRejected ==
    /\ Free /\ linked /\ Open /\ Complete
    /\ CommitCheck(Uploaded) # "Ok"
    /\ Finish(CommitCheck(Uploaded))
    /\ TrackIdle(FALSE)
    /\ UNCHANGED <<storeVars, linked, restartTimer, handler, bootVars, promiseVars>>

CommitBegins ==
    /\ Free /\ linked /\ Open /\ Complete
    /\ CommitCheck(Uploaded) = "Ok"
    /\ BeginWrite(Canonical(Uploaded))
    /\ handler' = "commit"
    /\ promised' = Missing /\ rebooted' = FALSE
    /\ UNCHANGED <<linked, state, result, uploadVars, timerVars, bootVars>>

\* Mutant of WriteSucceeded: only an invalid candidate counts as a failure.
WriteSucceededAnyway == outcome \in {"saved", "failed"}

WriteSucceeded == outcome = "saved"

\* The store has answered: RestartPending and schedule_restart, or StorageFailed.
CommitEnds ==
    /\ handler = "commit" /\ step = "idle"
    /\ handler' = "none"
    /\ TrackIdle(FALSE)
    /\ total' = 0 /\ received' = 0 /\ crc' = <<>> /\ age' = 0 /\ fresh' = {}
    /\ IF WriteSucceeded
       THEN /\ state' = "RestartPending" /\ result' = "Saved"
            /\ restartTimer' = RestartWait
            /\ promised' = goal
       ELSE /\ state' = "Idle" /\ result' = "StorageFailed"
            /\ UNCHANGED <<restartTimer, promised>>
    /\ UNCHANGED <<storeVars, linked, buffer, bootVars, rebooted>>

-----------------------------------------------------------------------------
(* Revert to factory, a Command write.                                      *)

\* check_busy discards an idle transfer; an open one or a pending restart is Busy.
RevertBegins ==
    /\ Free /\ linked /\ storage # "absent"
    /\ state = "Idle" \/ Expired
    /\ IF Expired THEN Finish("TimedOut") /\ TrackIdle(FALSE)
       ELSE UNCHANGED <<state, result, uploadVars, idleTimer>>
    /\ BeginClear
    /\ handler' = "revert"
    /\ promised' = Missing /\ rebooted' = FALSE
    /\ UNCHANGED <<linked, restartTimer, bootVars>>

RevertEnds ==
    /\ handler = "revert" /\ step = "idle"
    /\ handler' = "none"
    /\ IF outcome = "cleared"
       THEN /\ state' = "RestartPending" /\ restartTimer' = RestartWait
            /\ promised' = Factory
       ELSE UNCHANGED <<state, restartTimer, promised>>
    /\ UNCHANGED <<storeVars, linked, result, uploadVars, idleTimer, bootVars, rebooted>>

StoreCall == handler # "none" /\ StoreStep /\ UNCHANGED updateVars

-----------------------------------------------------------------------------
(* GAP events, timers, restart and power.                                   *)

Connect ==
    /\ Free /\ ~linked
    /\ linked' = TRUE
    /\ UNCHANGED <<storeVars, state, result, uploadVars, timerVars, handler, bootVars, promiseVars>>

\* interrupt(), and the restart that waited for the disconnect.
Disconnect ==
    /\ Free /\ linked
    /\ linked' = FALSE
    /\ IF state = "Receiving" THEN Finish("Interrupted")
       ELSE UNCHANGED <<state, result, uploadVars>>
    /\ TrackIdle(FALSE)
    /\ restartTimer' = IF state = "RestartPending" THEN 0 ELSE restartTimer
    /\ UNCHANGED <<storeVars, handler, bootVars, promiseVars>>

Down(timer) == IF timer \in 1..Timeout THEN timer - 1 ELSE timer

\* Due timers fire first; a store operation takes less than one unit.
Tick ==
    /\ Free /\ idleTimer # 0 /\ restartTimer # 0
    /\ age' = IF state = "Receiving" /\ age < 2 * Timeout THEN age + 1 ELSE age
    /\ idleTimer' = Down(idleTimer)
    /\ restartTimer' = Down(restartTimer)
    /\ UNCHANGED <<storeVars, linked, state, result, total, received, crc, buffer, fresh, handler,
                   bootVars, promiseVars>>

OnIdleTimer ==
    /\ Free /\ idleTimer = 0
    /\ IF Expired THEN Finish("TimedOut") ELSE UNCHANGED <<state, result, uploadVars>>
    /\ TrackIdle(Open)
    /\ UNCHANGED <<storeVars, linked, restartTimer, handler, bootVars, promiseVars>>

\* restart_after_fail_off(); LightingRuntime shows that it reaches esp_restart().
OnRestartTimer ==
    /\ Free /\ restartTimer = 0
    /\ PowerLoss
    /\ Boot

\* Also every other reset: watchdogs, brown-out.
PowerCycle == PowerLoss /\ Boot

Next ==
    \/ Connect \/ Disconnect
    \/ WriteStart \/ WriteChunk \/ WriteAbort \/ WriteRefused
    \/ CommitRejected \/ CommitBegins \/ CommitEnds
    \/ RevertBegins \/ RevertEnds \/ StoreCall
    \/ Tick \/ OnIdleTimer \/ OnRestartTimer \/ PowerCycle

Spec == Init /\ [][Next]_vars

\* Time passes, due timers fire and the NVS calls of a handler return. Nothing
\* obliges the client to write, to disconnect or to stay silent.
FairSpec ==
    /\ Spec
    /\ WF_vars(Tick) /\ WF_vars(OnIdleTimer) /\ WF_vars(OnRestartTimer)
    /\ WF_vars(StoreCall) /\ WF_vars(CommitEnds) /\ WF_vars(RevertEnds)

-----------------------------------------------------------------------------
(* Correctness.                                                             *)

\* What reaches the store is the upload the client announced, every block of
\* it received by this transfer: bytes that an earlier transfer left in the
\* buffer never complete a document, not even one with the right CRC.
StoresOnlyThisUpload == handler = "commit" => goal = Canonical(crc) /\ fresh = 1..total

\* A configuration the lighting setup would refuse is never selected, so no
\* update can leave a boot without lighting.
SelectedIsAppliable == Selected \in {Canonical(c) : c \in Appliable} \cup {Factory}

\* What the client was told holds: after Saved or an accepted revert the next
\* boots apply that configuration, through rejected and abandoned transfers,
\* power loss and restarts, until the next commit or revert begins.
PromiseIsBooted ==
    promised # Missing =>
        Selected = promised /\ (rebooted /\ storage = "ok" => running = promised)

\* Every accepted update restarts the controller, whether or not the client
\* disconnects and however often it writes meanwhile.
PendingRestartHappens == state = "RestartPending" ~> state = "Idle"

\* No client can hold the single transfer for ever: it is committed, aborted
\* or discarded, whatever refused writes the client keeps sending. Only an
\* endless series of Starts, each on a discarded transfer, keeps the state
\* Receiving.
TransferEnds == <>[](state = "Receiving") => []<><<WriteStart>>_vars

\* "The controller discards an open transfer when no Start or accepted Chunk
\* arrives for 10 s"; "rejected chunks do not restart it" (config-transfer.md).
IdleTransferDiscardedOnTime == state = "Receiving" => age <= Timeout

=============================================================================
