----------------------------- MODULE ConfigStore -----------------------------
(***************************************************************************)
(* NvsConfigBackend of components/controller_config: two configuration     *)
(* slots and a marker that selects one of them, in NVS flash.              *)
(*                                                                         *)
(* One action is one NVS call of write_override(), clear_override() or     *)
(* restore_marker(); power may fail between any two. NVS itself is not     *)
(* part of the repository and is modelled from how the adapter uses it: a  *)
(* set or an erase takes effect at once, a call may report failure whether *)
(* or not it took effect (ESP_ERR_NVS_REMOVE_FAILED: the value was written *)
(* and the old one not removed), a set may report success and be lost, and *)
(* a blob that was not written whole is Torn: it does not read back as the *)
(* document. The marker is what NVS holds after its next initialisation.   *)
(***************************************************************************)
EXTENDS Naturals

CONSTANTS
    Docs,        \* canonical documents that can be stored
    Missing,     \* a slot key that does not exist
    Torn,        \* a slot that holds no complete document
    Factory,     \* the embedded factory document
    MaxFaults    \* bound: NVS calls that go wrong in one operation

ASSUME DocsAssumption ==
    /\ Missing \notin Docs /\ Torn \notin Docs /\ Factory \notin Docs
    /\ Missing # Torn
ASSUME MaxFaultsAssumption == MaxFaults \in Nat

SlotKeys == {"a", "b"}
Goals == Docs \cup {Factory}

VARIABLES
    marker,     \* the key active_slot: "none", a slot, or "bad" (out of range)
    slot,       \* what each slot key holds
    step,       \* the NVS call the operation makes next, "idle" between operations
    previous,   \* active_slot as read: "unknown" when clear could not read it
    goal,       \* what the operation selects: a document, or Factory to clear
    outcome,    \* how the last operation of this boot ended
    faults,     \* calls of the current operation that went wrong
    before      \* history: what was selected when the operation began

storeVars == <<marker, slot, step, previous, goal, outcome, faults, before>>

\* read_override and load_boot_configuration: what the next boot applies.
Selected ==
    IF marker \in SlotKeys THEN (IF slot[marker] \in Docs THEN slot[marker] ELSE Factory)
    ELSE Factory

WriteSteps == {"readForWrite", "setBlob", "commitBlob", "readBack", "setMarker", "commitMarker",
               "verifyMarker", "verifyBlob"}
ClearSteps == {"readForClear", "erase", "commitErase", "verifyErase"}
RestoreSteps == {"restore", "restoreCommit"}

TypeOK ==
    /\ marker \in SlotKeys \cup {"none", "bad"}
    /\ slot \in [SlotKeys -> Docs \cup {Missing, Torn}]
    /\ step \in WriteSteps \cup ClearSteps \cup RestoreSteps \cup {"idle"}
    /\ previous \in SlotKeys \cup {"none", "unknown"}
    /\ goal \in Goals
    /\ outcome \in {"none", "saved", "cleared", "failed"}
    /\ faults \in 0..MaxFaults
    /\ before \in Goals

\* A new partition, or one whose marker an older firmware left out of range.
StoreInit ==
    /\ marker \in {"none", "bad"}
    /\ slot = [k \in SlotKeys |-> Missing]
    /\ step = "idle" /\ previous = "unknown" /\ goal = Factory
    /\ outcome = "none" /\ faults = 0 /\ before = Factory

-----------------------------------------------------------------------------
(* How a call ends.                                                         *)

Fault == faults < MaxFaults /\ faults' = faults + 1
Works == faults' = faults
Goto(next) == step' = next /\ outcome' = outcome
Ends(result) == step' = "idle" /\ outcome' = result

\* The parts of the state that an operation fixes once.
operation == <<goal, before>>

\* nvs_set_u8 or nvs_erase_key on the marker: it works, it reports a failure
\* before or after it took effect, or it is lost without a word.
MarkerCall(value, next) ==
    \/ Works /\ marker' = value /\ Goto(next)
    \/ Fault /\ marker' \in {marker, value} /\ Ends("failed")
    \/ Fault /\ UNCHANGED marker /\ Goto(next)

Begin(what, first) ==
    /\ step = "idle"
    /\ goal' = what
    /\ before' = Selected
    /\ previous' = "unknown"
    /\ outcome' = "none"
    /\ faults' = 0
    /\ step' = first
    /\ UNCHANGED <<marker, slot>>

-----------------------------------------------------------------------------
(* write_override                                                           *)

BeginWrite(doc) == Begin(doc, "readForWrite")

\* read_active_slot: an unreadable or out-of-range marker ends the write.
ReadForWrite ==
    /\ step = "readForWrite"
    /\ \/ Fault /\ Ends("failed") /\ UNCHANGED previous
       \/ Works /\ marker = "bad" /\ Ends("failed") /\ UNCHANGED previous
       \/ Works /\ marker # "bad" /\ previous' = marker /\ Goto("setBlob")
    /\ UNCHANGED <<marker, slot, operation>>

\* The slot that is not in use.
Target == IF previous = "a" THEN "b" ELSE "a"

SetBlob ==
    /\ step = "setBlob"
    /\ \/ Works /\ slot' = [slot EXCEPT ![Target] = goal] /\ Goto("commitBlob")
       \/ /\ Fault
          /\ \E left \in {slot[Target], Torn, goal} : slot' = [slot EXCEPT ![Target] = left]
          /\ Ends("failed") \/ Goto("commitBlob")
    /\ UNCHANGED <<marker, previous, operation>>

CommitBlob ==
    /\ step = "commitBlob"
    /\ \/ Works /\ Goto("readBack")
       \/ Fault /\ Ends("failed")
    /\ UNCHANGED <<marker, slot, previous, operation>>

\* Mutant of ReadBack: the written slot is not read before it is selected.
ReadBackSkipped ==
    /\ step = "readBack"
    /\ Works /\ Goto("setMarker")
    /\ UNCHANGED <<marker, slot, previous, operation>>

ReadBack ==
    /\ step = "readBack"
    /\ \/ Works /\ slot[Target] = goal /\ Goto("setMarker")
       \/ Works /\ slot[Target] # goal /\ Ends("failed")
       \/ Fault /\ Ends("failed")
    /\ UNCHANGED <<marker, slot, previous, operation>>

\* A failure of this call ends the write without a restoration.
SetMarker ==
    /\ step = "setMarker"
    /\ MarkerCall(Target, "commitMarker")
    /\ UNCHANGED <<slot, previous, operation>>

CommitMarker ==
    /\ step = "commitMarker"
    /\ \/ Works /\ Goto("verifyMarker")
       \/ Fault /\ Goto("restore")
    /\ UNCHANGED <<marker, slot, previous, operation>>

VerifyMarker ==
    /\ step = "verifyMarker"
    /\ \/ Works /\ Goto(IF marker = Target THEN "verifyBlob" ELSE "restore")
       \/ Fault /\ Goto("restore")
    /\ UNCHANGED <<marker, slot, previous, operation>>

VerifyBlob ==
    /\ step = "verifyBlob"
    /\ \/ Works /\ IF slot[Target] = goal THEN Ends("saved") ELSE Goto("restore")
       \/ Fault /\ Goto("restore")
    /\ UNCHANGED <<marker, slot, previous, operation>>

-----------------------------------------------------------------------------
(* clear_override                                                           *)

BeginClear == Begin(Factory, "readForClear")

\* An absent marker is already cleared; one that cannot be read is erased but
\* could not be restored.
ReadForClear ==
    /\ step = "readForClear"
    /\ \/ Works /\ marker = "none" /\ Ends("cleared") /\ UNCHANGED previous
       \/ Works /\ marker # "none" /\ Goto("erase")
            /\ previous' = IF marker = "bad" THEN "unknown" ELSE marker
       \/ Fault /\ Goto("erase") /\ UNCHANGED previous
    /\ UNCHANGED <<marker, slot, operation>>

Erase ==
    /\ step = "erase"
    /\ MarkerCall("none", "commitErase")
    /\ UNCHANGED <<slot, previous, operation>>

RestoreIfKnown == IF previous = "unknown" THEN Ends("failed") ELSE Goto("restore")

CommitErase ==
    /\ step = "commitErase"
    /\ \/ Works /\ Goto("verifyErase")
       \/ Fault /\ RestoreIfKnown
    /\ UNCHANGED <<marker, slot, previous, operation>>

VerifyErase ==
    /\ step = "verifyErase"
    /\ \/ Works /\ marker = "none" /\ Ends("cleared")
       \/ Works /\ marker # "none" /\ RestoreIfKnown
       \/ Fault /\ RestoreIfKnown
    /\ UNCHANGED <<marker, slot, previous, operation>>

-----------------------------------------------------------------------------
(* restore_marker; the operation has failed whatever it achieves.           *)

Restore ==
    /\ step = "restore"
    /\ MarkerCall(previous, "restoreCommit")
    /\ UNCHANGED <<slot, previous, operation>>

RestoreCommit ==
    /\ step = "restoreCommit"
    /\ Works \/ Fault
    /\ Ends("failed")
    /\ UNCHANGED <<marker, slot, previous, operation>>

-----------------------------------------------------------------------------
\* Power fails: the operation is forgotten, and a blob being written may be torn.
PowerLoss ==
    /\ step' = "idle" /\ outcome' = "none" /\ faults' = 0
    /\ previous' = "unknown" /\ goal' = Factory /\ before' = Factory
    /\ \/ slot' = slot
       \/ step = "setBlob" /\ slot' = [slot EXCEPT ![Target] = Torn]
    /\ UNCHANGED marker

StoreStep ==
    \/ ReadForWrite \/ SetBlob \/ CommitBlob \/ ReadBack \/ SetMarker \/ CommitMarker
    \/ VerifyMarker \/ VerifyBlob
    \/ ReadForClear \/ Erase \/ CommitErase \/ VerifyErase
    \/ Restore \/ RestoreCommit

StoreNext ==
    \/ \E doc \in Docs : BeginWrite(doc)
    \/ BeginClear
    \/ StoreStep
    \/ PowerLoss

StoreSpec == StoreInit /\ [][StoreNext]_storeVars

-----------------------------------------------------------------------------
(* Correctness.                                                             *)

\* Whenever power fails, the next boot finds a complete document behind the
\* marker: a slot that is torn or half written is never the selected one.
SelectedSlotComplete == marker \in SlotKeys => slot[marker] \in Docs

\* A replacement is atomic at every crash point: whichever NVS call power fails
\* after, the next boot applies what was selected before the operation or what
\* the operation selects, never a third document (write_override 87-138).
ReplacementAtomic == step # "idle" \/ outcome # "none" => Selected \in {before, goal}

\* Success is the truth: "saved" means the next boot applies that document and
\* "cleared" that it applies the factory one, although a call that reported
\* success may have been lost.
SuccessMeansSelected == outcome \in {"saved", "cleared"} => Selected = goal

\* When a failed operation may have replaced the override, by the call it ended
\* with: setting or erasing the marker reported a failure after it took effect,
\* and nothing is restored (nvs_config_store.cpp 112-114, 148-150); restore_marker
\* went wrong on top of the call it answers; or the first read of a clear did, so
\* that there was nothing to restore. Anywhere else one fault is undone.
FailureExplained ==
    [][outcome' = "failed" /\ Selected' # before =>
          /\ Selected' = goal
          /\ \/ step \in {"setMarker", "erase"}
             \/ step \in RestoreSteps /\ faults' >= 2
             \/ step \in ClearSteps /\ previous = "unknown" /\ faults' >= 2]_storeVars

\* NvsConfigBackend implements the register of ConfigSelection: a slot filled
\* aside, the marker moved and restored are single switches of what is selected,
\* and neither a crash nor an NVS call that lies shows anything in between.
Selection == INSTANCE ConfigSelection WITH
    Documents <- Docs, Default <- Factory,
    selected <- Selected,
    phase <- IF step = "idle" THEN "idle" ELSE "busy",
    wanted <- goal, prior <- before,
    answer <- IF outcome \in {"saved", "cleared"} THEN "done" ELSE outcome
SelectionSpec == Selection!Spec

\* "Implementations must retain the previous active value when a replacement
\* cannot be committed" (config_store.hpp:18-20): any failed operation leaves
\* what was selected before it.
FailureRetainsPrevious == outcome = "failed" => Selected = before

=============================================================================
