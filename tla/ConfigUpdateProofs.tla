-------------------------- MODULE ConfigUpdateProofs --------------------------
(***************************************************************************)
(* Proofs about ConfigStore and ConfigUpdate, for all documents, uploads,  *)
(* lengths, timers and numbers of faulty NVS calls in one operation.       *)
(*                                                                         *)
(* None of the store's properties is inductive: each depends on how far    *)
(* the operation has come. IInv says, for every step of an operation,      *)
(* which slot the marker may name and what that slot holds.                *)
(*                                                                         *)
(* An update drives the store only through its operations, so it inherits  *)
(* everything proved of the store. What it adds depends on who may write   *)
(* which variable while a handler waits for the store: UInv says it.       *)
(***************************************************************************)
EXTENDS ConfigUpdate, TLAPS

-----------------------------------------------------------------------------
(* The store.                                                              *)

\* What the marker value m selects.
SelectedBy(m) ==
    IF m \in SlotKeys THEN (IF slot[m] \in Docs THEN slot[m] ELSE Factory) ELSE Factory

\* The marker is as it was read, and still selects what was selected before.
Untouched == previous # "unknown" /\ marker = previous /\ SelectedBy(previous) = before

\* The new document is complete in the spare slot; the old one is in place.
Prepared == previous # "unknown" /\ slot[Target] = goal /\ SelectedBy(previous) = before

\* A write: the marker moves only after the spare slot holds the document.
WriteInv ==
    /\ step \in WriteSteps => goal \in Docs
    /\ step = "readForWrite" => Selected = before
    /\ step \in {"setBlob", "commitBlob", "readBack"} => Untouched
    /\ step = "setMarker" => Untouched /\ Prepared
    /\ step \in {"commitMarker", "verifyMarker"} => Prepared /\ marker \in {previous, Target}
    /\ step = "verifyBlob" => Prepared /\ marker = Target

\* A clear: the marker is gone or as it was. Without its old value, a marker
\* that selected something else was lost to a fault of the first read.
ClearInv ==
    /\ step \in ClearSteps => goal = Factory
    /\ step = "readForClear" => previous = "unknown" /\ Selected = before
    /\ step = "erase" =>
          /\ Selected = before
          /\ IF previous = "unknown" THEN Selected = Factory \/ faults >= 1 ELSE Untouched
    /\ step \in {"commitErase", "verifyErase"} =>
          /\ marker # "none" => Selected = before
          /\ IF previous = "unknown" THEN Selected = before \/ faults >= 1
             ELSE marker \in {previous, "none"} /\ SelectedBy(previous) = before

\* A restoration: if the marker is not the old one, a call has gone wrong, and
\* once the restoration was tried a second one has.
RestoreInv ==
    /\ step \in RestoreSteps =>
          /\ previous # "unknown"
          /\ SelectedBy(previous) = before
          /\ Selected \in {before, goal}
    /\ step = "restore" => marker = previous \/ faults >= 1
    /\ step = "restoreCommit" => marker = previous \/ faults >= 2

\* Between operations: what the last outcome says of the flash.
IdleInv ==
    /\ step # "idle" => outcome = "none"
    /\ outcome \in {"saved", "cleared"} => Selected = goal
    /\ outcome = "failed" => Selected \in {before, goal}

\* The slot that a restoration would select again stays complete.
OldSlotComplete == previous \in SlotKeys => slot[previous] \in Docs

IInv ==
    /\ TypeOK /\ SelectedSlotComplete /\ OldSlotComplete
    /\ WriteInv /\ ClearInv /\ RestoreInv /\ IdleInv

-----------------------------------------------------------------------------
(* Facts about the definitions.                                             *)

\* The slot that write_override fills is never the one in use.
LEMMA TargetIsSpare == Target \in SlotKeys /\ Target # previous
BY DEF Target, SlotKeys

\* The properties the runs check follow from the inductive invariant.
LEMMA InvariantImplies ==
    IInv => /\ TypeOK /\ SelectedSlotComplete /\ ReplacementAtomic
            /\ SuccessMeansSelected
PROOF
<1> SUFFICES ASSUME IInv
             PROVE  ReplacementAtomic /\ SuccessMeansSelected
  BY DEF IInv
<1> USE DEF IInv, IdleInv
<1>1. CASE step = "idle"
  <2>1. outcome \in {"none", "saved", "cleared", "failed"} /\ faults \in Nat
    BY DEF TypeOK
  <2> QED
    BY <1>1, <2>1 DEF ReplacementAtomic, SuccessMeansSelected
<1>2. CASE step # "idle"
  <2>1. outcome = "none"
    BY <1>2
  <2>2. Selected \in {before, goal}
    <3>1. CASE step \in WriteSteps
      BY <3>1, TargetIsSpare
      DEF WriteInv, WriteSteps, Untouched, Prepared, Selected, SelectedBy, TypeOK
    <3>2. CASE step \in ClearSteps
      BY <3>2 DEF ClearInv, ClearSteps, Selected, TypeOK, SlotKeys
    <3>3. CASE step \in RestoreSteps
      BY <3>3 DEF RestoreInv
    <3> QED
      BY <1>2, <3>1, <3>2, <3>3 DEF TypeOK
  <2> QED
    BY <2>1, <2>2 DEF ReplacementAtomic, SuccessMeansSelected
<1> QED
  BY <1>1, <1>2

-----------------------------------------------------------------------------
(* Every step preserves the invariant.                                      *)

\* A new partition satisfies the invariant.
LEMMA InitInvariant == StoreInit => IInv
BY MaxFaultsAssumption, DocsAssumption, SMTT(60)
DEF StoreInit, IInv, TypeOK, SelectedSlotComplete, OldSlotComplete, WriteInv, ClearInv, RestoreInv,
    IdleInv, Selected, SlotKeys, Goals, WriteSteps, ClearSteps, RestoreSteps

\* One step per NVS call; each names what the call leaves for the next one.
LEMMA StepInvariant == IInv /\ [StoreNext]_storeVars => IInv'
PROOF
<1> SUFFICES ASSUME IInv, [StoreNext]_storeVars PROVE IInv'
  OBVIOUS
<1> USE TargetIsSpare, MaxFaultsAssumption, DocsAssumption
<1> USE DEF IInv, TypeOK, SelectedSlotComplete, OldSlotComplete, WriteInv, ClearInv, RestoreInv,
            IdleInv, SlotKeys, Goals, WriteSteps, ClearSteps, RestoreSteps, Untouched, Prepared, Selected, SelectedBy,
            Fault, Works, Goto, Ends, MarkerCall, operation, Target
<1>1. ASSUME NEW doc \in Docs, BeginWrite(doc) PROVE IInv'
  BY <1>1 DEF BeginWrite, Begin
<1>2. CASE BeginClear
  BY <1>2 DEF BeginClear, Begin
<1>3. CASE ReadForWrite
  BY <1>3 DEF ReadForWrite
<1>4. CASE SetBlob
  BY <1>4 DEF SetBlob
<1>5. CASE CommitBlob
  BY <1>5 DEF CommitBlob
<1>6. CASE ReadBack
  BY <1>6 DEF ReadBack
<1>7. CASE SetMarker
  BY <1>7 DEF SetMarker
<1>8. CASE CommitMarker
  BY <1>8 DEF CommitMarker
<1>9. CASE VerifyMarker
  BY <1>9 DEF VerifyMarker
<1>10. CASE VerifyBlob
  BY <1>10 DEF VerifyBlob
<1>11. CASE ReadForClear
  BY <1>11 DEF ReadForClear
<1>12. CASE Erase
  BY <1>12 DEF Erase
<1>13. CASE CommitErase
  BY <1>13 DEF CommitErase, RestoreIfKnown
<1>14. CASE VerifyErase
  BY <1>14 DEF VerifyErase, RestoreIfKnown
<1>15. CASE Restore
  BY <1>15 DEF Restore
<1>16. CASE RestoreCommit
  BY <1>16 DEF RestoreCommit
<1>17. CASE PowerLoss
  BY <1>17 DEF PowerLoss
<1>18. CASE UNCHANGED storeVars
  BY <1>18 DEF storeVars
<1> QED
  BY <1>1, <1>2, <1>3, <1>4, <1>5, <1>6, <1>7, <1>8, <1>9, <1>10, <1>11, <1>12, <1>13, <1>14,
     <1>15, <1>16, <1>17, <1>18 DEF StoreNext, StoreStep

\* The inductive invariant holds in every reachable state of the store.
THEOREM StoreInvariant == StoreSpec => []IInv
BY InitInvariant, StepInvariant, PTL DEF StoreSpec

\* Type correctness of the store.
THEOREM StoreTypeCorrect == StoreSpec => []TypeOK
BY StoreInvariant, InvariantImplies, PTL

\* Whatever NVS calls fail and whenever power is lost, the marker never names a
\* slot without a complete document.
THEOREM CompleteTheorem == StoreSpec => []SelectedSlotComplete
BY StoreInvariant, InvariantImplies, PTL

\* write_override and clear_override are atomic at every crash point.
THEOREM AtomicTheorem == StoreSpec => []ReplacementAtomic
BY StoreInvariant, InvariantImplies, PTL

\* A reported save or clear is in flash, although NVS calls may be lost.
THEOREM SuccessTheorem == StoreSpec => []SuccessMeansSelected
BY StoreInvariant, InvariantImplies, PTL

\* A failed operation replaces the override only by a marker call that took
\* effect although it failed, or by two faults of which one spoils the way back.
LEMMA StepExplained ==
    IInv /\ [StoreNext]_storeVars =>
        [outcome' = "failed" /\ Selected' # before =>
             /\ Selected' = goal
             /\ \/ step \in {"setMarker", "erase"}
                \/ step \in RestoreSteps /\ faults' >= 2
                \/ step \in ClearSteps /\ previous = "unknown" /\ faults' >= 2]_storeVars
PROOF
<1> SUFFICES ASSUME IInv, [StoreNext]_storeVars, ~UNCHANGED storeVars,
                    outcome' = "failed", Selected' # before
             PROVE  /\ Selected' = goal
                    /\ \/ step \in {"setMarker", "erase"}
                       \/ step \in RestoreSteps /\ faults' >= 2
                       \/ step \in ClearSteps /\ previous = "unknown" /\ faults' >= 2
  OBVIOUS
<1>1. ~(\E doc \in Docs : BeginWrite(doc)) /\ ~BeginClear /\ ~PowerLoss
  BY DEF BeginWrite, BeginClear, Begin, PowerLoss
<1>2. Selected' = goal
  <2>1. Selected' \in {before', goal'}
    BY StepInvariant DEF IInv, IdleInv
  <2>2. before' = before /\ goal' = goal
    BY <1>1 DEF StoreNext, StoreStep, ReadForWrite, SetBlob, CommitBlob, ReadBack, SetMarker,
                CommitMarker, VerifyMarker, VerifyBlob, ReadForClear, Erase, CommitErase,
                VerifyErase, Restore, RestoreCommit, operation
  <2> QED
    BY <2>1, <2>2
<1> USE TargetIsSpare, MaxFaultsAssumption, DocsAssumption
<1> USE DEF IInv, TypeOK, WriteInv, ClearInv, RestoreInv, IdleInv, SlotKeys, WriteSteps, ClearSteps,
            RestoreSteps, Untouched, Prepared, Selected, SelectedBy, Fault, Works, Goto, Ends,
            MarkerCall, operation, Target
<1>3. CASE ReadForWrite
  BY <1>3 DEF ReadForWrite
<1>4. CASE SetBlob
  BY <1>4 DEF SetBlob
<1>5. CASE CommitBlob \/ ReadBack
  BY <1>5 DEF CommitBlob, ReadBack
<1>6. CASE SetMarker \/ Erase
  BY <1>2, <1>6 DEF SetMarker, Erase
<1>7. CASE CommitMarker \/ VerifyMarker \/ VerifyBlob \/ ReadForClear
  BY <1>7 DEF CommitMarker, VerifyMarker, VerifyBlob, ReadForClear
<1>8. CASE CommitErase \/ VerifyErase
  BY <1>2, <1>8 DEF CommitErase, VerifyErase, RestoreIfKnown
<1>9. CASE Restore
  BY <1>2, <1>9 DEF Restore
<1>10. CASE RestoreCommit
  BY <1>2, <1>10 DEF RestoreCommit
<1> QED
  BY <1>1, <1>3, <1>4, <1>5, <1>6, <1>7, <1>8, <1>9, <1>10 DEF StoreNext, StoreStep

\* What a failed write or clear may have changed, and at which call.
THEOREM FailureTheorem == StoreSpec => FailureExplained
BY StoreInvariant, StepExplained, PTL DEF StoreSpec, FailureExplained

-----------------------------------------------------------------------------
(* The store implements the abstract register.                              *)

\* A new partition selects the factory document.
LEMMA InitRefines == StoreInit => Selection!Init
BY DEF StoreInit, Selection!Init, Selected, SlotKeys

\* Every NVS call is a step of the register or leaves it alone: only the calls
\* that set, erase or restore the marker can switch what is selected, and the
\* spare slot is written while nothing selects it.
LEMMA StepRefines ==
    IInv /\ [StoreNext]_storeVars => [Selection!Next]_Selection!selectionVars
PROOF
<1> SUFFICES ASSUME IInv, [StoreNext]_storeVars
             PROVE  Selection!Next \/ UNCHANGED Selection!selectionVars
  BY DEF Selection!selectionVars
<1> USE TargetIsSpare, MaxFaultsAssumption, DocsAssumption
<1> USE DEF IInv, TypeOK, SelectedSlotComplete, OldSlotComplete, WriteInv, ClearInv, RestoreInv, IdleInv,
            SlotKeys, Goals, WriteSteps, ClearSteps, RestoreSteps, Untouched, Prepared, Selected,
            SelectedBy, Fault, Works, Goto, Ends, MarkerCall, operation, Target,
            Selection!Next, Selection!selectionVars
<1>1. ASSUME NEW doc \in Docs, BeginWrite(doc) PROVE Selection!Begin(doc)
  BY <1>1 DEF BeginWrite, Begin, Selection!Begin
<1>2. CASE BeginClear
  BY <1>2 DEF BeginClear, Begin, Selection!Begin
<1>3. CASE ReadForWrite
  BY <1>3 DEF ReadForWrite, Selection!Fail
<1>4. CASE SetBlob
  BY <1>4 DEF SetBlob, Selection!Fail
<1>5. CASE CommitBlob
  BY <1>5 DEF CommitBlob, Selection!Fail
<1>6. CASE ReadBack
  BY <1>6 DEF ReadBack, Selection!Fail
<1>7. CASE SetMarker
  BY <1>7 DEF SetMarker, Selection!Switch, Selection!Fail
<1>8. CASE CommitMarker
  BY <1>8 DEF CommitMarker
<1>9. CASE VerifyMarker
  BY <1>9 DEF VerifyMarker
<1>10. CASE VerifyBlob
  BY <1>10 DEF VerifyBlob, Selection!Succeed
<1>11. CASE ReadForClear
  BY <1>11 DEF ReadForClear, Selection!Succeed
<1>12. CASE Erase
  BY <1>12 DEF Erase, Selection!Switch, Selection!Fail
<1>13. CASE CommitErase
  BY <1>13 DEF CommitErase, RestoreIfKnown, Selection!Fail
<1>14. CASE VerifyErase
  BY <1>14 DEF VerifyErase, RestoreIfKnown, Selection!Succeed, Selection!Fail
<1>15. CASE Restore
  BY <1>15 DEF Restore, Selection!Switch, Selection!Fail
<1>16. CASE RestoreCommit
  BY <1>16 DEF RestoreCommit, Selection!Fail
<1>17. CASE PowerLoss
  BY <1>17 DEF PowerLoss, Selection!Crash
<1>18. CASE UNCHANGED storeVars
  BY <1>18 DEF storeVars
<1> QED
  BY <1>1, <1>2, <1>3, <1>4, <1>5, <1>6, <1>7, <1>8, <1>9, <1>10, <1>11, <1>12, <1>13, <1>14, <1>15, <1>16, <1>17, <1>18 DEF StoreNext, StoreStep

\* What the store shows of its slots, marker and NVS calls is a register that an
\* operation replaces at once or not at all.
THEOREM StoreRefinesSelection == StoreSpec => SelectionSpec
<1>1. StoreSpec => [][Selection!Next]_Selection!selectionVars
  BY StoreInvariant, StepRefines, PTL DEF StoreSpec
<1> QED
  BY <1>1, InitRefines, PTL DEF StoreSpec, SelectionSpec, Selection!Spec

-----------------------------------------------------------------------------
(* The update around the store.                                            *)

AppliableDocs == {Canonical(c) : c \in Appliable}

\* The transfer has received the first blocks of the upload, all by itself.
TransferInv == fresh = 1..received

\* A commit that waits for the store wrote the upload the client announced.
CommitInv ==
    /\ handler = "commit" => goal = Canonical(crc) /\ received = total
    /\ handler = "revert" => goal = Factory
    /\ handler = "none" => step = "idle"

\* Nothing but canonical documents that the lighting setup accepts gets into a slot.
ContentInv ==
    /\ \A k \in SlotKeys : slot[k] \in AppliableDocs \cup {Missing, Torn}
    /\ step \in WriteSteps => goal \in AppliableDocs

\* A promise is out only while no operation can move the selection.
PromiseInv ==
    /\ handler # "none" => promised = Missing /\ ~rebooted
    /\ promised # Missing => step = "idle"
    /\ PromiseIsBooted

UInv == IInv /\ UpdateTypeOK /\ TransferInv /\ CommitInv /\ ContentInv /\ PromiseInv

-----------------------------------------------------------------------------
(* The update implements the store.                                         *)

\* The fields of an upload whose commit passed every check.
LEMMA CheckedUpload ==
    ASSUME NEW content, CommitCheck(content) = "Ok"
    PROVE  content = crc /\ content \in Appliable /\ Canonical(content) \in Docs
BY DEF CommitCheck

\* Every handler, timer and event is a step of the store or leaves it alone.
LEMMA StepIsStoreStep == [Next]_vars => [StoreNext]_storeVars
PROOF
<1> SUFFICES ASSUME [Next]_vars PROVE StoreNext \/ UNCHANGED storeVars
  OBVIOUS
<1>1. CASE CommitBegins
  <2>1. Canonical(Uploaded) \in Docs
    BY <1>1, CheckedUpload DEF CommitBegins
  <2> QED
    BY <1>1, <2>1 DEF CommitBegins, StoreNext
<1>2. CASE RevertBegins
  BY <1>2 DEF RevertBegins, StoreNext
<1>3. CASE StoreCall
  BY <1>3 DEF StoreCall, StoreNext
<1>4. CASE OnRestartTimer \/ PowerCycle
  BY <1>4 DEF OnRestartTimer, PowerCycle, StoreNext
<1>5. CASE \/ Connect \/ Disconnect \/ WriteStart \/ WriteChunk \/ WriteAbort \/ WriteRefused
           \/ CommitRejected \/ CommitEnds \/ RevertEnds \/ Tick \/ OnIdleTimer
           \/ UNCHANGED vars
  BY <1>5 DEF Connect, Disconnect, WriteStart, WriteChunk, WriteAbort, WriteRefused, CommitRejected,
              CommitEnds, RevertEnds, Tick, OnIdleTimer, vars
<1> QED
  BY <1>1, <1>2, <1>3, <1>4, <1>5 DEF Next

\* An update is a behaviour of the store: what is proved of the store holds of it.
THEOREM UpdateRefinesStore == Spec => StoreSpec
BY StepIsStoreStep, PTL DEF Spec, StoreSpec, Init

\* Through every upload, refusal, timer, restart and power loss, what the next
\* boot applies is a register that only a commit or a revert replaces, at once.
THEOREM UpdateRefinesSelection == Spec => SelectionSpec
BY UpdateRefinesStore, StoreRefinesSelection, PTL

-----------------------------------------------------------------------------
(* Every step preserves the invariant.                                      *)

\* A document is a sequence of at most MaxLength blocks.
LEMMA ContentLength == \A content \in Contents : Len(content) \in 1..MaxLength
BY UpdateAssumption DEF Contents

\* A store operation keeps its goal to the end.
LEMMA StoreStepKeepsGoal == StoreStep => goal' = goal
BY DEF StoreStep, ReadForWrite, SetBlob, CommitBlob, ReadBack, SetMarker, CommitMarker, VerifyMarker,
       VerifyBlob, ReadForClear, Erase, CommitErase, VerifyErase, Restore, RestoreCommit, operation

\* A reset selects nothing new.
LEMMA PowerLossKeepsSelected == IInv /\ PowerLoss => Selected' = Selected
BY TargetIsSpare, DocsAssumption
DEF PowerLoss, IInv, TypeOK, WriteInv, Untouched, Selected, SlotKeys

\* The type invariant in parts: the upload, the timers, and the rest.
UploadOK ==
    /\ total \in 0..MaxLength /\ received \in 0..total
    /\ crc \in Contents \cup {<<>>}
    /\ DOMAIN buffer = 1..MaxLength
    /\ fresh \subseteq 1..MaxLength
ClockOK == age \in 0..(2 * Timeout) /\ idleTimer \in 0..Off /\ restartTimer \in 0..Off
ModeOK ==
    /\ linked \in BOOLEAN
    /\ state \in {"Idle", "Receiving", "RestartPending"}
    /\ result \in {"None", "Saved", "ConfigRejected", "ApplyRejected", "StorageFailed",
                   "ChecksumMismatch", "TimedOut", "Interrupted", "Aborted"}
    /\ handler \in {"none", "commit", "revert"}
    /\ storage \in {"ok", "unreadable", "absent"}
    /\ running \in Goals
    /\ promised \in Goals \cup {Missing} /\ rebooted \in BOOLEAN

LEMMA TypeParts == UpdateTypeOK <=> TypeOK /\ UploadOK /\ ClockOK /\ ModeOK
BY DEF UpdateTypeOK, UploadOK, ClockOK, ModeOK

\* A transfer that ends leaves no upload behind; its buffer keeps its size.
LEMMA FinishedUpload ==
    ASSUME NEW why, UploadOK, Finish(why)
    PROVE  UploadOK' /\ age' = 0
BY UpdateAssumption DEF Finish, UploadOK

\* Every step keeps an upload within the buffer.
LEMMA StepUpload == UploadOK /\ [Next]_vars => UploadOK'
<1> SUFFICES ASSUME UploadOK, [Next]_vars PROVE UploadOK'
  OBVIOUS
<1>1. CASE UNCHANGED <<total, received, crc, buffer, fresh>>
  BY <1>1 DEF UploadOK
<1>2. CASE \E why \in {"Interrupted", "Aborted", "TimedOut"} \cup {CommitCheck(Uploaded)} : Finish(why)
  BY <1>2, FinishedUpload
<1>3. CASE WriteStart
  BY <1>3, ContentLength DEF WriteStart, UploadOK
<1>4. CASE WriteChunk
  <2>1. DOMAIN buffer' = 1..MaxLength
    BY <1>4 DEF WriteChunk
  <2>2. PICK data \in Contents : /\ received + Len(data) <= total
                                 /\ fresh' = fresh \cup (received + 1)..(received + Len(data))
                                 /\ received' = received + Len(data)
    BY <1>4 DEF WriteChunk, Fits
  <2>3. Len(data) \in 1..MaxLength /\ total' = total /\ crc' = crc
    BY <1>4, ContentLength DEF WriteChunk
  <2>4. received' \in 0..total' /\ received' \in 0..MaxLength
    BY <2>2, <2>3, UpdateAssumption DEF UploadOK
  <2>5. fresh' \subseteq 1..MaxLength
    <3>1. fresh' = fresh \cup (received + 1)..received' /\ received \in Nat /\ MaxLength \in Nat
      BY <2>2, UpdateAssumption DEF UploadOK
    <3> QED
      BY <2>4, <3>1 DEF UploadOK
  <2> QED
    BY <2>1, <2>3, <2>4, <2>5 DEF UploadOK
<1>5. CASE CommitEnds
  BY <1>5, UpdateAssumption DEF CommitEnds, UploadOK
<1>6. CASE Boot
  <2>1. DOMAIN buffer' = 1..MaxLength
    BY <1>6 DEF Boot
  <2> QED
    BY <1>6, <2>1, UpdateAssumption DEF Boot, UploadOK
<1> QED
  BY <1>1, <1>2, <1>3, <1>4, <1>5, <1>6
  DEF Next, vars, updateVars, uploadVars, Connect, Disconnect, WriteAbort, WriteRefused, CommitRejected,
      CommitBegins, RevertBegins, RevertEnds, StoreCall, Tick, OnIdleTimer, OnRestartTimer, PowerCycle

\* Every step keeps the timers between due and stopped.
LEMMA StepClock == ClockOK /\ [Next]_vars => ClockOK'
<1> SUFFICES ASSUME ClockOK, [Next]_vars PROVE ClockOK'
  OBVIOUS
<1> DEFINE limit == 2 * Timeout
<1>1. age' \in 0..limit
  <2>1. limit \in Nat /\ age \in 0..limit
    BY UpdateAssumption DEF ClockOK
  <2> HIDE DEF limit
  <2>2. age' = 0 \/ age' = age \/ (age < limit /\ age' = age + 1)
    BY DEF limit, Finish, Next, vars, updateVars, uploadVars, Connect, Disconnect, WriteStart,
           WriteChunk, WriteAbort, WriteRefused, CommitRejected, CommitBegins, CommitEnds,
           RevertBegins, RevertEnds, StoreCall, Tick, OnIdleTimer, OnRestartTimer, PowerCycle, Boot
  <2> QED
    BY <2>1, <2>2
<1>2. idleTimer' \in {idleTimer, Timeout, Off, Down(idleTimer)}
  BY DEF TrackIdle, Next, vars, updateVars, timerVars, Connect, Disconnect, WriteStart,
         WriteChunk, WriteAbort, WriteRefused, CommitRejected, CommitBegins, CommitEnds,
         RevertBegins, RevertEnds, StoreCall, Tick, OnIdleTimer, OnRestartTimer, PowerCycle, Boot
<1>3. restartTimer' \in {restartTimer, 0, RestartWait, Off, Down(restartTimer)}
  BY DEF Next, vars, updateVars, timerVars, Connect, Disconnect, WriteStart,
         WriteChunk, WriteAbort, WriteRefused, CommitRejected, CommitBegins, CommitEnds,
         RevertBegins, RevertEnds, StoreCall, Tick, OnIdleTimer, OnRestartTimer, PowerCycle, Boot
<1>4. \A timer \in 0..Off : Down(timer) \in 0..Off
  BY UpdateAssumption DEF Down, Off
<1>5. {0, Timeout, RestartWait, Off} \subseteq 0..Off
  BY UpdateAssumption DEF Off
<1> QED
  BY <1>1, <1>2, <1>3, <1>4, <1>5 DEF ClockOK

\* Every step keeps the modes, what runs and what is promised among their values.
LEMMA StepMode == IInv /\ ModeOK /\ [Next]_vars => ModeOK'
<1> SUFFICES ASSUME IInv, ModeOK, [Next]_vars PROVE ModeOK'
  OBVIOUS
<1>1. Selected' \in Goals /\ goal \in Goals /\ Factory \in Goals
  BY DEF IInv, TypeOK, Selected, Goals
<1> USE DEF ModeOK, Next, vars, updateVars, bootVars, promiseVars, uploadVars, Finish, CommitCheck,
            Connect, Disconnect, WriteStart, WriteChunk, WriteAbort, WriteRefused, CommitRejected,
            CommitBegins, CommitEnds, RevertBegins, RevertEnds, StoreCall, Tick, OnIdleTimer,
            OnRestartTimer, PowerCycle, Boot
<1>2. linked' \in BOOLEAN /\ rebooted' \in BOOLEAN
  OBVIOUS
<1>3. state' \in {"Idle", "Receiving", "RestartPending"}
  OBVIOUS
<1>4. result' \in {"None", "Saved", "ConfigRejected", "ApplyRejected", "StorageFailed",
                   "ChecksumMismatch", "TimedOut", "Interrupted", "Aborted"}
  OBVIOUS
<1>5. handler' \in {"none", "commit", "revert"} /\ storage' \in {"ok", "unreadable", "absent"}
  OBVIOUS
<1>6. running' \in Goals /\ promised' \in Goals \cup {Missing}
  BY <1>1
<1> QED
  BY <1>2, <1>3, <1>4, <1>5, <1>6

-----------------------------------------------------------------------------
(* Who may write what while a handler waits for the store.                  *)

\* The update starts from a new partition, without a transfer or a promise.
LEMMA InitUpdate == Init => UInv
<1> SUFFICES ASSUME Init PROVE UInv
  OBVIOUS
<1>1. IInv
  BY InitInvariant DEF Init
<1>2. UploadOK /\ ClockOK
  BY UpdateAssumption DEF Init, UploadOK, ClockOK, Off
<1>3. UpdateTypeOK
  BY <1>1, <1>2, TypeParts DEF Init, IInv, ModeOK, Goals
<1> QED
  BY <1>1, <1>3, UpdateAssumption
  DEF UInv, Init, StoreInit, TransferInv, CommitInv, ContentInv, PromiseInv, PromiseIsBooted,
      WriteSteps

\* The blocks of an upload arrive in order, each chunk after the last one.
LEMMA StepTransfer == UploadOK /\ TransferInv /\ [Next]_vars => TransferInv'
<1> SUFFICES ASSUME UploadOK, TransferInv, [Next]_vars PROVE TransferInv'
  OBVIOUS
<1>1. CASE UNCHANGED <<received, fresh>>
  BY <1>1 DEF TransferInv
<1>2. CASE fresh' = {} /\ received' = 0
  BY <1>2 DEF TransferInv
<1>3. CASE WriteChunk
  <2>1. PICK data \in Contents : /\ fresh' = fresh \cup (received + 1)..(received + Len(data))
                                 /\ received' = received + Len(data)
    BY <1>3 DEF WriteChunk
  <2>2. Len(data) \in Nat /\ received \in Nat
    BY ContentLength, UpdateAssumption DEF UploadOK
  <2> QED
    BY <2>1, <2>2 DEF TransferInv
<1> QED
  BY <1>1, <1>2, <1>3
  DEF Next, vars, updateVars, uploadVars, Finish, Connect, Disconnect, WriteStart, WriteAbort,
      WriteRefused, CommitRejected, CommitBegins, CommitEnds, RevertBegins, RevertEnds, StoreCall, Tick,
      OnIdleTimer, OnRestartTimer, PowerCycle, Boot

\* Only the handler that began an operation waits for it, and nothing else runs.
LEMMA StepCommit == CommitInv /\ [Next]_vars => CommitInv'
<1> SUFFICES ASSUME CommitInv, [Next]_vars PROVE CommitInv'
  OBVIOUS
<1> USE DEF CommitInv
<1>1. CASE CommitBegins
  <2>1. Uploaded = crc /\ received = total
    BY <1>1, CheckedUpload DEF CommitBegins, Complete
  <2> QED
    BY <1>1, <2>1 DEF CommitBegins, BeginWrite, Begin, uploadVars
<1>2. CASE RevertBegins
  BY <1>2 DEF RevertBegins, BeginClear, Begin
<1>3. CASE StoreCall
  BY <1>3, StoreStepKeepsGoal DEF StoreCall, updateVars, uploadVars
<1>4. CASE OnRestartTimer \/ PowerCycle
  BY <1>4 DEF OnRestartTimer, PowerCycle, PowerLoss, Boot
<1>5. CASE CommitEnds \/ RevertEnds
  BY <1>5 DEF CommitEnds, RevertEnds, storeVars
<1>6. CASE UNCHANGED <<handler, storeVars>> /\ handler = "none"
  BY <1>6 DEF storeVars
<1>7. CASE UNCHANGED vars
  BY <1>7 DEF vars, storeVars, updateVars, uploadVars
<1> QED
  BY <1>1, <1>2, <1>3, <1>4, <1>5, <1>6, <1>7
  DEF Next, Free, Connect, Disconnect, WriteStart, WriteChunk, WriteAbort, WriteRefused, CommitRejected,
      Tick, OnIdleTimer

\* What a commit stores has passed the dry run; a fault or a reset can only tear it.
LEMMA StepContent == IInv /\ ContentInv /\ [Next]_vars => ContentInv'
<1> SUFFICES ASSUME IInv, ContentInv, [Next]_vars PROVE ContentInv'
  OBVIOUS
<1> USE DEF ContentInv, WriteSteps
<1>1. CASE CommitBegins
  <2>1. Canonical(Uploaded) \in AppliableDocs
    BY <1>1, CheckedUpload DEF CommitBegins, AppliableDocs
  <2> QED
    BY <1>1, <2>1 DEF CommitBegins, BeginWrite, Begin
<1>2. CASE RevertBegins
  BY <1>2 DEF RevertBegins, BeginClear, Begin
<1>3. CASE SetBlob
  BY <1>3, TargetIsSpare DEF SetBlob, IInv, TypeOK, Goto, Ends, operation
<1>4. CASE StoreStep /\ ~SetBlob
  BY <1>4
  DEF StoreStep, ReadForWrite, CommitBlob, ReadBack, SetMarker, CommitMarker, VerifyMarker, VerifyBlob,
      ReadForClear, Erase, CommitErase, VerifyErase, RestoreIfKnown, Restore, RestoreCommit, Goto,
      Ends, MarkerCall, operation
<1>5. CASE PowerLoss
  BY <1>5, TargetIsSpare DEF PowerLoss, IInv, TypeOK
<1>6. CASE UNCHANGED storeVars
  BY <1>6 DEF storeVars
<1> QED
  BY <1>1, <1>2, <1>3, <1>4, <1>5, <1>6
  DEF Next, vars, Connect, Disconnect, WriteStart, WriteChunk, WriteAbort, WriteRefused, CommitRejected,
      CommitEnds, RevertEnds, StoreCall, Tick, OnIdleTimer, OnRestartTimer, PowerCycle

\* A promise is made when the operation has ended and withdrawn before the next
\* one begins; nothing between moves what it says.
LEMMA StepPromise == IInv /\ CommitInv /\ PromiseInv /\ [Next]_vars => PromiseInv'
<1> SUFFICES ASSUME IInv, CommitInv, PromiseInv, [Next]_vars PROVE PromiseInv'
  OBVIOUS
<1> USE DEF PromiseInv, PromiseIsBooted
<1>1. CASE CommitBegins \/ RevertBegins
  BY <1>1 DEF CommitBegins, RevertBegins
<1>2. CASE StoreCall
  BY <1>2 DEF StoreCall, updateVars, promiseVars
<1>3. CASE CommitEnds \/ RevertEnds
  <2>1. Selected' = Selected /\ step' = "idle" /\ handler' = "none"
    BY <1>3 DEF CommitEnds, RevertEnds, storeVars, Selected
  <2>2. handler # "none" /\ UNCHANGED rebooted
    BY <1>3 DEF CommitEnds, RevertEnds
  <2>3. promised' \in {Missing, Selected}
    BY <1>3 DEF CommitEnds, RevertEnds, WriteSucceeded, IInv, IdleInv, CommitInv
  <2> QED
    BY <2>1, <2>2, <2>3
<1>4. CASE PowerLoss /\ Boot
  BY <1>4, PowerLossKeepsSelected DEF PowerLoss, Boot
<1>5. CASE UNCHANGED <<storeVars, handler, bootVars, promiseVars>>
  BY <1>5 DEF storeVars, bootVars, promiseVars, Selected
<1> QED
  BY <1>1, <1>2, <1>3, <1>4, <1>5
  DEF Next, vars, updateVars, Connect, Disconnect, WriteStart, WriteChunk, WriteAbort, WriteRefused,
      CommitRejected, Tick, OnIdleTimer, OnRestartTimer, PowerCycle

-----------------------------------------------------------------------------
(* What holds of every update.                                              *)

\* What reaches the store is the announced upload, all of it from this transfer.
LEMMA ImpliesStoresOnlyThisUpload == UInv => StoresOnlyThisUpload
BY DEF UInv, CommitInv, TransferInv, StoresOnlyThisUpload

\* A selected slot is complete, and only appliable documents are ever complete.
LEMMA ImpliesSelectedIsAppliable == UInv => SelectedIsAppliable
BY DocsAssumption
DEF UInv, IInv, SelectedSlotComplete, ContentInv, SelectedIsAppliable, Selected, AppliableDocs, SlotKeys

\* UInv is inductive.
LEMMA StepUpdate == UInv /\ [Next]_vars => UInv'
<1> SUFFICES ASSUME UInv, [Next]_vars PROVE UInv'
  OBVIOUS
<1>1. IInv'
  BY StepIsStoreStep, StepInvariant DEF UInv
<1>2. UpdateTypeOK'
  <2>1. UploadOK' /\ ClockOK' /\ ModeOK'
    BY TypeParts, StepUpload, StepClock, StepMode DEF UInv
  <2>2. UpdateTypeOK' <=> (TypeOK /\ UploadOK /\ ClockOK /\ ModeOK)'
    BY DEF UpdateTypeOK, UploadOK, ClockOK, ModeOK
  <2> QED
    BY <1>1, <2>1, <2>2 DEF IInv
<1> QED
  BY <1>1, <1>2, TypeParts, StepTransfer, StepCommit, StepContent, StepPromise DEF UInv

\* The inductive invariant holds in every reachable state of an update.
THEOREM UpdateInvariant == Spec => []UInv
BY InitUpdate, StepUpdate, PTL DEF Spec

\* Type correctness of the update and of the store under it.
THEOREM UpdateTypeCorrect == Spec => []UpdateTypeOK
BY UpdateInvariant, PTL DEF UInv

\* Bytes that an earlier transfer left in the buffer never complete a document.
THEOREM UploadTheorem == Spec => []StoresOnlyThisUpload
BY UpdateInvariant, ImpliesStoresOnlyThisUpload, PTL

\* No update, fault or reset can leave a boot without lighting.
THEOREM AppliableTheorem == Spec => []SelectedIsAppliable
BY UpdateInvariant, ImpliesSelectedIsAppliable, PTL

\* The client's last answer says what every later boot applies.
THEOREM PromiseTheorem == Spec => []PromiseIsBooted
BY UpdateInvariant, PTL DEF UInv, PromiseInv

\* What the store promises at every crash point it promises under an update.
THEOREM UpdateKeepsStore ==
    Spec => /\ [](SelectedSlotComplete /\ ReplacementAtomic /\ SuccessMeansSelected)
            /\ FailureExplained
BY UpdateRefinesStore, StoreInvariant, InvariantImplies, FailureTheorem, PTL

=============================================================================
