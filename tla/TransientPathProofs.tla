-------------------------- MODULE TransientPathProofs --------------------------
(***************************************************************************)
(* Proofs about TransientPath, for every set of transients, every duration *)
(* and every number of triggers, off orders and driver faults.             *)
(*                                                                         *)
(* ChainInv orders the sequence numbers along the path, from the binding   *)
(* through command, queue and worker to the layers: that is why an old     *)
(* start can never play again. CarryInv says where the newest start of a   *)
(* binding is, EpochInv what still stands between a layer of an earlier    *)
(* epoch and the strip.                                                    *)
(***************************************************************************)
EXTENDS TransientPath, FiniteSetTheorems, TLAPS

\* The steps of the engine task, of the off orders, and of the worker.
EngineTask ==
    \/ ExecuteTrigger \/ ExecuteLevel \/ EnterGate \/ CheckGate \/ SendCommand \/ RecheckGate
    \/ CompareEpoch \/ TrailingBlack \/ DiscardStarts
OffOrder ==
    FailOffEpoch \/ FailOffBlack \/ CloseGate \/ CloseEpoch \/ CloseBlack \/ OpenEpoch \/ OpenGate
WorkerPass == Receive \/ Apply \/ TickPass \/ EndPass

Layers == [seq : 0..MaxSequence, started : 0..MaxTime, active : BOOLEAN]

-----------------------------------------------------------------------------
(* Types.                                                                   *)

\* What the engine task and the off orders write.
SenderOK ==
    /\ now \in 0..MaxTime /\ epoch \in 0..MaxEpoch /\ gateOpen \in BOOLEAN
    /\ binding \in [Ids -> [seq : 0..MaxSequence, at : 0..MaxTime, epoch : 0..MaxEpoch,
                            retained : BOOLEAN]]
    /\ held \in BOOLEAN
    /\ pc \in {"idle", "enter", "check", "send", "recheck", "compare", "black", "rejected"}
    /\ command \in Commands /\ sentEpoch \in 0..MaxEpoch
    /\ queue = {} \/ \E c \in Commands : queue = {c}
    /\ spc \in {"idle", "closeEpoch", "closeBlack", "stalled", "openState"}
    /\ fpc \in {"idle", "black"}
    /\ overridden \in BOOLEAN

\* What the worker writes.
WorkerOK ==
    /\ wpc \in {"receive", "apply", "fault"}
    /\ taken \in Commands /\ shown \in BOOLEAN
    /\ timing \in [Ids -> Layers]
    /\ seenEpoch \in 0..MaxEpoch
    /\ faulted \in BOOLEAN /\ blackWritten \in BOOLEAN /\ faults \in 0..MaxFaults
    /\ origin \in [Ids -> Starts]
    /\ played \subseteq Ids \X (0..MaxSequence)

LEMMA TypeParts == SenderOK /\ WorkerOK /\ (\A p \in played : p[2] # 0) => TypeOK
<1> SUFFICES ASSUME SenderOK, WorkerOK PROVE queue \subseteq Commands /\ Cardinality(queue) <= 1
  <2>1. (\A p \in played : p[2] # 0) /\ WorkerOK => played \subseteq Ids \X (1..MaxSequence)
    BY TimeBoundsAssumption DEF WorkerOK
  <2> QED
    BY <2>1 DEF SenderOK, WorkerOK, TypeOK, Layers
<1>1. CASE queue = {}
  BY <1>1, FS_EmptySet
<1>2. CASE \E c \in Commands : queue = {c}
  <2>1. PICK c \in Commands : queue = {c}
    BY <1>2
  <2>2. Cardinality({c}) = 1
    BY FS_Singleton
  <2> QED
    BY <2>1, <2>2
<1> QED
  BY <1>1, <1>2 DEF SenderOK

LEMMA NoneAndBlack == None \in Starts /\ Black \in Commands
BY TimeBoundsAssumption DEF None, Black, Starts, Commands

\* A snapshot carries a start of this epoch or none.
LEMMA HeldIsCommand ==
    ASSUME NEW b \in [Ids -> [seq : 0..MaxSequence, at : 0..MaxTime, epoch : 0..MaxEpoch,
                              retained : BOOLEAN]],
           NEW lit \in BOOLEAN, NEW e
    PROVE  /\ HeldCommand(b, lit, e) \in Commands
           /\ \A i \in Ids : HeldCommand(b, lit, e).starts[i] =
                 IF b[i].retained /\ b[i].epoch = e
                 THEN [seq |-> b[i].seq, at |-> b[i].at, epoch |-> b[i].epoch] ELSE None
<1> DEFINE starts == [i \in Ids |-> IF b[i].retained /\ b[i].epoch = e
                                    THEN [seq |-> b[i].seq, at |-> b[i].at, epoch |-> b[i].epoch]
                                    ELSE None]
<1>1. starts \in [Ids -> Starts]
  BY NoneAndBlack DEF Starts
<1> HIDE DEF starts
<1>2. HeldCommand(b, lit, e) = [starts |-> starts, actionable |-> lit \/ \E i \in Ids : starts[i] # None]
  BY DEF HeldCommand, starts
<1>3. (lit \/ \E i \in Ids : starts[i] # None) \in BOOLEAN
  OBVIOUS
<1> QED
  BY <1>1, <1>2, <1>3 DEF Commands, starts

LEMMA InitTypes == Init => SenderOK /\ WorkerOK
<1> SUFFICES ASSUME Init PROVE SenderOK /\ WorkerOK
  OBVIOUS
<1> USE TimeBoundsAssumption, NoneAndBlack DEF Init
<1>1. SenderOK
  <2>1. binding \in [Ids -> [seq : 0..MaxSequence, at : 0..MaxTime, epoch : 0..MaxEpoch,
                             retained : BOOLEAN]]
    OBVIOUS
  <2>2. now \in 0..MaxTime /\ epoch \in 0..MaxEpoch /\ command \in Commands /\ sentEpoch \in 0..MaxEpoch
    OBVIOUS
  <2>3. gateOpen \in BOOLEAN /\ held \in BOOLEAN /\ overridden \in BOOLEAN /\ queue = {}
        /\ pc = "idle" /\ spc = "idle" /\ fpc = "idle"
    OBVIOUS
  <2> HIDE DEF Init
  <2> QED
    BY <2>1, <2>2, <2>3 DEF SenderOK
<1>2. timing \in [Ids -> Layers] /\ origin \in [Ids -> Starts]
  BY DEF Layers
<1>3. WorkerOK
  <2>1. faults \in 0..MaxFaults /\ seenEpoch \in 0..MaxEpoch
    OBVIOUS
  <2>2. taken \in Commands /\ wpc \in {"receive", "apply", "fault"}
    OBVIOUS
  <2>3. played \subseteq Ids \X (0..MaxSequence)
    OBVIOUS
  <2> QED
    BY <1>2, <2>1, <2>2, <2>3 DEF WorkerOK
<1> QED
  BY <1>1, <1>3

\* The engine task and the off orders keep their variables among their values.
LEMMA StepSenderTypes == SenderOK /\ WorkerOK /\ [Next]_vars => SenderOK'
<1> SUFFICES ASSUME SenderOK, WorkerOK, [Next]_vars PROVE SenderOK'
  OBVIOUS
<1> USE TimeBoundsAssumption, NoneAndBlack
<1> DEFINE Bindings == [Ids -> [seq : 0..MaxSequence, at : 0..MaxTime, epoch : 0..MaxEpoch,
                                retained : BOOLEAN]]
<1>1. CASE ExecuteTrigger
  <2>1. PICK i \in Ids :
          /\ binding[i].seq < MaxSequence
          /\ binding' = [binding EXCEPT ![i] = [seq |-> @.seq + 1, at |-> now, epoch |-> epoch,
                                                retained |-> TRUE]]
    BY <1>1 DEF ExecuteTrigger
  <2>2. binding' \in Bindings
    BY <2>1 DEF SenderOK
  <2>3. command' \in Commands
    BY <1>1, <2>2, HeldIsCommand DEF ExecuteTrigger, SenderOK
  <2> HIDE DEF Bindings
  <2> QED
    BY <1>1, <2>2, <2>3 DEF ExecuteTrigger, SenderOK, gateVars, Bindings
<1>2. CASE ExecuteLevel
  <2>1. held' \in BOOLEAN /\ command' = HeldCommand(binding, held', epoch)
    BY <1>2 DEF ExecuteLevel
  <2>2. command' \in Commands
    BY <2>1, HeldIsCommand DEF SenderOK
  <2> QED
    BY <1>2, <2>1, <2>2 DEF ExecuteLevel, SenderOK, gateVars
<1>3. CASE DiscardStarts
  <2>1. binding' \in Bindings
    BY <1>3 DEF DiscardStarts, SenderOK
  <2> QED
    BY <1>3, <2>1 DEF DiscardStarts, SenderOK, gateVars
<1>4. CASE EnterGate \/ CheckGate \/ RecheckGate \/ CompareEpoch
  BY <1>4 DEF EnterGate, CheckGate, RecheckGate, CompareEpoch, SenderOK, gateVars
<1>5. CASE SendCommand \/ TrailingBlack
  BY <1>5 DEF SendCommand, TrailingBlack, SenderOK, gateVars
<1>6. CASE FailOffEpoch \/ CloseGate \/ CloseEpoch \/ OpenEpoch \/ OpenGate
  <2>1. UNCHANGED <<now, publisherVars, queue, overridden>>
    BY <1>6 DEF FailOffEpoch, CloseGate, CloseEpoch, OpenEpoch, OpenGate, OffOther
  <2>2. epoch' \in 0..MaxEpoch
    BY <1>6 DEF FailOffEpoch, CloseGate, CloseEpoch, OpenEpoch, OpenGate, SenderOK
  <2>3. /\ gateOpen' \in BOOLEAN /\ fpc' \in {"idle", "black"}
        /\ spc' \in {"idle", "closeEpoch", "closeBlack", "stalled", "openState"}
    BY <1>6 DEF FailOffEpoch, CloseGate, CloseEpoch, OpenEpoch, OpenGate, SenderOK
  <2> QED
    BY <2>1, <2>2, <2>3 DEF publisherVars, SenderOK
<1>7. CASE FailOffBlack \/ CloseBlack
  BY <1>7 DEF FailOffBlack, CloseBlack, OffOther, publisherVars, SenderOK
<1>8. CASE ClockTick
  BY <1>8 DEF ClockTick, gateVars, publisherVars, SenderOK
<1>9. CASE Receive \/ Apply \/ TickPass \/ UNCHANGED vars
  <2>1. UNCHANGED <<now, gateVars, publisherVars, overridden>> /\ queue' \in {queue, {}}
    BY <1>9 DEF Receive, Apply, TickPass, vars
  <2> QED
    BY <2>1 DEF gateVars, publisherVars, SenderOK
<1>10. CASE EndPass
  BY <1>10 DEF EndPass, publisherVars, SenderOK
<1> QED
  BY <1>1, <1>2, <1>3, <1>4, <1>5, <1>6, <1>7, <1>8, <1>9, <1>10 DEF Next

\* What a pass makes of a layer: it is left alone, made idle or started now.
Shapes(layers) ==
    \A i \in Ids : \/ timing'[i] = layers[i] /\ now - layers[i].started < Duration
                   \/ timing'[i] = IdleLayer(layers[i])

LEMMA TickShapes ==
    ASSUME DurationAssumption, SenderOK, WorkerOK, NEW layers \in [Ids -> Layers],
           NEW actionable \in BOOLEAN, NEW isFaulted \in BOOLEAN,
           TickAndWrite(layers, actionable, isFaulted)
    PROVE  /\ Shapes(layers)
           /\ timing' \in [Ids -> Layers] /\ faulted' \in BOOLEAN /\ blackWritten' \in BOOLEAN
           /\ faults' \in 0..MaxFaults
           /\ faulted' => \A i \in Ids : ~timing'[i].active
<1> DEFINE start == IF isFaulted \/ ~actionable THEN Cancel(layers) ELSE layers
           kept == Expire(start)
           Idle == [i \in Ids |-> IdleLayer(layers[i])]
<1>1. ASSUME NEW layer \in Layers
      PROVE  /\ IdleLayer(layer) \in Layers /\ ~IdleLayer(layer).active
             /\ IdleLayer(IdleLayer(layer)) = IdleLayer(layer)
             /\ IdleLayer(layer).seq = layer.seq
  BY TimeBoundsAssumption DEF Layers, IdleLayer
<1>2. \A i \in Ids : layers[i] \in Layers
  OBVIOUS
<1>3. \A i \in Ids :
        \/ kept[i] = IdleLayer(layers[i])
        \/ /\ kept[i] = layers[i] /\ now - layers[i].started < Duration
           /\ ~isFaulted /\ actionable
  <2> TAKE i \in Ids
  <2>1. CASE isFaulted \/ ~actionable
    <3>1. start[i] = IdleLayer(layers[i])
      BY <2>1 DEF Cancel
    <3> QED
      BY <1>1, <1>2, <3>1 DEF Expire
  <2>2. CASE ~(isFaulted \/ ~actionable)
    BY <2>2 DEF Expire
  <2> QED
    BY <2>1, <2>2
<1>4. \A i \in Ids : Cancel(kept)[i] = IdleLayer(layers[i])
  BY <1>1, <1>2, <1>3 DEF Cancel
<1>5. Cancel(kept) = Idle
  BY <1>4 DEF Cancel
<1>6. \/ timing' = kept /\ faulted' = isFaulted
      \/ timing' = Cancel(kept) /\ faulted'
  BY DEF TickAndWrite
<1>7. \A i \in Ids :
        \/ timing'[i] = IdleLayer(layers[i])
        \/ /\ timing'[i] = layers[i] /\ now - layers[i].started < Duration
           /\ ~faulted'
  BY <1>3, <1>4, <1>6
<1>8. timing' \in [Ids -> Layers]
  <2>1. \A i \in Ids : timing'[i] \in Layers
    BY <1>1, <1>2, <1>7
  <2>2. timing' = kept \/ timing' = Cancel(kept)
    BY <1>6
  <2>3. timing' = [i \in Ids |-> timing'[i]]
    BY <2>2 DEF Expire, Cancel
  <2> QED
    BY <2>1, <2>3
<1>9. faulted' \in BOOLEAN /\ blackWritten' \in BOOLEAN /\ faults' \in 0..MaxFaults
  <2>1. faults' \in 0..MaxFaults
    <3>1. faults' = faults \/ (faults < MaxFaults /\ faults' = faults + 1)
      BY DEF TickAndWrite
    <3> QED
      BY <3>1, TimeBoundsAssumption DEF WorkerOK
  <2>2. faulted' \in BOOLEAN
    BY DEF TickAndWrite
  <2>3. (isFaulted \/ ~actionable) \in BOOLEAN /\ (actionable /\ ~isFaulted) \in BOOLEAN
    OBVIOUS
  <2>4. blackWritten' \in BOOLEAN
    BY <2>3, Zenon DEF TickAndWrite
  <2> QED
    BY <2>1, <2>2, <2>4
<1> QED
  BY <1>1, <1>2, <1>7, <1>8, <1>9 DEF Shapes

\* The layers of apply() before its tick, and the bindings that start there.
BaseLayers == IF epoch # seenEpoch THEN Cancel(timing) ELSE timing
AppliedLayers == [i \in Ids |-> Layer(taken.starts[i], epoch, BaseLayers[i])]
Started == {i \in Ids : taken.starts[i] # None /\ BaseLayers[i].seq # taken.starts[i].seq}

\* apply() starts a binding, leaves its layer as it was, or makes it idle.
LEMMA AppliedLayer ==
    ASSUME SenderOK, WorkerOK, NEW i \in Ids
    PROVE  /\ BaseLayers[i] \in Layers /\ BaseLayers[i].seq = timing[i].seq
           /\ AppliedLayers[i] \in Layers
           /\ AppliedLayers[i].seq =
                IF taken.starts[i] = None THEN timing[i].seq ELSE taken.starts[i].seq
           /\ AppliedLayers[i].active =>
                 /\ taken.starts[i] # None
                 /\ IF i \in Started
                    THEN /\ Admitted(taken.starts[i], epoch)
                         /\ AppliedLayers[i].started = now
                    ELSE epoch = seenEpoch /\ AppliedLayers[i] = timing[i]
<1>1. timing[i] \in Layers /\ taken.starts[i] \in Starts /\ now \in 0..MaxTime
  BY DEF SenderOK, WorkerOK, Commands
<1>2. BaseLayers[i] = (IF epoch # seenEpoch THEN IdleLayer(timing[i]) ELSE timing[i])
  BY DEF BaseLayers, Cancel
<1>3. /\ BaseLayers[i] \in Layers /\ BaseLayers[i].seq = timing[i].seq
      /\ BaseLayers[i].active => BaseLayers[i] = timing[i] /\ epoch = seenEpoch
  BY <1>1, <1>2, TimeBoundsAssumption DEF IdleLayer, Layers
<1>4. AppliedLayers[i] = Layer(taken.starts[i], epoch, BaseLayers[i])
  BY DEF AppliedLayers
<1>5. taken.starts[i].seq \in 0..MaxSequence
  BY <1>1 DEF Starts
<1>6. CASE taken.starts[i] = None
  BY <1>3, <1>4, <1>6, TimeBoundsAssumption DEF Layer, IdleLayer, Layers
<1>7. CASE taken.starts[i] # None /\ BaseLayers[i].seq = taken.starts[i].seq
  BY <1>3, <1>4, <1>7 DEF Layer, Started
<1>8. CASE taken.starts[i] # None /\ BaseLayers[i].seq # taken.starts[i].seq
  <2>1. i \in Started
    BY <1>8 DEF Started
  <2> QED
    BY <1>1, <1>3, <1>4, <1>5, <1>8, <2>1, TimeBoundsAssumption DEF Layer, Layers
<1> QED
  BY <1>6, <1>7, <1>8

LEMMA ApplyEffect ==
    ASSUME SenderOK, WorkerOK, Apply
    PROVE  /\ AppliedLayers \in [Ids -> Layers] /\ Shapes(AppliedLayers)
           /\ timing' \in [Ids -> Layers] /\ faulted' \in BOOLEAN /\ blackWritten' \in BOOLEAN
           /\ faults' \in 0..MaxFaults
           /\ faulted' => \A i \in Ids : ~timing'[i].active
           /\ origin' = [i \in Ids |-> IF ~timing'[i].active THEN None
                                       ELSE IF i \in Started THEN taken.starts[i] ELSE origin[i]]
           /\ played' = played \cup
                          {<<i, AppliedLayers[i].seq>> : i \in {j \in Started : AppliedLayers[j].active}}
<1>1. AppliedLayers \in [Ids -> Layers]
  <2>1. \A i \in Ids : AppliedLayers[i] \in Layers
    BY AppliedLayer
  <2> QED
    BY <2>1 DEF AppliedLayers
<1>2. taken.actionable \in BOOLEAN /\ (faulted /\ ~blackWritten) \in BOOLEAN
  BY DEF WorkerOK, Commands
<1>3. TickAndWrite(AppliedLayers, taken.actionable, faulted /\ ~blackWritten)
  BY DEF Apply, AppliedLayers, BaseLayers
<1>4. /\ origin' = [i \in Ids |-> IF ~timing'[i].active THEN None
                                  ELSE IF i \in Started THEN taken.starts[i] ELSE origin[i]]
      /\ played' = played \cup
                     {<<i, AppliedLayers[i].seq>> : i \in {j \in Started : AppliedLayers[j].active}}
  BY DEF Apply, AppliedLayers, BaseLayers, Started
<1> QED
  BY <1>1, <1>2, <1>3, <1>4, TickShapes, DurationAssumption

\* The same for a pass without a command.
LEMMA TickEffect ==
    ASSUME SenderOK, WorkerOK, TickPass
    PROVE  /\ Shapes(timing)
           /\ timing' \in [Ids -> Layers] /\ faulted' \in BOOLEAN /\ blackWritten' \in BOOLEAN
           /\ faults' \in 0..MaxFaults
           /\ faulted' => \A i \in Ids : ~timing'[i].active
           /\ origin' = [i \in Ids |-> IF timing'[i].active THEN origin[i] ELSE None]
<1>1. timing \in [Ids -> Layers] /\ shown \in BOOLEAN /\ faulted \in BOOLEAN
  BY DEF WorkerOK
<1>2. TickAndWrite(timing, shown, faulted)
  BY DEF TickPass
<1> QED
  BY <1>1, <1>2, TickShapes, DurationAssumption DEF TickPass

LEMMA StepWorkerTypes == SenderOK /\ WorkerOK /\ [Next]_vars => WorkerOK'
<1> SUFFICES ASSUME SenderOK, WorkerOK, [Next]_vars PROVE WorkerOK'
  OBVIOUS
<1> USE TimeBoundsAssumption, NoneAndBlack
<1>1. CASE Receive
  <2>1. taken' \in Commands
    BY <1>1 DEF Receive, SenderOK
  <2> QED
    BY <1>1, <2>1 DEF Receive, WorkerOK
<1>2. CASE Apply
  <2>1. wpc' = "fault" /\ taken' = Black /\ shown' = taken.actionable /\ seenEpoch' = epoch
    BY <1>2 DEF Apply
  <2>2. origin' \in [Ids -> Starts]
    <3>1. \A i \in Ids : taken.starts[i] \in Starts /\ origin[i] \in Starts
      BY DEF WorkerOK, Commands
    <3> QED
      BY <1>2, <3>1, ApplyEffect
  <2>3. played' \subseteq Ids \X (0..MaxSequence)
    <3>1. \A i \in Ids : AppliedLayers[i].seq \in 0..MaxSequence
      BY AppliedLayer DEF Layers
    <3> QED
      BY <1>2, <3>1, ApplyEffect DEF WorkerOK, Started
  <2>4. shown' \in BOOLEAN /\ seenEpoch' \in 0..MaxEpoch
    BY <2>1 DEF WorkerOK, SenderOK, Commands
  <2> QED
    BY <1>2, <2>1, <2>2, <2>3, <2>4, ApplyEffect DEF WorkerOK
<1>3. CASE TickPass
  <2>1. wpc' = "fault" /\ UNCHANGED <<taken, shown, seenEpoch, played>>
    BY <1>3 DEF TickPass
  <2>2. origin' \in [Ids -> Starts]
    BY <1>3, TickEffect DEF WorkerOK
  <2> QED
    BY <1>3, <2>1, <2>2, TickEffect DEF WorkerOK
<1>4. CASE EndPass
  BY <1>4 DEF EndPass, WorkerOK
<1>5. CASE UNCHANGED workerVars
  BY <1>5 DEF workerVars, WorkerOK
<1> QED
  BY <1>1, <1>2, <1>3, <1>4, <1>5
  DEF Next, vars, ClockTick, ExecuteTrigger, ExecuteLevel, EnterGate, CheckGate, SendCommand,
      RecheckGate, CompareEpoch, TrailingBlack, DiscardStarts, FailOffEpoch, FailOffBlack, CloseGate,
      CloseEpoch, CloseBlack, OpenEpoch, OpenGate, OffOther

-----------------------------------------------------------------------------
(* A one-shot plays once.                                                   *)

\* A command's start of binding i, if it has one, is numbered from m, or up to n.
From(c, i, m) == c.starts[i] # None => m <= c.starts[i].seq
UpTo(c, i, n) == c.starts[i] # None => 1 <= c.starts[i].seq /\ c.starts[i].seq <= n

\* What command c has for binding i is not older than what command d has.
NotOlder(c, d, i) == d.starts[i] # None => From(c, i, d.starts[i].seq)

Unsent == pc \in {"enter", "check", "send"}

\* Numbers grow along the path; what has played is not newer than the layers.
ChainInv ==
    \A i \in Ids :
        /\ timing[i].seq <= binding[i].seq
        /\ binding[i].retained => binding[i].seq >= 1
        /\ UpTo(command, i, binding[i].seq) /\ UpTo(taken, i, binding[i].seq)
        /\ From(taken, i, timing[i].seq)
        /\ \A c \in queue : /\ UpTo(c, i, binding[i].seq)
                            /\ From(c, i, timing[i].seq) /\ NotOlder(c, taken, i)
        /\ Unsent => /\ From(command, i, timing[i].seq) /\ NotOlder(command, taken, i)
                     /\ \A c \in queue : NotOlder(command, c, i)
        /\ \A p \in played : p[1] = i => 1 <= p[2] /\ p[2] <= timing[i].seq

\* The record types as the arithmetic below needs them.
LEMMA Numbers ==
    ASSUME SenderOK, WorkerOK, NEW i \in Ids
    PROVE  /\ timing[i].seq \in Nat /\ binding[i].seq \in Nat /\ binding[i].retained \in BOOLEAN
           /\ \A c \in queue \cup {taken, command} : /\ c \in Commands /\ c.starts[i] \in Starts
                                                     /\ c.starts[i].seq \in Nat
           /\ Black.starts[i] = None
BY SMTT(60) DEF SenderOK, WorkerOK, Layers, Commands, Starts, Black

LEMMA StepChain == SenderOK /\ WorkerOK /\ ChainInv /\ [Next]_vars => ChainInv'
<1> SUFFICES ASSUME SenderOK, WorkerOK, ChainInv, [Next]_vars PROVE ChainInv'
  OBVIOUS
<1> USE DEF ChainInv, UpTo, From, NotOlder, Unsent
<1>1. ASSUME ExecuteTrigger \/ ExecuteLevel PROVE ChainInv'
  <2>1. /\ pc' = "enter" /\ UNCHANGED <<queue, taken, timing, played>>
        /\ command' = HeldCommand(binding', held', epoch)
    BY <1>1 DEF ExecuteTrigger, ExecuteLevel, workerVars
  <2>2. /\ binding' \in [Ids -> [seq : 0..MaxSequence, at : 0..MaxTime, epoch : 0..MaxEpoch,
                                 retained : BOOLEAN]]
        /\ held' \in BOOLEAN
    BY StepSenderTypes DEF SenderOK
  <2>3. \A i \in Ids : /\ binding[i].seq <= binding'[i].seq
                       /\ binding'[i].retained => binding'[i].seq >= 1
    <3>1. CASE ExecuteLevel
      BY <3>1, Numbers DEF ExecuteLevel
    <3>2. CASE ExecuteTrigger
      <4>1. PICK i \in Ids :
              binding' = [binding EXCEPT ![i] = [seq |-> @.seq + 1, at |-> now, epoch |-> epoch,
                                                 retained |-> TRUE]]
        BY <3>2 DEF ExecuteTrigger
      <4>2. \A j \in Ids : IF j = i THEN binding'[j].seq = binding[j].seq + 1
                           ELSE binding'[j] = binding[j]
        BY <4>1 DEF SenderOK
      <4> QED
        BY <4>2, Numbers
    <3> QED
      BY <1>1, <3>1, <3>2
  <2>4. \A i \in Ids : /\ command'.starts[i] # None => command'.starts[i].seq = binding'[i].seq
                       /\ command'.starts[i] # None => binding'[i].seq >= 1
    <3> HIDE DEF ChainInv
    <3>1. \A i \in Ids : command'.starts[i] =
             IF binding'[i].retained /\ binding'[i].epoch = epoch
             THEN [seq |-> binding'[i].seq, at |-> binding'[i].at, epoch |-> binding'[i].epoch]
             ELSE None
      <4>1. \A i \in Ids : HeldCommand(binding', held', epoch).starts[i] =
               IF binding'[i].retained /\ binding'[i].epoch = epoch
               THEN [seq |-> binding'[i].seq, at |-> binding'[i].at, epoch |-> binding'[i].epoch]
               ELSE None
        BY <2>2, HeldIsCommand
      <4> QED
        BY <2>1, <4>1
    <3> TAKE i \in Ids
    <3>2. CASE binding'[i].retained /\ binding'[i].epoch = epoch
      <4>0. command'.starts[i] = [seq |-> binding'[i].seq, at |-> binding'[i].at,
                                  epoch |-> binding'[i].epoch]
        BY <3>1, <3>2
      <4>1. command'.starts[i].seq = binding'[i].seq
        BY <4>0
      <4> QED
        BY <2>3, <3>2, <4>1
    <3>3. CASE ~(binding'[i].retained /\ binding'[i].epoch = epoch)
      BY <3>1, <3>3
    <3> QED
      BY <3>2, <3>3
  <2> SUFFICES ASSUME NEW i \in Ids
               PROVE  /\ timing[i].seq <= binding'[i].seq
                      /\ UpTo(taken, i, binding'[i].seq) /\ UpTo(command', i, binding'[i].seq)
                      /\ \A c \in queue : UpTo(c, i, binding'[i].seq) /\ NotOlder(command', c, i)
                      /\ From(command', i, timing[i].seq) /\ NotOlder(command', taken, i)
    BY <2>1, <2>3
  <2>5. binding'[i].seq \in Nat
    BY <2>2
  <2>6. \A c \in queue \cup {taken} :
           c.starts[i] # None => 1 <= c.starts[i].seq /\ c.starts[i].seq <= binding[i].seq
    OBVIOUS
  <2> HIDE DEF ChainInv
  <2>7. timing[i].seq <= binding[i].seq
    BY DEF ChainInv
  <2> QED
    BY <2>3, <2>4, <2>5, <2>6, <2>7, Numbers
<1>2. CASE DiscardStarts
  <2>1. \A i \in Ids : binding'[i].seq = binding[i].seq /\ ~binding'[i].retained
    BY <1>2 DEF DiscardStarts
  <2>2. pc' = "idle" /\ command' = Black /\ UNCHANGED <<queue, taken, timing, played>>
    BY <1>2 DEF DiscardStarts, workerVars
  <2> QED
    BY <2>1, <2>2, Numbers
<1>3. CASE EnterGate \/ CheckGate \/ RecheckGate \/ CompareEpoch
  <2>1. UNCHANGED <<binding, queue, taken, timing, played>> /\ (Unsent' => Unsent)
        /\ command' \in {command, Black} /\ (Unsent' => command' = command)
    BY <1>3 DEF EnterGate, CheckGate, RecheckGate, CompareEpoch, workerVars
  <2> QED
    BY <2>1, Numbers
<1>4. CASE SendCommand
  <2>1. UNCHANGED <<binding, taken, timing, played, command>> /\ queue' = {command}
        /\ Unsent /\ ~Unsent'
    BY <1>4 DEF SendCommand, workerVars
  <2> QED
    BY <2>1
<1>5. CASE TrailingBlack \/ FailOffBlack \/ CloseBlack
  <2>1. UNCHANGED <<binding, taken, timing, played, command>> /\ queue' = {Black} /\ (Unsent' => Unsent)
    BY <1>5 DEF TrailingBlack, FailOffBlack, CloseBlack, OffOther, publisherVars, workerVars
  <2> QED
    BY <2>1, Numbers
<1>6. CASE Receive
  <2>1. UNCHANGED <<binding, timing, played, command, pc>> /\ queue' = {} /\ taken' \in queue
    BY <1>6 DEF Receive, publisherVars
  <2> QED
    BY <2>1
<1>7. CASE Apply
  <2>1. /\ UNCHANGED <<binding, queue, command, pc>> /\ taken' = Black
        /\ played' = played \cup
                       {<<i, AppliedLayers[i].seq>> : i \in {j \in Started : AppliedLayers[j].active}}
    BY <1>7, ApplyEffect DEF Apply, publisherVars
  <2>2. \A i \in Ids : timing'[i].seq = IF taken.starts[i] = None THEN timing[i].seq
                                        ELSE taken.starts[i].seq
    <3>1. \A i \in Ids : timing'[i].seq = AppliedLayers[i].seq
      BY <1>7, ApplyEffect DEF Shapes, IdleLayer
    <3> QED
      BY <3>1, AppliedLayer
  <2>3. \A i \in Ids : \A p \in played' : p[1] = i => 1 <= p[2] /\ p[2] <= timing'[i].seq
    <3> SUFFICES ASSUME NEW i \in Ids, NEW p \in played', p[1] = i
                 PROVE  1 <= p[2] /\ p[2] <= timing'[i].seq
      OBVIOUS
    <3>1. CASE p \in played
      <4>1. 1 <= p[2] /\ p[2] <= timing[i].seq /\ p[2] \in Nat
        BY <3>1 DEF WorkerOK
      <4>2. timing[i].seq <= timing'[i].seq
        BY <2>2, Numbers
      <4> QED
        BY <2>2, <4>1, <4>2, Numbers
    <3>2. CASE p \notin played
      <4>1. p = <<i, AppliedLayers[i].seq>> /\ taken.starts[i] # None
        BY <2>1, <3>2 DEF Started
      <4>2. p[2] = taken.starts[i].seq
        BY <4>1, AppliedLayer
      <4> QED
        BY <2>2, <4>1, <4>2, Numbers
    <3> QED
      BY <3>1, <3>2
  <2> QED
    BY <2>1, <2>2, <2>3, Numbers
<1>8. CASE TickPass
  <2>1. UNCHANGED <<binding, queue, command, pc, taken, played>>
    BY <1>8 DEF TickPass, publisherVars
  <2>2. \A i \in Ids : timing'[i].seq = timing[i].seq
    BY <1>8, TickEffect DEF Shapes, IdleLayer
  <2> QED
    BY <2>1, <2>2
<1>9. CASE UNCHANGED <<binding, queue, command, pc, taken, timing, played>>
  BY <1>9
<1> QED
  BY <1>1, <1>2, <1>3, <1>4, <1>5, <1>6, <1>7, <1>8, <1>9
  DEF Next, vars, publisherVars, workerVars, ClockTick, FailOffEpoch, CloseGate, CloseEpoch, OpenEpoch,
      OpenGate, OffOther, EndPass

LEMMA InitChain == Init => ChainInv
BY DEF Init, ChainInv, UpTo, From, NotOlder, Unsent, Black, None

\* A start that becomes active is newer than every start of its binding that played.
LEMMA StepPlaysOnce ==
    SenderOK /\ WorkerOK /\ ChainInv /\ [Next]_vars =>
        \A i \in Ids : (timing'[i].active /\ (~timing[i].active \/ timing'[i] # timing[i]))
                          => <<i, timing'[i].seq>> \notin played
<1> SUFFICES ASSUME SenderOK, WorkerOK, ChainInv, [Next]_vars, NEW i \in Ids,
                    timing'[i].active, ~timing[i].active \/ timing'[i] # timing[i]
             PROVE  <<i, timing'[i].seq>> \notin played
  OBVIOUS
<1>1. timing # timing'
  OBVIOUS
<1>2. CASE Apply
  <2>1. timing'[i] = AppliedLayers[i]
    BY <1>2, ApplyEffect DEF Shapes, IdleLayer
  <2>2. i \in Started
    BY <2>1, AppliedLayer
  <2>3. /\ taken.starts[i] # None /\ taken.starts[i].seq # timing[i].seq
        /\ timing'[i].seq = taken.starts[i].seq
    BY <2>1, <2>2, AppliedLayer DEF Started
  <2>4. timing[i].seq < timing'[i].seq /\ timing[i].seq \in Nat /\ timing'[i].seq \in Nat
    BY <2>3, Numbers DEF ChainInv, From
  <2>5. \A p \in played : p[1] = i => p[2] <= timing[i].seq /\ p[2] \in Nat
    BY DEF ChainInv, WorkerOK
  <2> QED
    BY <2>4, <2>5
<1>3. CASE TickPass
  BY <1>3, TickEffect DEF Shapes, IdleLayer
<1> QED
  BY <1>1, <1>2, <1>3
  DEF Next, vars, workerVars, ClockTick, ExecuteTrigger, ExecuteLevel, EnterGate, CheckGate,
      SendCommand, RecheckGate, CompareEpoch, TrailingBlack, DiscardStarts, FailOffEpoch, FailOffBlack,
      CloseGate, CloseEpoch, CloseBlack, OpenEpoch, OpenGate, OffOther, Receive, EndPass

-----------------------------------------------------------------------------
(* ... and for a bounded time.                                              *)

\* An active start was admitted within a duration of its trigger.
PlayInv ==
    \A i \in Ids : timing[i].active =>
        /\ origin[i].at <= timing[i].started /\ timing[i].started <= now
        /\ timing[i].started - origin[i].at < Duration

LEMMA StepPlay ==
    SenderOK /\ WorkerOK /\ PlayInv /\ [Next]_vars =>
        /\ PlayInv'
        /\ \A i \in Ids : wpc # "fault" /\ wpc' = "fault" /\ timing'[i].active =>
              now - origin'[i].at < 2 * Duration
<1> SUFFICES ASSUME SenderOK, WorkerOK, PlayInv, [Next]_vars
             PROVE  /\ PlayInv'
                    /\ \A i \in Ids : wpc # "fault" /\ wpc' = "fault" /\ timing'[i].active =>
                          now - origin'[i].at < 2 * Duration
  OBVIOUS
<1>0. now \in Nat /\ Duration \in Nat
  BY DurationAssumption, TimeBoundsAssumption DEF SenderOK
<1>t. \A i \in Ids : /\ timing[i].started \in Nat /\ origin[i].at \in Nat
                     /\ taken.starts[i].at \in Nat
  BY TimeBoundsAssumption DEF WorkerOK, Layers, Starts, Commands
<1>1. CASE Apply \/ TickPass
  <2>1. now' = now
    BY <1>1 DEF Apply, TickPass
  <2> SUFFICES ASSUME NEW i \in Ids, timing'[i].active
               PROVE  /\ origin'[i].at <= timing'[i].started /\ timing'[i].started <= now
                      /\ timing'[i].started - origin'[i].at < Duration
                      /\ now - origin'[i].at < 2 * Duration
    BY <2>1 DEF PlayInv
  <2>2. CASE Apply
    <3>1. timing'[i] = AppliedLayers[i] /\ now - AppliedLayers[i].started < Duration
      BY <2>2, ApplyEffect DEF Shapes, IdleLayer
    <3>2. origin'[i] = IF i \in Started THEN taken.starts[i] ELSE origin[i]
      BY <2>2, ApplyEffect
    <3>3. CASE i \in Started
      <4>1. Admitted(taken.starts[i], epoch) /\ timing'[i].started = now
        BY <3>1, <3>3, AppliedLayer
      <4>2. now >= taken.starts[i].at /\ now - taken.starts[i].at < Duration
        BY <4>1 DEF Admitted
      <4> QED
        BY <1>0, <1>t, <3>2, <3>3, <4>1, <4>2
    <3>4. CASE i \notin Started
      <4>1. timing'[i] = timing[i]
        BY <3>1, <3>4, AppliedLayer
      <4>2. timing[i].active /\ now - timing[i].started < Duration
        BY <3>1, <4>1
      <4> QED
        BY <1>0, <1>t, <3>2, <3>4, <4>1, <4>2 DEF PlayInv
    <3> QED
      BY <3>3, <3>4
  <2>3. CASE TickPass
    <3>1. timing'[i] = timing[i] /\ now - timing[i].started < Duration
      BY <2>3, TickEffect DEF Shapes, IdleLayer
    <3>2. origin'[i] = origin[i]
      BY <2>3, TickEffect
    <3> QED
      BY <1>0, <1>t, <3>1, <3>2 DEF PlayInv
  <2> QED
    BY <1>1, <2>2, <2>3
<1>2. CASE ClockTick
  <2>1. now' = now + 1 /\ UNCHANGED <<timing, origin, wpc>>
    BY <1>2 DEF ClockTick, workerVars
  <2> QED
    BY <1>0, <1>t, <2>1 DEF PlayInv
<1>3. CASE UNCHANGED <<now, timing, origin>> /\ ~(wpc # "fault" /\ wpc' = "fault")
  BY <1>3 DEF PlayInv
<1> QED
  BY <1>1, <1>2, <1>3
  DEF Next, vars, workerVars, ExecuteTrigger, ExecuteLevel, EnterGate, CheckGate,
      SendCommand, RecheckGate, CompareEpoch, TrailingBlack, DiscardStarts, FailOffEpoch, FailOffBlack,
      CloseGate, CloseEpoch, CloseBlack, OpenEpoch, OpenGate, OffOther, Receive, EndPass

-----------------------------------------------------------------------------
(* No start plays across a cancellation.                                    *)

\* What command c has for binding i is its newest start.
Carries(c, i) == c.starts[i].seq = binding[i].seq

\* What command c has for binding i was triggered before the current epoch.
Older(c, i) == c.starts[i] # None => c.starts[i].epoch < epoch

\* What will cancel the layers of an earlier epoch.
CancelPending == fpc = "black" \/ spc = "closeBlack" \/ queue # {} \/ wpc = "apply"

\* The epoch has moved on from everything published before the gate closed.
Closed == spc \in {"closeBlack", "stalled", "openState"}

EpochInv ==
    /\ gateOpen <=> spc = "idle"
    /\ seenEpoch <= epoch
    /\ faulted => \A i \in Ids : ~timing[i].active
    /\ \A i \in Ids :
          /\ binding[i].epoch <= epoch /\ command.starts[i].epoch <= epoch
          /\ taken.starts[i].epoch <= epoch
          /\ \A c \in queue : c.starts[i].epoch <= epoch
          /\ Closed => /\ Older(taken, i) /\ \A c \in queue : Older(c, i)
                       /\ pc = "send" => Older(command, i)
                       /\ timing[i].active => seenEpoch # epoch
          /\ timing[i].active => /\ origin[i].epoch = seenEpoch
                                 /\ seenEpoch # epoch => CancelPending

\* The epochs as the arithmetic below needs them.
LEMMA Epochs ==
    ASSUME SenderOK, WorkerOK, NEW i \in Ids
    PROVE  /\ epoch \in Nat /\ seenEpoch \in Nat /\ origin[i].epoch \in Nat
           /\ binding[i].epoch \in Nat /\ taken.starts[i].epoch \in Nat
           /\ \A c \in queue \cup {taken, command} : c.starts[i].epoch \in Nat
           /\ Black.starts[i] = None /\ None.epoch = 0
<1>1. \A c \in queue \cup {taken, command} : c \in Commands
  BY DEF SenderOK, WorkerOK
<1>2. \A c \in queue \cup {taken, command} : c.starts[i].epoch \in Nat
  BY <1>1, TimeBoundsAssumption DEF Commands, Starts
<1> QED
  BY <1>2, TimeBoundsAssumption DEF SenderOK, WorkerOK, Starts, Black, None

LEMMA InitEpoch == Init => EpochInv
BY DEF Init, EpochInv, Closed, Older, Black, None

\* A command as execute() builds it: no start is of a later epoch than the one
\* it read, and every start it had to carry is there.
LEMMA HeldStarts ==
    ASSUME SenderOK, WorkerOK, [Next]_vars, ExecuteTrigger \/ ExecuteLevel,
           \A i \in Ids : binding[i].epoch <= epoch
    PROVE  \A i \in Ids :
              /\ binding'[i].epoch <= epoch /\ command'.starts[i].epoch <= epoch
              /\ binding'[i].retained /\ binding'[i].epoch = epoch => Carries(command, i)'
<1>1. command' = HeldCommand(binding', held', epoch)
  BY DEF ExecuteTrigger, ExecuteLevel
<1>2. /\ binding' \in [Ids -> [seq : 0..MaxSequence, at : 0..MaxTime, epoch : 0..MaxEpoch,
                               retained : BOOLEAN]]
      /\ held' \in BOOLEAN
  BY StepSenderTypes DEF SenderOK
<1>3. \A i \in Ids : HeldCommand(binding', held', epoch).starts[i] =
         IF binding'[i].retained /\ binding'[i].epoch = epoch
         THEN [seq |-> binding'[i].seq, at |-> binding'[i].at, epoch |-> binding'[i].epoch]
         ELSE None
  BY <1>2, HeldIsCommand
<1>4. \A i \in Ids : binding'[i].epoch <= epoch
  <2>1. CASE ExecuteLevel
    BY <2>1 DEF ExecuteLevel
  <2>2. CASE ExecuteTrigger
    <3>1. PICK i \in Ids :
            binding' = [binding EXCEPT ![i] = [seq |-> @.seq + 1, at |-> now, epoch |-> epoch,
                                               retained |-> TRUE]]
      BY <2>2 DEF ExecuteTrigger
    <3>2. \A j \in Ids : binding'[j].epoch = IF j = i THEN epoch ELSE binding[j].epoch
      BY <3>1 DEF SenderOK
    <3> QED
      BY <3>2, Epochs
  <2> QED
    BY <2>1, <2>2
<1> TAKE i \in Ids
<1>5. CASE binding'[i].retained /\ binding'[i].epoch = epoch
  <2>1. command'.starts[i] = [seq |-> binding'[i].seq, at |-> binding'[i].at,
                              epoch |-> binding'[i].epoch]
    BY <1>1, <1>3, <1>5
  <2>2. command'.starts[i].seq = binding'[i].seq /\ command'.starts[i].epoch = binding'[i].epoch
    BY <2>1
  <2> QED
    BY <1>4, <2>2 DEF Carries
<1>6. CASE ~(binding'[i].retained /\ binding'[i].epoch = epoch)
  <2>1. command'.starts[i] = None
    BY <1>1, <1>3, <1>6
  <2> QED
    BY <1>4, <1>6, <2>1, Epochs
<1> QED
  BY <1>5, <1>6

LEMMA StepEpoch == SenderOK /\ WorkerOK /\ EpochInv /\ [Next]_vars => EpochInv'
<1> SUFFICES ASSUME SenderOK, WorkerOK, EpochInv, [Next]_vars PROVE EpochInv'
  OBVIOUS
<1> USE DEF EpochInv, Older, Closed, CancelPending
\* Whoever advances the epoch makes everything under way of an earlier one.
<1>0. ASSUME epoch' = epoch + 1,
             UNCHANGED <<binding, command, queue, taken, timing, seenEpoch, origin, faulted>>,
             gateOpen' <=> spc' = "idle",
             \A i \in Ids : timing[i].active => CancelPending'
      PROVE  EpochInv'
  <2>1. \A i \in Ids :
          /\ binding[i].epoch < epoch' /\ binding[i].epoch <= epoch'
          /\ \A c \in queue \cup {taken, command} : c.starts[i].epoch < epoch' /\ c.starts[i].epoch <= epoch'
          /\ seenEpoch < epoch' /\ seenEpoch <= epoch' /\ seenEpoch # epoch'
    BY <1>0, Epochs
  <2>2. seenEpoch <= epoch'
    BY <1>0, TimeBoundsAssumption DEF SenderOK, WorkerOK
  <2>3. /\ faulted => \A i \in Ids : ~timing[i].active
        /\ \A i \in Ids : timing[i].active => origin[i].epoch = seenEpoch
    OBVIOUS
  <2> HIDE DEF EpochInv, CancelPending
  <2> QED
    BY <1>0, <2>1, <2>2, <2>3 DEF EpochInv
<1>1. ASSUME ExecuteTrigger \/ ExecuteLevel PROVE EpochInv'
  <2>1. UNCHANGED <<gateVars, queue, workerVars>> /\ pc' = "enter"
    BY <1>1 DEF ExecuteTrigger, ExecuteLevel
  <2>2. \A i \in Ids : binding'[i].epoch <= epoch /\ command'.starts[i].epoch <= epoch
    BY <1>1, HeldStarts
  <2> QED
    BY <2>1, <2>2 DEF gateVars, workerVars
<1>2. CASE DiscardStarts
  <2>1. \A i \in Ids : binding'[i].epoch = 0
    BY <1>2 DEF DiscardStarts
  <2>2. UNCHANGED <<gateVars, queue, workerVars>> /\ pc' = "idle" /\ command' = Black
    BY <1>2 DEF DiscardStarts
  <2> QED
    BY <2>1, <2>2, Epochs DEF gateVars, workerVars
<1>3. CASE EnterGate \/ CheckGate \/ RecheckGate \/ CompareEpoch
  <2>1. /\ UNCHANGED <<gateVars, binding, queue, workerVars>> /\ command' \in {command, Black}
        /\ pc' = "send" => gateOpen /\ pc # "send"
    BY <1>3 DEF EnterGate, CheckGate, RecheckGate, CompareEpoch
  <2> QED
    BY <2>1, Epochs DEF gateVars, workerVars
<1>4. CASE SendCommand
  BY <1>4 DEF SendCommand, gateVars, workerVars
<1>5. CASE TrailingBlack
  BY <1>5, Epochs DEF TrailingBlack, gateVars, workerVars
<1>6. CASE FailOffEpoch
  BY <1>0, <1>6 DEF FailOffEpoch, OffOther, publisherVars, workerVars
<1>7. CASE FailOffBlack
  BY <1>7, Epochs DEF FailOffBlack, OffOther, publisherVars, workerVars
<1>8. CASE CloseGate \/ OpenGate
  BY <1>8 DEF CloseGate, OpenGate, OffOther, publisherVars, workerVars
<1>9. CASE CloseEpoch
  BY <1>0, <1>9 DEF CloseEpoch, OffOther, publisherVars, workerVars
<1>10. CASE CloseBlack
  BY <1>10, Epochs DEF CloseBlack, OffOther, publisherVars, workerVars
<1>11. CASE OpenEpoch
  <2>1. /\ epoch' = epoch + 1 /\ spc = "stalled" /\ spc' = "openState"
        /\ UNCHANGED <<gateOpen, fpc, binding, command, queue, workerVars>>
    BY <1>11 DEF OpenEpoch, OffOther, publisherVars
  <2>2. \A i \in Ids : timing[i].active => CancelPending'
    BY <2>1 DEF workerVars
  <2> QED
    BY <1>0, <2>1, <2>2 DEF workerVars
<1>12. CASE Receive
  BY <1>12 DEF Receive, gateVars, publisherVars
<1>13. CASE Apply
  <2>1. UNCHANGED <<gateVars, publisherVars, queue>> /\ seenEpoch' = epoch /\ taken' = Black
    BY <1>13 DEF Apply
  <2>2. faulted' => \A i \in Ids : ~timing'[i].active
    BY <1>13, ApplyEffect
  <2>3. ASSUME NEW i \in Ids, timing'[i].active
        PROVE  origin'[i].epoch = epoch /\ ~Closed
    <3>1. timing'[i] = AppliedLayers[i]
      BY <1>13, <2>3, ApplyEffect DEF Shapes, IdleLayer
    <3>2. origin'[i] = IF i \in Started THEN taken.starts[i] ELSE origin[i]
      BY <1>13, <2>3, ApplyEffect
    <3>3. CASE i \in Started
      <4>1. Admitted(taken.starts[i], epoch) /\ taken.starts[i] # None
        BY <2>3, <3>1, <3>3, AppliedLayer
      <4> QED
        BY <3>2, <3>3, <4>1, Epochs DEF Admitted
    <3>4. CASE i \notin Started
      <4>1. epoch = seenEpoch /\ timing[i].active
        BY <2>3, <3>1, <3>4, AppliedLayer
      <4> QED
        BY <3>2, <3>4, <4>1
    <3> QED
      BY <3>3, <3>4
  <2>4. \A i \in Ids : Black.starts[i] = None /\ Black.starts[i].epoch <= epoch
    BY Epochs
  <2>5. seenEpoch' <= epoch
    BY <2>1, TimeBoundsAssumption DEF SenderOK
  <2>6. UNCHANGED <<gateOpen, epoch, spc, fpc, binding, command, pc, queue>>
    BY <2>1 DEF gateVars, publisherVars
  <2>7. \A i \in Ids :
          /\ binding[i].epoch <= epoch /\ command.starts[i].epoch <= epoch
          /\ taken'.starts[i].epoch <= epoch
          /\ \A c \in queue : c.starts[i].epoch <= epoch
          /\ Closed => /\ taken'.starts[i] = None /\ \A c \in queue : Older(c, i)
                       /\ pc = "send" => Older(command, i)
                       /\ ~timing'[i].active
          /\ timing'[i].active => origin'[i].epoch = seenEpoch' /\ seenEpoch' = epoch
    BY <2>1, <2>3, <2>4
  <2>8. (gateOpen <=> spc = "idle")'
    BY <2>6
  <2> HIDE DEF EpochInv, CancelPending
  <2> QED
    BY <2>2, <2>5, <2>6, <2>7, <2>8 DEF EpochInv
<1>14. CASE TickPass
  <2>1. UNCHANGED <<gateVars, publisherVars, queue, seenEpoch, taken>> /\ wpc # "apply" /\ queue = {}
    BY <1>14 DEF TickPass
  <2>2. faulted' => \A i \in Ids : ~timing'[i].active
    BY <1>14, TickEffect
  <2>3. ASSUME NEW i \in Ids, timing'[i].active
        PROVE  origin'[i] = origin[i] /\ timing[i].active
    BY <1>14, <2>3, TickEffect DEF Shapes, IdleLayer
  <2> QED
    BY <2>1, <2>2, <2>3 DEF gateVars, publisherVars
<1>15. CASE EndPass
  <2>1. /\ UNCHANGED <<gateOpen, spc, fpc, publisherVars, queue, taken, timing, seenEpoch, origin, faulted>>
        /\ wpc = "fault" /\ wpc' = "receive" /\ epoch' = IF faulted THEN epoch + 1 ELSE epoch
    BY <1>15 DEF EndPass
  <2>2. CASE faulted
    BY <1>0, <2>1, <2>2 DEF publisherVars
  <2>3. CASE ~faulted
    BY <2>1, <2>3 DEF publisherVars
  <2> QED
    BY <2>2, <2>3
<1>16. CASE UNCHANGED <<gateVars, publisherVars, queue, workerVars>>
  BY <1>16 DEF gateVars, publisherVars, workerVars
<1> QED
  BY <1>1, <1>2, <1>3, <1>4, <1>5, <1>6, <1>7, <1>8, <1>9, <1>10, <1>11, <1>12, <1>13, <1>14, <1>15,
     <1>16
  DEF Next, vars, ClockTick

-----------------------------------------------------------------------------
(* An accepted trigger reaches the renderer.                                *)

\* Where the newest start of a binding of the current epoch is.
CarryInv ==
    \A i \in Ids : binding[i].retained /\ binding[i].epoch = epoch =>
        /\ Unsent => Carries(command, i)
        /\ pc \in {"recheck", "compare", "idle"} /\ ~overridden =>
              IF queue # {} THEN \A c \in queue : Carries(c, i)
              ELSE IF wpc = "apply" THEN Carries(taken, i)
              ELSE timing[i].seq = binding[i].seq

LEMMA InitCarry == Init => CarryInv
BY DEF Init, CarryInv

LEMMA StepCarry ==
    SenderOK /\ WorkerOK /\ ChainInv /\ EpochInv /\ CarryInv /\ [Next]_vars => CarryInv'
<1> SUFFICES ASSUME SenderOK, WorkerOK, ChainInv, EpochInv, CarryInv, [Next]_vars PROVE CarryInv'
  OBVIOUS
<1> USE DEF CarryInv, Carries, Unsent
<1>1. ASSUME ExecuteTrigger \/ ExecuteLevel PROVE CarryInv'
  <2>1. pc' = "enter" /\ epoch' = epoch
    BY <1>1 DEF ExecuteTrigger, ExecuteLevel, gateVars
  <2>2. \A i \in Ids : binding'[i].retained /\ binding'[i].epoch = epoch => Carries(command, i)'
    BY <1>1, HeldStarts DEF EpochInv
  <2> QED
    BY <2>1, <2>2
<1>2. CASE DiscardStarts
  <2>1. \A i \in Ids : ~binding'[i].retained
    BY <1>2 DEF DiscardStarts
  <2> QED
    BY <2>1
<1>3. CASE EnterGate \/ CheckGate \/ RecheckGate \/ CompareEpoch
  BY <1>3 DEF EnterGate, CheckGate, RecheckGate, CompareEpoch, gateVars, workerVars
<1>4. CASE SendCommand
  BY <1>4 DEF SendCommand, gateVars, workerVars
<1>5. CASE TrailingBlack
  BY <1>5 DEF TrailingBlack
<1>6. CASE FailOffBlack \/ CloseBlack
  <2>1. /\ overridden' = TRUE /\ UNCHANGED <<epoch, publisherVars, workerVars>>
    BY <1>6 DEF FailOffBlack, CloseBlack, OffOther
  <2> QED
    BY <2>1 DEF publisherVars
\* A binding of an epoch that has passed is nobody's concern.
<1>7. ASSUME epoch' = epoch + 1, UNCHANGED binding PROVE CarryInv'
  <2>1. \A i \in Ids : binding[i].epoch # epoch'
    BY <1>7, Epochs DEF EpochInv
  <2> QED
    BY <1>7, <2>1
<1>8. CASE FailOffEpoch \/ CloseEpoch \/ OpenEpoch
  BY <1>7, <1>8 DEF FailOffEpoch, CloseEpoch, OpenEpoch, OffOther, publisherVars
<1>9. CASE Receive
  <2>1. /\ UNCHANGED <<epoch, publisherVars, timing, overridden>> /\ queue' = {} /\ taken' \in queue
        /\ wpc' = "apply"
    BY <1>9 DEF Receive, gateVars
  <2> QED
    BY <2>1 DEF publisherVars
<1>10. CASE Apply
  <2>1. /\ UNCHANGED <<epoch, publisherVars, queue, overridden>> /\ wpc = "apply" /\ wpc' = "fault"
    BY <1>10 DEF Apply, gateVars
  <2>2. \A i \in Ids : timing'[i].seq = IF taken.starts[i] = None THEN timing[i].seq
                                        ELSE taken.starts[i].seq
    <3>1. \A i \in Ids : timing'[i].seq = AppliedLayers[i].seq
      BY <1>10, ApplyEffect DEF Shapes, IdleLayer
    <3> QED
      BY <3>1, AppliedLayer
  <2>3. \A i \in Ids : binding[i].retained /\ Carries(taken, i) => timing'[i].seq = binding[i].seq
    <3>1. \A i \in Ids : binding[i].retained => binding[i].seq # 0
      BY Numbers DEF ChainInv
    <3>2. None.seq = 0
      BY DEF None
    <3> QED
      BY <2>2, <3>1, <3>2
  <2> QED
    BY <2>1, <2>3 DEF publisherVars
<1>11. CASE TickPass
  <2>1. /\ UNCHANGED <<epoch, publisherVars, queue, overridden>> /\ wpc = "receive" /\ wpc' = "fault"
    BY <1>11 DEF TickPass, gateVars
  <2>2. \A i \in Ids : timing'[i].seq = timing[i].seq
    BY <1>11, TickEffect DEF Shapes, IdleLayer
  <2> QED
    BY <2>1, <2>2 DEF publisherVars
<1>12. CASE EndPass
  <2>1. CASE faulted
    BY <1>7, <1>12, <2>1 DEF EndPass, publisherVars
  <2>2. CASE ~faulted
    BY <1>12, <2>2 DEF EndPass, publisherVars
  <2> QED
    BY <2>1, <2>2
<1>13. CASE UNCHANGED <<epoch, publisherVars, queue, workerVars, overridden>>
  BY <1>13 DEF publisherVars, workerVars
<1> QED
  BY <1>1, <1>2, <1>3, <1>4, <1>5, <1>6, <1>8, <1>9, <1>10, <1>11, <1>12, <1>13
  DEF Next, vars, gateVars, ClockTick, CloseGate, OpenGate, OffOther

-----------------------------------------------------------------------------
(* The theorems.                                                            *)

PathInv == SenderOK /\ WorkerOK /\ ChainInv /\ PlayInv /\ EpochInv /\ CarryInv

\* The parts above hold together in every behaviour of the code's path.
THEOREM PathInvariant == Spec => []PathInv
<1>1. Init => PathInv
  <2>1. Init => PlayInv
    BY DEF Init, PlayInv
  <2> QED
    BY <2>1, InitTypes, InitChain, InitEpoch, InitCarry DEF PathInv
<1>2. PathInv /\ [Next]_vars => PathInv'
  BY StepSenderTypes, StepWorkerTypes, StepChain, StepPlay, StepEpoch, StepCarry DEF PathInv
<1> QED
  BY <1>1, <1>2, PTL DEF Spec

\* Every variable of the path keeps to its values.
THEOREM PathTypeCorrect == Spec => []TypeOK
<1>1. PathInv => TypeOK
  <2> SUFFICES ASSUME PathInv PROVE TypeOK
    OBVIOUS
  <2>1. \A p \in played : p[1] \in Ids /\ p[2] \in Nat
    BY DEF PathInv, WorkerOK
  <2>2. \A p \in played : p[2] # 0
    BY <2>1 DEF PathInv, ChainInv
  <2> QED
    BY <2>2, TypeParts DEF PathInv
<1> QED
  BY <1>1, PathInvariant, PTL

\* The overwrite queue loses no accepted trigger: LedActionSink carries every
\* retained start in every snapshot it publishes.
THEOREM ReachTheorem == Spec => []AcceptedStartReachesRenderer
<1>1. PathInv => AcceptedStartReachesRenderer
  BY DEF PathInv, CarryInv, AcceptedStartReachesRenderer, Settled
<1> QED
  BY <1>1, PathInvariant, PTL

\* A fail-off, a stall or a driver fault ends every transient started before it.
THEOREM EpochTheorem == Spec => []ActiveOnlyInItsEpoch
<1>1. PathInv => ActiveOnlyInItsEpoch
  BY DEF PathInv, EpochInv, CancelPending, ActiveOnlyInItsEpoch, Settled
<1> QED
  BY <1>1, PathInvariant, PTL

\* TransientLayers plays each accepted trigger at most once, for less than two
\* durations after it was accepted.
THEOREM OneShotTheorem == Spec => OneShotsPlayOnce
<1> DEFINE Once ==
      \A i \in Ids : (timing'[i].active /\ (~timing[i].active \/ timing'[i] # timing[i]))
                        => <<i, timing'[i].seq>> \notin played
<1> DEFINE Bounded ==
      \A i \in Ids : wpc # "fault" /\ wpc' = "fault" /\ timing'[i].active =>
          now - origin'[i].at < 2 * Duration
<1>1. PathInv /\ [Next]_vars => Once /\ Bounded
  BY StepPlaysOnce, StepPlay DEF PathInv
<1> HIDE DEF Once, Bounded
<1>2. Spec => [][Once]_vars /\ [][Bounded]_vars
  BY <1>1, PathInvariant, PTL DEF Spec
<1> QED
  BY <1>2 DEF Once, Bounded, OneShotsPlayOnce, NoReplay, BoundedPlay

=============================================================================
