----------------------------- MODULE EngineRules -----------------------------
(***************************************************************************)
(* action_engine::ActionEngine on the notification channel of one signal:  *)
(* a StateRule and an EventRule fed by notices on the dispatcher task, and *)
(* a SampledStateRule and a RangeRule fed by reads on the sampling task.   *)
(* evaluation_ serialises the two tasks, so a callback's evaluation with   *)
(* the sink calls it makes is one action, and a polled sample is a read    *)
(* outside the lock followed by one evaluation.                            *)
(*                                                                         *)
(* The conditions are sets of readings: Actionable meet the rules'         *)
(* freshness requirement, Holds satisfy the condition, Keeps satisfy the   *)
(* release condition of the sampled rule (Keeps = Holds without one).      *)
(* LevelOf is the range rule's mapping of an actionable reading.           *)
(***************************************************************************)
EXTENDS NotificationChannel

CONSTANTS
    Actionable, Holds, Keeps,
    LevelOf(_),    \* LinearMapping::map on actionable readings
    MaxInputs      \* bound: readings published in a run and polled since attach()

Unknown == "unknown"      \* an optional without a value
ReadFailed == "failed"    \* provider_->read() did not succeed
Nothing == "nothing"

ASSUME ConditionAssumption ==
    /\ Holds \subseteq Keeps /\ Keeps \subseteq Actionable /\ Actionable \subseteq Available
    /\ ReadFailed \notin Readings /\ Nothing \notin Readings
    /\ \A r \in Actionable : LevelOf(r) # Unknown
    /\ MaxInputs \in Nat

VARIABLES
    engineSlot,   \* the slot of the engine's subscription, 0 while detached
    handle,       \* its SubscriptionSet registration
    evaluated,    \* on_notice ran for the notice being delivered to the engine
    lastOutput,   \* StateRule::last_output_
    baseline,     \* EventRule::baseline_
    sampledOut,   \* SampledStateRule::last_output_
    rangeLast,    \* RangeRule::last_
    inHand,       \* the provider read not yet evaluated
    level,        \* sink: level of the state rule's action
    sampledLevel, \* sink: level of the sampled rule's action
    rangeLevel,   \* sink: level of the range rule's action
    prevSeen,     \* history: log position of the engine's previous notice
    trigger,      \* history: log positions of the last Trigger's two readings
    samples       \* history: reads evaluated since attach()

ruleVars == <<lastOutput, baseline, sampledOut, rangeLast>>
sinkVars == <<level, sampledLevel, rangeLevel>>
pollVars == <<inHand, samples>>
engineVars == <<engineSlot, handle, evaluated, ruleVars, sinkVars, pollVars, prevSeen, trigger>>
allVars == <<vars, engineVars>>

EngineInit ==
    /\ Init
    /\ engineSlot = 0 /\ handle = <<0, 0, 0>> /\ evaluated = FALSE
    /\ lastOutput = Unknown /\ baseline = Unknown /\ sampledOut = Unknown /\ rangeLast = Unknown
    /\ level = Unknown /\ sampledLevel = Unknown /\ rangeLevel = Unknown
    /\ inHand = Nothing /\ samples = <<>>
    /\ prevSeen = 0 /\ trigger = <<>>

-----------------------------------------------------------------------------
(* attach() and detach() on the lifecycle owner; the firmware samples only  *)
(* between them.                                                            *)

Attach ==
    /\ engineSlot = 0 /\ inHand = Nothing
    /\ \E s \in Slots :
          /\ Subscribe(s)
          /\ engineSlot' = s
          /\ handle' = <<s, NextGeneration(generation[s]), nextOrder>>
    /\ lastOutput' = Unknown /\ baseline' = Unknown
    /\ sampledOut' = Unknown /\ rangeLast' = Unknown
    /\ samples' = <<>>
    /\ UNCHANGED <<evaluated, sinkVars, inHand, prevSeen, trigger>>

EngineDetach ==
    /\ engineSlot # 0 /\ inHand = Nothing
    /\ Unsubscribe(handle)
    /\ engineSlot' = 0
    /\ UNCHANGED <<handle, evaluated, ruleVars, sinkVars, pollVars, prevSeen, trigger>>

\* The turn notice log of main.cpp uses the other slot and releases only what
\* it registered.
OtherSubscriber ==
    /\ \/ \E s \in Slots : Subscribe(s)
       \/ \E h \in handles \ {handle} : regOrder[h[1]] = h[3] /\ Unsubscribe(h)
    /\ UNCHANGED engineVars

-----------------------------------------------------------------------------
(* on_notice: RuleSet::dispatch to the rules of the notice's signal.        *)

\* ResolvedCondition::evaluate as an optional bool.
Evaluate(reading, condition) ==
    IF reading \notin Actionable THEN Unknown
    ELSE IF reading \in condition THEN "on" ELSE "off"

\* Mutant of RestartsBaseline: only the first notice of a run restarts it.
RestartsOnInitialOnly(n) == n.initial

\* restarts_baseline: no transition may span this notice.
RestartsBaseline(n) == n.initial \/ n.becameUnavailable \/ n.recovered

\* Mutant of StateOutput: a reading that is not actionable holds the level on.
StateOutputHeld(reading) == IF reading \in Actionable \ Holds THEN "off" ELSE "on"

\* StateRule: an action is wanted only while the condition is known to hold.
StateOutput(reading) == IF Evaluate(reading, Holds) = "on" THEN "on" ELSE "off"

\* EventRule::fires for the edge BecomesTrue.
Fires(previous, now) == previous = "off" /\ now = "on"

OnNotice ==
    /\ calling # 0 /\ calling = engineSlot /\ ~evaluated
    /\ LET n == delivered[engineSlot]
           output == StateOutput(n.current)
           previous == IF RestartsBaseline(n) THEN Unknown ELSE baseline
           now == Evaluate(n.current, Holds)
       IN  /\ IF n.initial \/ lastOutput # output
              THEN lastOutput' = output /\ level' = output
              ELSE UNCHANGED <<lastOutput, level>>
           /\ baseline' = now
           /\ trigger' = IF Fires(previous, now) THEN <<prevSeen, seen[engineSlot]>> ELSE trigger
    /\ evaluated' = TRUE
    /\ prevSeen' = seen[engineSlot]
    /\ UNCHANGED <<vars, engineSlot, handle, sampledOut, rangeLast, sampledLevel, rangeLevel,
                   pollVars>>

-----------------------------------------------------------------------------
(* sample_polled_rules on the sampling task.                                *)

\* provider_->read outside the lock: any reading, or a failed read.
ReadPolled ==
    /\ engineSlot # 0 /\ inHand = Nothing /\ Len(samples) + Len(log) < MaxInputs
    /\ inHand' \in Readings \cup {ReadFailed}
    /\ UNCHANGED <<vars, engineSlot, handle, evaluated, ruleVars, sinkVars, samples, prevSeen,
                   trigger>>

\* SampledStateRule: the release condition applies while the action is on.
SampledCondition == IF sampledOut = "on" THEN Keeps ELSE Holds

\* RangeRule::command_for: SetLevel of the mapped value, else Deactivate.
RangeCommand(reading) == IF reading \in Actionable THEN LevelOf(reading) ELSE "unlit"

\* SampledStateRule::on_sample and RangeRule::on_sample under the lock.
OnSample ==
    /\ inHand # Nothing
    /\ LET output == IF inHand \in SampledCondition THEN "on" ELSE "off"
           command == RangeCommand(inHand)
       IN  /\ IF sampledOut # output
              THEN sampledOut' = output /\ sampledLevel' = output
              ELSE UNCHANGED <<sampledOut, sampledLevel>>
           /\ IF rangeLast # command
              THEN rangeLast' = command /\ rangeLevel' = command
              ELSE UNCHANGED <<rangeLast, rangeLevel>>
    /\ samples' = Append(samples, inHand)
    /\ inHand' = Nothing
    /\ UNCHANGED <<vars, engineSlot, handle, evaluated, lastOutput, baseline, level, prevSeen,
                   trigger>>

-----------------------------------------------------------------------------
(* The channel's own steps around the engine.                               *)

StartProvider ==
    /\ Start
    /\ prevSeen' = 0 /\ trigger' = <<>>
    /\ UNCHANGED <<engineSlot, handle, evaluated, ruleVars, sinkVars, pollVars>>

StopProvider == Stop /\ UNCHANGED engineVars
PublishReading ==
    /\ Len(samples) + Len(log) < MaxInputs
    /\ Publish /\ UNCHANGED engineVars

BeginDelivery ==
    /\ TakeNotice
    /\ evaluated' = FALSE
    /\ UNCHANGED <<engineSlot, handle, ruleVars, sinkVars, pollVars, prevSeen, trigger>>

\* The engine's callback returns after it evaluated its rules.
EndDelivery ==
    /\ calling = engineSlot => evaluated
    /\ CallbackReturns
    /\ UNCHANGED engineVars

EngineNext ==
    \/ Attach \/ EngineDetach \/ OtherSubscriber
    \/ StartProvider \/ StopProvider \/ PublishReading
    \/ BeginDelivery \/ OnNotice \/ EndDelivery
    \/ ReadPolled \/ OnSample

EngineSpec == EngineInit /\ [][EngineNext]_allVars

-----------------------------------------------------------------------------
(* Correctness.                                                             *)

\* Nothing is in transit to the engine: its notice queue is empty and the
\* callback it may be running has evaluated its rules.
Settled ==
    /\ running /\ engineSlot # 0
    /\ ~pending[engineSlot]
    /\ calling = engineSlot => evaluated

\* The sink's level is never stale: once every notice has been delivered the
\* level rule's action is on exactly when the current reading is actionable
\* and satisfies the condition, across restarts of the provider, re-attachment,
\* coalescing and deduplication (rules.cpp:16-24).
LevelFollowsSignal == Settled => (level = "on" <=> current \in Holds)

\* An event never fires across a data gap: its two readings are actionable,
\* the condition became true between them, and availability was not lost in
\* between, even when the loss was coalesced away (rules.cpp:10-40).
TriggerSpansNoGap ==
    trigger # <<>> =>
        LET i == trigger[1]
            j == trigger[2]
        IN  /\ i > 0 /\ i < j
            /\ log[i] \in Actionable \ Holds /\ log[j] \in Holds
            /\ ~LostBetween(i, j)

\* Hysteresis against its definition: the sampled rule's action is on exactly
\* when some read since attach() activated it and every read since then met
\* the release condition; one failed or unactionable read clears it.
SampledFollowsHysteresis ==
    samples # <<>> =>
        (sampledLevel = "on" <=>
            \E i \in 1..Len(samples) :
               samples[i] \in Holds /\ \A j \in i..Len(samples) : samples[j] \in Keeps)

\* Deduplication never leaves a stale level behind: the range rule's action has
\* the level of the last read, or is off when it failed or was not actionable.
RangeFollowsLastRead ==
    samples # <<>> =>
        LET last == samples[Len(samples)]
        IN  rangeLevel = IF last \in Actionable THEN LevelOf(last) ELSE "unlit"

\* Each action has the level its own rule's input calls for: a delivered notice
\* (state), every read since attach() (sampled), the last read (range).
LevelsFollowInputs == LevelFollowsSignal /\ SampledFollowsHysteresis /\ RangeFollowsLastRead

=============================================================================
