---------------------- MODULE TelemetryPublicationProofs ----------------------
(***************************************************************************)
(* Proofs about TelemetryPublication, for every set of frames, watched     *)
(* descriptors, freshness policy, timeout and bound.                       *)
(*                                                                         *)
(* The properties speak of a worker at rest, between two reports. PubInv   *)
(* says in addition what holds between processing a frame and reporting    *)
(* it: up to when expiry has been served (ServedUpTo), which channels the  *)
(* pending message may have left behind (ChanInv), and that every reading  *)
(* still announced as fresh was so when the frame came in (GapInv).        *)
(***************************************************************************)
EXTENDS TelemetryPublication, TLAPS

TurnValues == Directions \cup {"Off", "Unknown"}

\* What the decoders keep in a state: a sample per signal, a frame per message.
StateType(s) ==
  /\ s = [msg |-> s.msg, sig |-> s.sig]
  /\ DOMAIN s.sig \subseteq Signals
  /\ \A d \in DOMAIN s.sig :
       /\ s.sig[d] = [value |-> s.sig[d].value, t |-> s.sig[d].t, valid |-> s.sig[d].valid]
       /\ s.sig[d].t \in Int /\ s.sig[d].valid \in BOOLEAN
  /\ \A m \in DOMAIN s.msg : s.msg[m].frame.t \in Int
  /\ "turn_state" \in DOMAIN s.sig => s.sig["turn_state"].value \in TurnValues

Working == worker # "none"

\* The clock value up to which expired samples have been announced.
ServedUpTo == IF worker = "processed" THEN procAt ELSE servedAt

\* The clock runs ahead of what was processed and what was published.
TimeInv ==
  /\ now \in 0..MaxTime /\ frames \in 0..MaxFrames
  /\ worker \in {"none", "idle", "processed"}
  /\ servedAt \in 0..now /\ procAt \in 0..now
  /\ worker = "processed" => servedAt <= procAt
  /\ StateType(st)

\* The health that was published last is the one the worker reported last.
HealthInv ==
  /\ life \in {"Stopped", "Running", "Faulted"}
  /\ Working =>
       /\ life = rt.lifecycle /\ life \in {"Running", "Faulted"}
       /\ rt.transport \in {"AwaitingTraffic", "Live", "TimedOut", "Faulted"}
       /\ life = "Faulted" <=> rt.transport = "Faulted"
       /\ health = [initialized |-> TRUE, lifecycle |-> life, transport |-> rt.transport]
  /\ life = "Stopped" => ~Working
  /\ worker = "idle" => pending = {}

\* The last frame of the run, and nothing without one.
RunInv ==
  worker = "idle" => lastRx = {procAt} \/ (lastRx = {} /\ DOMAIN st.sig = {})

\* Only the channels of the pending message may lag behind the state.
ChanInv ==
  IF Working
    THEN /\ DOMAIN chan = Watched
         /\ \A d \in Watched : chan[d].availability \in Readings
         /\ \A d \in Watched : MessageOf(d) \notin pending =>
              chan[d] = ReadingAt(st, d, ServedUpTo, rt.transport)
    ELSE chan = << >>

\* What is announced as fresh was fresh when the pending frame came in.
GapInv ==
  worker = "processed" =>
    \A d \in Watched \cap DOMAIN Freshness :
      chan[d].availability = "Fresh" => procAt <= chan[d].sample[1][2] + Freshness[d]

\* A mark names a sample whose expiry was served.
DueInv ==
  \A d \in DOMAIN due :
    /\ d \in DOMAIN st.sig /\ d \in DOMAIN Freshness
    /\ due[d] \in Int /\ due[d] + Freshness[d] < ServedUpTo

\* The store is behind only while processing_state_changed_ says so.
StoreInv ==
  /\ ~changed => pub.st = st
  /\ worker = "idle" => ~changed
  /\ Working => pub.transport = rt.transport

\* What publish_lighting decides for a state and a transport at n.
UpdateDecision(s, tr, n) ==
  LET turn == ReadingAt(s, "turn_state", n, tr)
      brake == ReadingAt(s, "brake_pressed", n, tr)
  IN  << IF /\ IsAvailable(turn) /\ turn.sample[1][1] # "Unknown"
            /\ ~TransportRequiresFailoff(tr)
           THEN turn.sample[1][1] ELSE "Unknown",
         turn.availability,
         brake.availability = "Fresh" /\ brake.sample[1][1],
         brake.availability >>

\* The sink shows the last update sent, unless its refusal is remembered.
LightInv ==
  /\ light.sent /\ ~light.failure => Decision(sink) = light.last
  /\ worker = "idle" => light.last = UpdateDecision(st, rt.transport, servedAt)

\* A direction in the sink ends with the sample and the run it came from.
EvidenceInv ==
  /\ sink.until \in Nat
  /\ sink.turn \in Directions =>
       /\ "turn_state" \in DOMAIN Freshness =>
            \E t \in seen[sink.turn] : sink.until <= t + Freshness["turn_state"]
       /\ sink.until <= procAt + SilenceTimeout \/ sink.until <= servedAt

\* The newest sample of each turn value is remembered.
SeenInv ==
  /\ seen \in [TurnValues -> SUBSET Int]
  /\ \A v \in TurnValues : seen[v] = {} \/ \E t \in seen[v] : seen[v] = {t}
  /\ "turn_state" \in DOMAIN st.sig =>
       \E t \in seen[st.sig["turn_state"].value] : st.sig["turn_state"].t <= t

PubInv ==
  /\ TimeInv /\ HealthInv /\ RunInv /\ ChanInv /\ GapInv /\ DueInv /\ StoreInv
  /\ LightInv /\ EvidenceInv /\ SeenInv

-----------------------------------------------------------------------------
(* The state and its readings.                                             *)

\* MessageSignals partitions the signals.
LEMMA MessageOfSignal ==
  ASSUME NEW m \in Messages, NEW d \in MessageSignals[m]
  PROVE  MessageOf(d) = m
<1>1. \A n \in Messages : d \in MessageSignals[n] => n = m
  <2> SUFFICES ASSUME NEW n \in Messages, d \in MessageSignals[n]
               PROVE  n = m
    OBVIOUS
  <2>1. MessageSignals[n] \cap MessageSignals[m] # {}
    OBVIOUS
  <2> QED
    BY <2>1, SMTT(60) DEF Messages, MessageSignals
<1> QED
  BY <1>1 DEF MessageOf

\* The signals of turn_state and brake_pressed.
LEMMA TurnAndBrake ==
  /\ "turn_state" \in MessageSignals["TurnSwitch"] /\ "TurnSwitch" \in Messages
  /\ "turn_state" \in Signals /\ "brake_pressed" \in Signals
BY DEF Messages, MessageSignals, Signals

\* A frame as the worker receives it.
FrameAt(fr, t) == [id |-> fr.id, t |-> t, shape |-> fr.shape, data |-> fr.data]

\* A decoder takes signals of its own message only.
LEMMA SampleDomain ==
  ASSUME NEW fr \in Frames, NEW t, fr.id \in Messages
  PROVE  DOMAIN Sample(FrameAt(fr, t)) \subseteq MessageSignals[fr.id]
<1> DEFINE f == FrameAt(fr, t)
<1>1. f.id = fr.id /\ f.data = fr.data
  BY DEF FrameAt
<1> HIDE DEF f
<1>2. CASE fr.id = "EngineData"
  <2>1. Sample(f) = DecodeEngineData(f.data)
    BY <1>1, <1>2 DEF Sample
  <2>2. DOMAIN DecodeEngineData(f.data) = MessageSignals["EngineData"]
    BY DEF DecodeEngineData, MessageSignals
  <2> QED
    BY <2>1, <2>2, <1>2 DEF f
<1>3. CASE fr.id = "Gear"
  <2>1. Sample(f) = DecodeGear(f.data)
    BY <1>1, <1>3 DEF Sample
  <2>2. DOMAIN DecodeGear(f.data) = MessageSignals["Gear"]
    BY DEF DecodeGear, MessageSignals
  <2> QED
    BY <2>1, <2>2, <1>3 DEF f
<1>4. CASE fr.id = "TurnSwitch"
  <2>1. Sample(f) = DecodeTurnSwitch(f.data)
    BY <1>1, <1>4 DEF Sample
  <2>2. DOMAIN DecodeTurnSwitch(f.data) = MessageSignals["TurnSwitch"]
    BY DEF DecodeTurnSwitch, MessageSignals
  <2> QED
    BY <2>1, <2>2, <1>4 DEF f
<1>5. CASE fr.id = "BrakePedal"
  <2>1. Sample(f) = DecodeBrakePedal(f.data)
    BY <1>1, <1>5 DEF Sample
  <2>2. DOMAIN DecodeBrakePedal(f.data) = MessageSignals["BrakePedal"]
    BY DEF DecodeBrakePedal, MessageSignals
  <2> QED
    BY <2>1, <2>2, <1>5 DEF f
<1>6. CASE fr.id = "Acceleration"
  <2>1. Sample(f) = DecodeAcceleration(f.data)
    BY <1>1, <1>6 DEF Sample
  <2>2. DOMAIN DecodeAcceleration(f.data) = MessageSignals["Acceleration"]
    BY DEF DecodeAcceleration, MessageSignals
  <2> QED
    BY <2>1, <2>2, <1>6 DEF f
<1>7. CASE fr.id \in {"Doors", "BlinkInfo"}
  <2>1. Sample(f) = fr.data
    BY <1>1, <1>7 DEF Sample, DecodeDoors, DecodeBlinkInfo
  <2> QED
    BY <2>1, <1>7, FramesAssumption DEF f
<1>8. fr.id \in {"EngineData", "Gear", "Doors", "BlinkInfo", "TurnSwitch", "BrakePedal",
                 "Acceleration"}
  BY DEF Messages, MessageSignals
<1> QED
  BY <1>2, <1>3, <1>4, <1>5, <1>6, <1>7, <1>8

\* A decoded turn is one of the five turn values.
LEMMA TurnSample ==
  ASSUME NEW fr \in Frames, NEW t, fr.id = "TurnSwitch"
  PROVE  Sample(FrameAt(fr, t))["turn_state"] \in TurnValues
BY DEF Sample, FrameAt, DecodeTurnSwitch, NormalizeTurn, TurnValues, Directions

\* The record of a message keeps frames; a frame that is not newer changes nothing.
RecordStep(s, r, id, accepted) ==
  /\ r = [msg |-> r.msg, sig |-> s.sig]
  /\ \A m \in DOMAIN r.msg : r.msg[m].frame.t \in Int
  /\ \A m : m # id => /\ m \in DOMAIN r.msg <=> m \in DOMAIN s.msg
                      /\ m \in DOMAIN s.msg => r.msg[m] = s.msg[m]
  /\ r = s \/ accepted
  /\ accepted => MessageMutationMarker(s, id) # MessageMutationMarker(r, id)

LEMMA RecordEffect ==
  ASSUME NEW s, StateType(s), NEW fr, NEW t \in Int, NEW hl
  PROVE  RecordStep(s, RecordFrame(s, FrameAt(fr, t), hl), fr.id,
                    ObserveMessage(s, FrameAt(fr, t), hl) = "Accepted")
<1> DEFINE f == FrameAt(fr, t)
           r == RecordFrame(s, f, hl)
<1>1. f.id = fr.id /\ f.t = t
  BY DEF FrameAt
<1> HIDE DEF f, r
<1>2. CASE ObserveMessage(s, f, hl) # "Accepted"
  BY <1>2 DEF RecordFrame, StateType, RecordStep, r, f
<1>3. CASE ObserveMessage(s, f, hl) = "Accepted"
  <2>1. r = [s EXCEPT !.msg = [m \in DOMAIN s.msg \cup {f.id} |->
                 IF m = f.id THEN [health |-> hl, frame |-> f] ELSE s.msg[m]]]
    BY <1>3 DEF RecordFrame, r, f
  <2>2. r = [msg |-> [m \in DOMAIN s.msg \cup {f.id} |->
                       IF m = f.id THEN [health |-> hl, frame |-> f] ELSE s.msg[m]],
             sig |-> s.sig]
    BY <2>1, Zenon DEF StateType
  <2>3. r.msg = [m \in DOMAIN s.msg \cup {f.id} |->
                   IF m = f.id THEN [health |-> hl, frame |-> f] ELSE s.msg[m]]
    BY <2>2
  <2>4. f.id \in DOMAIN r.msg /\ r.msg[f.id].frame.t = t
    BY <2>3, <1>1
  <2>5. \A m : m # fr.id => /\ m \in DOMAIN r.msg <=> m \in DOMAIN s.msg
                            /\ m \in DOMAIN s.msg => r.msg[m] = s.msg[m]
    BY <2>3, <1>1
  <2>6. \A m \in DOMAIN r.msg : r.msg[m].frame.t \in Int
    BY <2>3, <2>4, <2>5, <1>1 DEF StateType
  <2>7. fr.id \in DOMAIN s.msg => t > s.msg[fr.id].frame.t
    BY <1>1, <1>3 DEF ObserveMessage
  <2>8. MessageMutationMarker(s, fr.id) # MessageMutationMarker(r, fr.id)
    BY <2>4, <2>7, <1>1 DEF MessageMutationMarker, StateType
  <2> QED
    BY <2>2, <2>3, <2>5, <2>6, <2>8, <1>3 DEF RecordStep, f, r
<1> QED
  BY <1>2, <1>3

\* A sample as Signal keeps it.
IsSample(x) ==
  x = [value |-> x.value, t |-> x.t, valid |-> x.valid] /\ x.t \in Int /\ x.valid \in BOOLEAN

\* An invalidated signal keeps its value and time.
LEMMA InvalidateEffect ==
  ASSUME NEW s, StateType(s), NEW d \in DOMAIN s.sig
  PROVE  /\ IsSample(SignalInvalidate(s, d).sig[d])
         /\ SignalInvalidate(s, d).sig[d].value = s.sig[d].value
<1>1. SignalInvalidate(s, d) = [s EXCEPT !.sig = [s.sig EXCEPT ![d] = [s.sig[d] EXCEPT !.valid = FALSE]]]
  BY DEF SignalInvalidate, StateType
<1>2. SignalInvalidate(s, d).sig = [s.sig EXCEPT ![d] = [s.sig[d] EXCEPT !.valid = FALSE]]
  <2>1. s = [msg |-> s.msg, sig |-> s.sig]
    BY Zenon DEF StateType
  <2> QED
    BY <1>1, <2>1
<1>3. SignalInvalidate(s, d).sig[d] = [s.sig[d] EXCEPT !.valid = FALSE]
  BY <1>2
<1>4. IsSample(s.sig[d])
  BY DEF StateType, IsSample
<1> QED
  BY <1>3, <1>4 DEF IsSample

\* An updated signal takes the newer sample.
LEMMA UpdateEffect ==
  ASSUME NEW s, StateType(s), NEW d, NEW v, NEW t \in Int
  PROVE  \/ d \in DOMAIN s.sig /\ SignalUpdate(s, d, v, t).sig[d] = s.sig[d]
         \/ SignalUpdate(s, d, v, t).sig[d] = [value |-> v, t |-> t, valid |-> TRUE]
<1>1. CASE d \in DOMAIN s.sig /\ t <= s.sig[d].t
  BY <1>1 DEF SignalUpdate
<1>2. CASE ~(d \in DOMAIN s.sig /\ t <= s.sig[d].t)
  <2>1. SignalUpdate(s, d, v, t) =
          [s EXCEPT !.sig = [x \in DOMAIN s.sig \cup {d} |->
             IF x = d THEN [value |-> v, t |-> t, valid |-> TRUE] ELSE s.sig[x]]]
    BY <1>2 DEF SignalUpdate
  <2>2. s = [msg |-> s.msg, sig |-> s.sig]
    BY Zenon DEF StateType
  <2>3. SignalUpdate(s, d, v, t).sig =
          [x \in DOMAIN s.sig \cup {d} |->
             IF x = d THEN [value |-> v, t |-> t, valid |-> TRUE] ELSE s.sig[x]]
    BY <2>1, <2>2
  <2> QED
    BY <2>3
<1> QED
  BY <1>1, <1>2

\* What decoding a frame may change: its message's record and signals, and
\* then the record's marker shows it.
DecodeFrame(s, new, id) ==
  /\ StateType(new)
  /\ DOMAIN s.sig \subseteq DOMAIN new.sig
  /\ \A d \in Signals : MessageOf(d) # id =>
       /\ d \in DOMAIN new.sig <=> d \in DOMAIN s.sig
       /\ d \in DOMAIN s.sig => new.sig[d] = s.sig[d]
  /\ \A m : m # id =>
       /\ m \in DOMAIN new.msg <=> m \in DOMAIN s.msg
       /\ m \in DOMAIN s.msg => new.msg[m] = s.msg[m]
  /\ new = s \/ MessageMutationMarker(s, id) # MessageMutationMarker(new, id)

\* Applying an accepted frame's samples.
LEMMA ApplyEffect ==
  ASSUME NEW s, StateType(s), NEW fr \in Frames, fr.id \in Messages, NEW t \in Int,
         ObserveMessage(s, FrameAt(fr, t), "Healthy") = "Accepted"
  PROVE  DecodeFrame(s, ApplySample(s, FrameAt(fr, t)), fr.id)
<1> DEFINE f == FrameAt(fr, t)
           r == RecordFrame(s, f, "Healthy")
           smp == Sample(f)
           undef == {d \in DOMAIN smp : smp[d] = Undefined}
           new == ApplySample(s, f)
           At(d) == IF d \notin DOMAIN smp THEN s.sig[d]
                    ELSE IF d \in undef THEN SignalInvalidate(s, d).sig[d]
                    ELSE SignalUpdate(s, d, smp[d], t).sig[d]
<1>1. f.id = fr.id /\ f.t = t
  BY DEF FrameAt
<1>2. RecordStep(s, r, fr.id, TRUE)
  <2>1. RecordStep(s, r, fr.id, ObserveMessage(s, f, "Healthy") = "Accepted")
    BY RecordEffect, Zenon
  <2> QED
    BY <2>1
<1>3. DOMAIN smp \subseteq MessageSignals[fr.id]
  BY SampleDomain
<1>4. fr.id = "TurnSwitch" => smp["turn_state"] \in TurnValues
  BY TurnSample
<1> HIDE DEF f, r, smp
<1>5. /\ new = [msg |-> r.msg, sig |-> [d \in DOMAIN s.sig \cup (DOMAIN smp \ undef) |-> At(d)]]
      /\ new.msg = r.msg
      /\ new.sig = [d \in DOMAIN s.sig \cup (DOMAIN smp \ undef) |-> At(d)]
  <2>1. new = [r EXCEPT !.sig = [d \in DOMAIN r.sig \cup (DOMAIN smp \ undef) |->
                 IF d \notin DOMAIN smp THEN r.sig[d]
                 ELSE IF d \in undef THEN SignalInvalidate(s, d).sig[d]
                 ELSE SignalUpdate(s, d, smp[d], f.t).sig[d]]]
    BY Zenon DEF ApplySample, r, smp
  <2>2. r.sig = s.sig
    BY <1>2 DEF RecordStep
  <2>3. new = [r EXCEPT !.sig = [d \in DOMAIN s.sig \cup (DOMAIN smp \ undef) |-> At(d)]]
    BY <2>1, <2>2, <1>1
  <2> HIDE DEF new, At
  <2> QED
    BY <2>3, <1>2 DEF RecordStep
<1> HIDE DEF new
<1>6. \A d \in MessageSignals[fr.id] : d \in Signals /\ MessageOf(d) = fr.id
  BY MessageOfSignal DEF Signals
<1>7. \A d \in DOMAIN new.sig : IsSample(new.sig[d])
  <2> SUFFICES ASSUME NEW d \in DOMAIN new.sig
               PROVE  IsSample(new.sig[d])
    OBVIOUS
  <2>1. \A x \in DOMAIN s.sig : IsSample(s.sig[x])
    BY DEF StateType, IsSample
  <2>2. CASE d \notin DOMAIN smp
    BY <2>1, <2>2, <1>5
  <2>3. CASE d \in undef
    BY <2>3, <1>5, InvalidateEffect
  <2>4. CASE d \in DOMAIN smp \ undef
    <3>1. new.sig[d] = SignalUpdate(s, d, smp[d], t).sig[d]
      BY <2>4, <1>5
    <3>2. \/ d \in DOMAIN s.sig /\ new.sig[d] = s.sig[d]
          \/ new.sig[d] = [value |-> smp[d], t |-> t, valid |-> TRUE]
      <4> DEFINE v == smp[d]
      <4>1. new.sig[d] = SignalUpdate(s, d, v, t).sig[d]
        BY <3>1
      <4> HIDE DEF v
      <4>2. \/ d \in DOMAIN s.sig /\ SignalUpdate(s, d, v, t).sig[d] = s.sig[d]
            \/ SignalUpdate(s, d, v, t).sig[d] = [value |-> v, t |-> t, valid |-> TRUE]
        BY UpdateEffect
      <4>3. \/ d \in DOMAIN s.sig /\ new.sig[d] = s.sig[d]
            \/ new.sig[d] = [value |-> v, t |-> t, valid |-> TRUE]
        BY <4>1, <4>2
      <4> QED
        BY <4>3 DEF v
    <3>3. CASE d \in DOMAIN s.sig /\ new.sig[d] = s.sig[d]
      BY <2>1, <3>3
    <3>4. CASE new.sig[d] = [value |-> smp[d], t |-> t, valid |-> TRUE]
      BY <3>4 DEF IsSample
    <3> QED
      BY <3>2, <3>3, <3>4
  <2> QED
    BY <2>2, <2>3, <2>4
<1>8. "turn_state" \in DOMAIN new.sig => new.sig["turn_state"].value \in TurnValues
  <2> SUFFICES ASSUME "turn_state" \in DOMAIN new.sig
               PROVE  new.sig["turn_state"].value \in TurnValues
    OBVIOUS
  <2>1. "turn_state" \in DOMAIN s.sig => s.sig["turn_state"].value \in TurnValues
    BY DEF StateType
  <2>2. CASE "turn_state" \notin DOMAIN smp
    BY <2>1, <2>2, <1>5
  <2>3. CASE "turn_state" \in undef
    BY <2>1, <2>3, <1>5, InvalidateEffect
  <2>4. CASE "turn_state" \in DOMAIN smp \ undef
    <3>1. smp["turn_state"] \in TurnValues
      BY <2>4, <1>3, <1>4, <1>6, TurnAndBrake, MessageOfSignal
    <3>2. new.sig["turn_state"] = SignalUpdate(s, "turn_state", smp["turn_state"], t).sig["turn_state"]
      BY <2>4, <1>5
    <3>3. \/ "turn_state" \in DOMAIN s.sig /\ new.sig["turn_state"] = s.sig["turn_state"]
          \/ new.sig["turn_state"] = [value |-> smp["turn_state"], t |-> t, valid |-> TRUE]
      BY <3>2, UpdateEffect
    <3> QED
      BY <2>1, <3>1, <3>3
  <2> QED
    BY <2>2, <2>3, <2>4
<1>9. StateType(new)
  <2>1. DOMAIN new.sig \subseteq Signals
    BY <1>3, <1>5, <1>6 DEF StateType
  <2>2. \A m \in DOMAIN new.msg : new.msg[m].frame.t \in Int
    BY <1>2, <1>5 DEF RecordStep
  <2> QED
    BY <2>1, <2>2, <1>5, <1>7, <1>8, ZenonT(40) DEF StateType, IsSample
<1>10. \A d \in Signals : MessageOf(d) # fr.id => d \notin DOMAIN smp
  BY <1>3, <1>6
<1>11. \A d \in Signals : MessageOf(d) # fr.id =>
         /\ d \in DOMAIN new.sig <=> d \in DOMAIN s.sig
         /\ d \in DOMAIN s.sig => new.sig[d] = s.sig[d]
  BY <1>5, <1>10
<1>12. MessageMutationMarker(s, fr.id) # MessageMutationMarker(new, fr.id)
  BY <1>2, <1>5 DEF RecordStep, MessageMutationMarker
<1> QED
  BY <1>2, <1>5, <1>9, <1>11, <1>12 DEF RecordStep, DecodeFrame, f, new

\* Every frame.
LEMMA DecodeEffect ==
  ASSUME NEW s, StateType(s), NEW fr \in Frames, NEW t \in Int
  PROVE  DecodeFrame(s, Decode(s, FrameAt(fr, t)), fr.id)
<1> DEFINE f == FrameAt(fr, t)
<1>1. f.id = fr.id
  BY DEF FrameAt
<1>2. DecodeFrame(s, s, fr.id)
  BY DEF DecodeFrame
<1>3. DecodeFrame(s, RecordFrame(s, f, "Faulted"), fr.id)
  <2> DEFINE r == RecordFrame(s, f, "Faulted")
  <2>1. RecordStep(s, r, fr.id, ObserveMessage(s, f, "Faulted") = "Accepted")
    BY RecordEffect, Zenon
  <2> HIDE DEF r
  <2>2. r.sig = s.sig
    BY <2>1 DEF RecordStep
  <2>3. StateType(r)
    BY <2>1, <2>2 DEF StateType, RecordStep
  <2> QED
    BY <2>1, <2>2, <2>3 DEF DecodeFrame, RecordStep, r
<1>4. Classify(f) = "Decoded" => fr.id \in Messages
  BY <1>1 DEF Classify
<1>5. Classify(f) = "Decoded" /\ ObserveMessage(s, f, "Healthy") = "Accepted"
        => DecodeFrame(s, ApplySample(s, f), fr.id)
  BY <1>4, ApplyEffect, Zenon
<1>6. Classify(f) \in {"Ignored", "Malformed", "Decoded"}
  BY DEF Classify
<1> HIDE DEF f
<1>7. CASE Classify(f) = "Ignored"
  BY <1>2, <1>7 DEF Decode, f
<1>8. CASE Classify(f) = "Malformed"
  BY <1>3, <1>8 DEF Decode, f
<1>9. CASE Classify(f) = "Decoded"
  BY <1>2, <1>5, <1>9 DEF Decode, f
<1> QED
  BY <1>6, <1>7, <1>8, <1>9

-----------------------------------------------------------------------------
(* Readings and their age.                                                 *)

\* A sample whose freshness has run out at n.
Expired(s, d, n) ==
  d \in DOMAIN s.sig /\ d \in DOMAIN Freshness /\ n > s.sig[d].t + Freshness[d]

\* A frame leaves the readings of every other message alone.
LEMMA ReadingUnchanged ==
  ASSUME NEW s, NEW new, NEW id, DecodeFrame(s, new, id),
         NEW d \in Signals, MessageOf(d) # id, NEW n, NEW tr
  PROVE  ReadingAt(new, d, n, tr) = ReadingAt(s, d, n, tr)
<1>1. /\ d \in DOMAIN new.sig <=> d \in DOMAIN s.sig
      /\ d \in DOMAIN s.sig => new.sig[d] = s.sig[d]
  BY DEF DecodeFrame
<1>2. MessageHealthFor(new, MessageOf(d)) = MessageHealthFor(s, MessageOf(d))
  BY DEF DecodeFrame, MessageHealthFor
<1>3. StatusAt(new, d, n, tr) = StatusAt(s, d, n, tr)
  BY <1>1, <1>2 DEF StatusAt, SignalStatusAt
<1> QED
  BY <1>1, <1>3 DEF ReadingAt

\* Time changes a reading only by expiring its sample.
LEMMA ReadingAges ==
  ASSUME NEW s, StateType(s), NEW d, NEW tr, NEW n0 \in Int, NEW n1 \in Int, n0 <= n1,
         Expired(s, d, n1) => Expired(s, d, n0)
  PROVE  ReadingAt(s, d, n0, tr) = ReadingAt(s, d, n1, tr)
<1>1. d \in DOMAIN s.sig => SignalStatusAt(s, d, n0) = SignalStatusAt(s, d, n1)
  BY FreshnessAssumption DEF SignalStatusAt, Expired, StateType
<1>2. StatusAt(s, d, n0, tr) = StatusAt(s, d, n1, tr)
  BY <1>1 DEF StatusAt
<1> QED
  BY <1>2 DEF ReadingAt

\* The transport changes a reading only by failing off or recovering.
LEMMA ReadingTransport ==
  ASSUME NEW s, NEW d, NEW n, NEW tr1, NEW tr2,
         tr1 \in FailOffTransports <=> tr2 \in FailOffTransports
  PROVE  ReadingAt(s, d, n, tr1) = ReadingAt(s, d, n, tr2)
<1>1. StatusAt(s, d, n, tr1) = StatusAt(s, d, n, tr2)
  BY DEF StatusAt
<1> QED
  BY <1>1 DEF ReadingAt

\* A reading of a failed transport does not age.
LEMMA ReadingFailed ==
  ASSUME NEW s, NEW d, NEW n0, NEW n1, NEW tr \in FailOffTransports
  PROVE  /\ ReadingAt(s, d, n0, tr) = ReadingAt(s, d, n1, tr)
         /\ ReadingAt(s, d, n0, tr).availability = "Unavailable"
BY DEF ReadingAt, StatusAt

\* What a reading says.
LEMMA ReadingMeaning ==
  ASSUME NEW s, StateType(s), NEW d, NEW n \in Int, NEW tr
  PROVE  /\ ReadingAt(s, d, n, tr).availability \in Readings
         /\ ReadingAt(s, d, n, tr).availability = StatusAt(s, d, n, tr)
         /\ IsAvailable(ReadingAt(s, d, n, tr)) =>
              /\ tr \notin FailOffTransports
              /\ d \in DOMAIN s.sig
              /\ ReadingAt(s, d, n, tr).sample[1][1] = s.sig[d].value
              /\ ReadingAt(s, d, n, tr).sample[1][2] = s.sig[d].t
              /\ d \in DOMAIN Freshness => n <= s.sig[d].t + Freshness[d]
         /\ ReadingAt(s, d, n, tr).availability = "Fresh" => d \in DOMAIN Freshness
<1>1. /\ ReadingAt(s, d, n, tr).availability = StatusAt(s, d, n, tr)
      /\ d \in DOMAIN s.sig =>
           ReadingAt(s, d, n, tr).sample = << <<s.sig[d].value, s.sig[d].t>> >>
  BY DEF ReadingAt
<1>2. StatusAt(s, d, n, tr) \in Readings
  BY DEF StatusAt, SignalStatusAt, Readings
<1>3. StatusAt(s, d, n, tr) \in {"Fresh", "FreshnessUnverified"} =>
        /\ tr \notin FailOffTransports /\ d \in DOMAIN s.sig
        /\ d \in DOMAIN Freshness => n <= s.sig[d].t + Freshness[d]
  BY DEF StatusAt, SignalStatusAt
<1>4. StatusAt(s, d, n, tr) = "Fresh" => d \in DOMAIN Freshness
  BY DEF StatusAt, SignalStatusAt
<1>5. d \in DOMAIN s.sig => /\ ReadingAt(s, d, n, tr).sample[1][1] = s.sig[d].value
                            /\ ReadingAt(s, d, n, tr).sample[1][2] = s.sig[d].t
  BY <1>1
<1> HIDE DEF StatusAt
<1> QED
  BY <1>1, <1>2, <1>3, <1>4, <1>5 DEF IsAvailable

\* One pass of publish_notifications brings every channel up to date, when
\* those it passes over already were at n0 and n0's expiries were marked.
LEMMA PublishCompletes ==
  ASSUME NEW s, StateType(s), NEW tr, NEW affected, NEW global \in BOOLEAN,
         NEW n0 \in Int, now \in Int, n0 <= now, DOMAIN chan = Watched,
         \A d \in DOMAIN due : /\ d \in DOMAIN s.sig /\ d \in DOMAIN Freshness
                               /\ due[d] \in Int /\ due[d] + Freshness[d] < n0,
         ~global => \A d \in Watched : MessageOf(d) \notin affected =>
                       chan[d] = ReadingAt(s, d, n0, tr),
         PublishNotifications(s, tr, affected, global)
  PROVE  /\ DOMAIN chan' = Watched
         /\ \A d \in Watched : chan'[d] = ReadingAt(s, d, now, tr)
         /\ \A d \in DOMAIN due' : /\ d \in DOMAIN s.sig /\ d \in DOMAIN Freshness
                                   /\ due'[d] \in Int /\ due'[d] + Freshness[d] < now
<1> DEFINE sel == Selected(s, affected, global)
           served == {d \in sel : DescriptorDue(s, d)}
<1>1. /\ chan' = [d \in Watched |->
                    IF d \in sel THEN ReadingAt(s, d, now, tr) ELSE chan[d]]
      /\ due' = [d \in DOMAIN due \cup served |->
                   IF d \in served THEN s.sig[d].t ELSE due[d]]
  BY DEF PublishNotifications
<1>2. \A d \in Watched \ sel : /\ ~global /\ MessageOf(d) \notin affected
                               /\ ~DescriptorDue(s, d)
  BY DEF Selected
<1>3. \A d \in served : /\ d \in DOMAIN s.sig /\ d \in DOMAIN Freshness
                        /\ s.sig[d].t \in Int /\ s.sig[d].t + Freshness[d] < now
  BY FreshnessAssumption DEF DescriptorDue, StateType
<1> HIDE DEF sel, served
<1>4. \A d \in Watched : chan'[d] = ReadingAt(s, d, now, tr)
  <2> SUFFICES ASSUME NEW d \in Watched
               PROVE  chan'[d] = ReadingAt(s, d, now, tr)
    OBVIOUS
  <2>1. CASE d \in sel
    BY <1>1, <2>1
  <2>2. CASE d \notin sel
    <3>1. chan'[d] = ReadingAt(s, d, n0, tr)
      BY <1>1, <1>2, <2>2
    <3>2. Expired(s, d, now) => Expired(s, d, n0)
      <4> SUFFICES ASSUME Expired(s, d, now)
                   PROVE  Expired(s, d, n0)
        OBVIOUS
      <4>1. d \in DOMAIN due /\ due[d] = s.sig[d].t
        BY <1>2, <2>2 DEF DescriptorDue, Expired
      <4>2. due[d] + Freshness[d] < n0 /\ due[d] \in Int /\ Freshness[d] \in Int
        BY <4>1, FreshnessAssumption
      <4> QED
        BY <4>1, <4>2 DEF Expired
    <3> QED
      BY <3>1, <3>2, ReadingAges
  <2> QED
    BY <2>1, <2>2
<1>5. \A d \in DOMAIN due' : /\ d \in DOMAIN s.sig /\ d \in DOMAIN Freshness
                             /\ due'[d] \in Int /\ due'[d] + Freshness[d] < now
  <2> SUFFICES ASSUME NEW d \in DOMAIN due'
               PROVE  /\ d \in DOMAIN s.sig /\ d \in DOMAIN Freshness
                      /\ due'[d] \in Int /\ due'[d] + Freshness[d] < now
    OBVIOUS
  <2>1. CASE d \in served
    BY <1>1, <1>3, <2>1
  <2>2. CASE d \notin served
    <3>1. d \in DOMAIN due /\ due'[d] = due[d]
      BY <1>1, <2>2
    <3>2. Freshness[d] \in Nat
      BY <3>1, FreshnessAssumption
    <3> QED
      BY <3>1, <3>2
  <2> QED
    BY <2>1, <2>2
<1> QED
  BY <1>1, <1>4, <1>5

-----------------------------------------------------------------------------
(* The deadline of a lighting update.                                      *)

\* A set of integers with a least element, or none.
HasLeast(S) == S = {} \/ \E x \in S : \A y \in S : x \in Int /\ y \in Int /\ x <= y

LEMMA LeastOfUnion ==
  ASSUME NEW S, NEW T, HasLeast(S), HasLeast(T)
  PROVE  HasLeast(S \cup T)
<1>1. CASE S = {} \/ T = {}
  BY <1>1 DEF HasLeast
<1>2. CASE S # {} /\ T # {}
  <2>1. PICK x \in S : \A y \in S : x \in Int /\ y \in Int /\ x <= y
    BY <1>2 DEF HasLeast
  <2>2. PICK z \in T : \A y \in T : z \in Int /\ y \in Int /\ z <= y
    BY <1>2 DEF HasLeast
  <2>3. CASE x <= z
    <3>1. \A y \in S \cup T : x \in Int /\ y \in Int /\ x <= y
      BY <2>1, <2>2, <2>3
    <3> QED
      BY <3>1 DEF HasLeast
  <2>4. CASE ~(x <= z)
    <3>1. \A y \in S \cup T : z \in Int /\ y \in Int /\ z <= y
      BY <2>1, <2>2, <2>4
    <3> QED
      BY <3>1 DEF HasLeast
  <2> QED
    BY <2>3, <2>4
<1> QED
  BY <1>1, <1>2

LEMMA MinIsLeast ==
  ASSUME NEW S, HasLeast(S), S # {}
  PROVE  /\ Min(S) \in S /\ Min(S) \in Int
         /\ \A y \in S : y \in Int /\ Min(S) <= y
<1>1. \E x \in S : \A y \in S : x <= y
  BY DEF HasLeast
<1>2. Min(S) \in S /\ \A y \in S : Min(S) <= y
  BY <1>1 DEF Min
<1> QED
  BY <1>2 DEF HasLeast

\* Max of the newest sample and a newer or older one.
LEMMA MaxOfTwo ==
  ASSUME NEW S, NEW t \in Int, S = {} \/ \E x \in S : S = {x} /\ x \in Int
  PROVE  /\ Max(S \cup {t}) \in Int /\ t <= Max(S \cup {t})
         /\ \A x \in S : x <= Max(S \cup {t})
<1>1. \E m \in S \cup {t} : \A y \in S \cup {t} : m >= y
  <2>1. CASE S = {}
    BY <2>1
  <2>2. CASE \E x \in S : S = {x} /\ x \in Int
    <3>1. PICK x \in S : S = {x} /\ x \in Int
      BY <2>2
    <3>2. x >= t \/ t >= x
      BY <3>1
    <3> QED
      BY <3>1, <3>2
  <2> QED
    BY <2>1, <2>2
<1>2. /\ Max(S \cup {t}) \in S \cup {t}
      /\ \A y \in S \cup {t} : Max(S \cup {t}) >= y
  BY <1>1 DEF Max
<1>3. Max(S \cup {t}) \in Int
  BY <1>2
<1> QED
  BY <1>2, <1>3

\* An update decides from the readings at the clock of the publication.
LEMMA DecisionIsReading ==
  ASSUME NEW s, NEW tr, NEW rx
  PROVE  Decision(LightingUpdate(s, tr, rx)) = UpdateDecision(s, tr, now)
BY DEF Decision, LightingUpdate, UpdateDecision

\* A direction is lit by a sample still good now, and ends with it and with
\* the silence of the transport, unless it ends at once.
LEMMA UpdateDeadline ==
  ASSUME NEW s, StateType(s), NEW tr, NEW rx, now \in Nat,
         rx = {} \/ \E r \in Nat : rx = {r}
  PROVE  LET u == LightingUpdate(s, tr, rx) IN
         /\ u.until \in Nat
         /\ u.turn \in Directions =>
              /\ "turn_state" \in DOMAIN s.sig /\ s.sig["turn_state"].value = u.turn
              /\ "turn_state" \in DOMAIN Freshness =>
                   u.until <= s.sig["turn_state"].t + Freshness["turn_state"]
              /\ \A r \in rx : u.until <= r + SilenceTimeout \/ u.until <= now
<1> DEFINE u == LightingUpdate(s, tr, rx)
           turn == ReadingAt(s, "turn_state", now, tr)
           brake == ReadingAt(s, "brake_pressed", now, tr)
           actionable == /\ IsAvailable(turn) /\ turn.sample[1][1] # "Unknown"
                         /\ ~TransportRequiresFailoff(tr)
           pressed == brake.availability = "Fresh" /\ brake.sample[1][1]
           tdl == IF actionable THEN SampleDeadline(s, "turn_state") ELSE {}
           bdl == IF pressed THEN SampleDeadline(s, "brake_pressed") ELSE {}
           rdl == {r + SilenceTimeout : r \in rx}
           all == tdl \cup bdl \cup rdl
           deadline == IF all = {} THEN now + Heartbeat ELSE Min(all)
<1>1. /\ u.turn = IF actionable THEN turn.sample[1][1] ELSE "Unknown"
      /\ u.until = IF deadline <= now THEN now ELSE deadline
  BY DEF LightingUpdate
<1>2. ASSUME NEW d PROVE HasLeast(SampleDeadline(s, d))
  <2>1. CASE d \in DOMAIN s.sig \cap DOMAIN Freshness
    <3>1. SampleDeadline(s, d) = {s.sig[d].t + Freshness[d]}
      BY <2>1 DEF SampleDeadline
    <3>2. s.sig[d].t + Freshness[d] \in Int
      BY <2>1, FreshnessAssumption DEF StateType
    <3> QED
      BY <3>1, <3>2 DEF HasLeast
  <2>2. CASE d \notin DOMAIN s.sig \cap DOMAIN Freshness
    BY <2>2 DEF SampleDeadline, HasLeast
  <2> QED
    BY <2>1, <2>2
<1>3. HasLeast({})
  BY DEF HasLeast
<1>4. HasLeast(tdl) /\ HasLeast(bdl)
  <2>1. tdl = {} \/ tdl = SampleDeadline(s, "turn_state")
    OBVIOUS
  <2>2. bdl = {} \/ bdl = SampleDeadline(s, "brake_pressed")
    OBVIOUS
  <2> HIDE DEF tdl, bdl
  <2> QED
    BY <1>2, <1>3, <2>1, <2>2
<1>5. HasLeast(rdl)
  <2>1. CASE rx = {}
    BY <2>1 DEF HasLeast
  <2>2. CASE \E r \in Nat : rx = {r}
    <3>1. PICK r \in Nat : rx = {r}
      BY <2>2
    <3>2. rdl = {r + SilenceTimeout} /\ r + SilenceTimeout \in Int
      BY <3>1, PublicationAssumption
    <3> HIDE DEF rdl
    <3> QED
      BY <3>2 DEF HasLeast
  <2> QED
    BY <2>1, <2>2
<1>6. HasLeast(all)
  <2> HIDE DEF tdl, bdl, rdl
  <2>1. HasLeast(tdl \cup bdl)
    BY <1>4, LeastOfUnion
  <2> QED
    BY <2>1, <1>5, LeastOfUnion
<1>7. /\ deadline \in Int
      /\ \A y \in all : y \in Int /\ deadline <= y
  <2> HIDE DEF all
  <2>1. CASE all = {}
    BY <2>1, PublicationAssumption
  <2>2. CASE all # {}
    BY <1>6, <2>2, MinIsLeast
  <2> QED
    BY <2>1, <2>2
<1> HIDE DEF deadline
<1>8. u.until \in Nat
  BY <1>1, <1>7
<1>9. u.turn \in Directions =>
        /\ actionable /\ "turn_state" \in DOMAIN s.sig
        /\ s.sig["turn_state"].value = u.turn
        /\ "turn_state" \in DOMAIN Freshness =>
             now <= s.sig["turn_state"].t + Freshness["turn_state"]
  <2> SUFFICES ASSUME u.turn \in Directions
               PROVE  /\ actionable /\ "turn_state" \in DOMAIN s.sig
                      /\ s.sig["turn_state"].value = u.turn
                      /\ "turn_state" \in DOMAIN Freshness =>
                           now <= s.sig["turn_state"].t + Freshness["turn_state"]
    OBVIOUS
  <2>1. actionable
    BY <1>1 DEF Directions
  <2>2. u.turn = turn.sample[1][1]
    BY <1>1, <2>1
  <2>3. IsAvailable(turn)
    BY <2>1
  <2>4. /\ "turn_state" \in DOMAIN s.sig
        /\ turn.sample[1][1] = s.sig["turn_state"].value
        /\ "turn_state" \in DOMAIN Freshness =>
             now <= s.sig["turn_state"].t + Freshness["turn_state"]
    <3>1. now \in Int
      OBVIOUS
    <3> QED
      BY <2>3, <3>1, ReadingMeaning
  <2> HIDE DEF actionable, turn, u
  <2> QED
    BY <2>1, <2>2, <2>4
<1>10. u.turn \in Directions /\ "turn_state" \in DOMAIN Freshness =>
         u.until <= s.sig["turn_state"].t + Freshness["turn_state"]
  <2> SUFFICES ASSUME u.turn \in Directions, "turn_state" \in DOMAIN Freshness
               PROVE  u.until <= s.sig["turn_state"].t + Freshness["turn_state"]
    OBVIOUS
  <2>1. actionable /\ "turn_state" \in DOMAIN s.sig
    BY <1>9
  <2>2. tdl = SampleDeadline(s, "turn_state")
    BY <2>1
  <2>3. s.sig["turn_state"].t + Freshness["turn_state"] \in tdl
    BY <2>1, <2>2 DEF SampleDeadline
  <2>4. s.sig["turn_state"].t + Freshness["turn_state"] \in all
    BY <2>3
  <2> HIDE DEF all, tdl, actionable, u
  <2> QED
    BY <1>1, <1>7, <1>9, <2>4
<1>11. \A r \in rx : u.until <= r + SilenceTimeout \/ u.until <= now
  <2> SUFFICES ASSUME NEW r \in rx
               PROVE  u.until <= r + SilenceTimeout \/ u.until <= now
    OBVIOUS
  <2>1. r + SilenceTimeout \in all
    OBVIOUS
  <2> HIDE DEF all, u
  <2> QED
    BY <1>1, <1>7, <2>1
<1> HIDE DEF actionable
<1> QED
  BY <1>8, <1>9, <1>10, <1>11

-----------------------------------------------------------------------------
(* The steps.                                                              *)

\* A report: everything is published for the state, the health and the clock.
LEMMA ReportStep ==
  ASSUME PubInv, Working, NEW lifecycle \in {"Running", "Faulted"},
         NEW transport \in {"AwaitingTraffic", "Live", "TimedOut", "Faulted"},
         lifecycle = "Faulted" <=> transport = "Faulted",
         transport = "AwaitingTraffic" => rt.transport = "AwaitingTraffic",
         NEW rx, rx = {procAt} \/ (rx = {} /\ DOMAIN st.sig = {}),
         NEW accepted \in BOOLEAN,
         OnDiagnostics(lifecycle, transport, rx, accepted)
  PROVE  PubInv'
<1> USE DEF OnDiagnostics, PublishCurrent
<1>1. /\ now \in Nat /\ MaxTime \in Nat /\ servedAt \in Nat /\ procAt \in Nat
      /\ servedAt <= now /\ procAt <= now /\ StateType(st)
      /\ ServedUpTo \in Int /\ ServedUpTo <= now
  BY PublicationAssumption DEF PubInv, TimeInv, ServedUpTo
<1>2. TimeInv'
  BY <1>1 DEF PubInv, TimeInv, StateType
<1>3. HealthInv'
  BY DEF HealthInv, Working
<1>4. RunInv'
  BY DEF RunInv
<1>5. RequiresGlobalHealthEvaluation(lifecycle, transport)
        \/ (transport \in FailOffTransports <=> rt.transport \in FailOffTransports)
  BY DEF PubInv, HealthInv, RequiresGlobalHealthEvaluation, TransportRequiresFailoff,
         FailOffTransports
<1>6. /\ DOMAIN chan' = Watched
      /\ \A d \in Watched : chan'[d] = ReadingAt(st, d, now, transport)
      /\ \A d \in DOMAIN due' : /\ d \in DOMAIN st.sig /\ d \in DOMAIN Freshness
                                /\ due'[d] \in Int /\ due'[d] + Freshness[d] < now
  <2> DEFINE global == RequiresGlobalHealthEvaluation(lifecycle, transport)
  <2>1. global \in BOOLEAN
    BY DEF RequiresGlobalHealthEvaluation, TransportRequiresFailoff
  <2>2. DOMAIN chan = Watched
    BY DEF PubInv, ChanInv
  <2>3. \A d \in DOMAIN due : /\ d \in DOMAIN st.sig /\ d \in DOMAIN Freshness
                              /\ due[d] \in Int /\ due[d] + Freshness[d] < ServedUpTo
    BY DEF PubInv, DueInv
  <2>4. ~global => \A d \in Watched : MessageOf(d) \notin pending =>
                     chan[d] = ReadingAt(st, d, ServedUpTo, transport)
    <3> SUFFICES ASSUME ~global, NEW d \in Watched, MessageOf(d) \notin pending
                 PROVE  chan[d] = ReadingAt(st, d, ServedUpTo, transport)
      OBVIOUS
    <3>1. chan[d] = ReadingAt(st, d, ServedUpTo, rt.transport)
      BY DEF PubInv, ChanInv
    <3>2. transport \in FailOffTransports <=> rt.transport \in FailOffTransports
      BY <1>5
    <3> QED
      BY <3>1, <3>2, ReadingTransport
  <2>5. PublishNotifications(st, transport, pending, global)
    OBVIOUS
  <2>6. now \in Int
    BY <1>1
  <2> HIDE DEF global
  <2> QED
    BY <1>1, <2>1, <2>2, <2>3, <2>4, <2>5, <2>6, PublishCompletes
<1>7. ChanInv'
  <2>1. worker' = "idle" /\ rt'.transport = transport /\ st' = st /\ servedAt' = now
    OBVIOUS
  <2>2. \A d \in Watched : chan'[d].availability \in Readings
    BY <1>1, <1>6, ReadingMeaning
  <2> HIDE DEF OnDiagnostics
  <2>3. Working' /\ ServedUpTo' = now
    BY <2>1 DEF Working, ServedUpTo
  <2> QED
    BY <1>6, <2>1, <2>2, <2>3 DEF ChanInv
<1>8. GapInv'
  BY DEF GapInv
<1>9. DueInv'
  BY <1>6 DEF DueInv, ServedUpTo
<1>10. StoreInv'
  BY DEF PubInv, StoreInv, StorePublish
<1> DEFINE u == LightingUpdate(st, transport, rx)
<1>11. \/ Send(u, accepted)
       \/ /\ light' = light /\ sink' = sink
          /\ light.sent /\ ~light.failure /\ Decision(u) = light.last
  BY DEF PublishLighting
<1>12. Decision(u) = UpdateDecision(st, transport, now)
  BY DecisionIsReading
<1>13. /\ u.until \in Nat
       /\ u.turn \in Directions =>
            /\ "turn_state" \in DOMAIN st.sig /\ st.sig["turn_state"].value = u.turn
            /\ "turn_state" \in DOMAIN Freshness =>
                 u.until <= st.sig["turn_state"].t + Freshness["turn_state"]
            /\ \A r \in rx : u.until <= r + SilenceTimeout \/ u.until <= now
  <2>1. rx = {} \/ \E r \in Nat : rx = {r}
    BY <1>1
  <2> QED
    BY <1>1, <2>1, UpdateDeadline
<1> HIDE DEF u
<1>14. LightInv'
  <2>1. light'.last = UpdateDecision(st, transport, now) /\ light'.sent
    BY <1>11, <1>12 DEF Send
  <2>2. ~light'.failure => Decision(sink') = light'.last
    <3>1. CASE Send(u, accepted)
      BY <3>1 DEF Send
    <3>2. CASE /\ light' = light /\ sink' = sink
               /\ light.sent /\ ~light.failure /\ Decision(u) = light.last
      <4>1. light.sent /\ ~light.failure => Decision(sink) = light.last
        BY DEF PubInv, LightInv
      <4> HIDE DEF OnDiagnostics
      <4> QED
        BY <3>2, <4>1
    <3> HIDE DEF OnDiagnostics
    <3> QED
      BY <1>11, <3>1, <3>2
  <2>3. rt'.transport = transport /\ st' = st /\ servedAt' = now
    OBVIOUS
  <2> HIDE DEF OnDiagnostics
  <2> QED
    BY <2>1, <2>2, <2>3 DEF LightInv, Decision
<1>15. EvidenceInv'
  <2>1. seen' = seen /\ servedAt' = now /\ procAt' = procAt
    OBVIOUS
  <2>2. CASE sink' = u
    <3>1. u.turn \in Directions /\ "turn_state" \in DOMAIN Freshness =>
            \E t \in seen[u.turn] : u.until <= t + Freshness["turn_state"]
      <4> SUFFICES ASSUME u.turn \in Directions, "turn_state" \in DOMAIN Freshness
                   PROVE  \E t \in seen[u.turn] : u.until <= t + Freshness["turn_state"]
        OBVIOUS
      <4>1. PICK t \in seen[u.turn] : st.sig["turn_state"].t <= t
        BY <1>13 DEF PubInv, SeenInv
      <4>2. t \in Int
        BY <4>1 DEF PubInv, SeenInv, TurnValues
      <4>3. st.sig["turn_state"].t \in Int /\ Freshness["turn_state"] \in Int
        BY <1>1, <1>13, FreshnessAssumption DEF StateType
      <4> QED
        BY <1>13, <4>1, <4>2, <4>3
    <3>2. u.turn \in Directions =>
            u.until <= procAt + SilenceTimeout \/ u.until <= now
      BY <1>13
    <3> QED
      BY <1>13, <2>1, <2>2, <3>1, <3>2 DEF EvidenceInv
  <2>3. CASE sink' = sink
    <3>1. EvidenceInv
      BY DEF PubInv
    <3>2. sink.until \in Nat
      BY <3>1 DEF EvidenceInv
    <3> QED
      BY <1>1, <2>1, <2>3, <3>1, <3>2 DEF EvidenceInv
  <2>4. sink' = u \/ sink' = sink
    BY <1>11 DEF Send
  <2> QED
    BY <2>2, <2>3, <2>4
<1>16. SeenInv'
  BY DEF PubInv, SeenInv
<1> HIDE DEF OnDiagnostics, PublishCurrent
<1> QED
  BY <1>2, <1>3, <1>4, <1>7, <1>8, <1>9, <1>10, <1>14, <1>15, <1>16 DEF PubInv

\* The three reports.
LEMMA ReportSteps ==
  ASSUME PubInv, NEW a \in BOOLEAN, ReportFrame(a) \/ ReportTimeout(a) \/ ReportFault(a)
  PROVE  PubInv'
<1>1. CASE ReportFrame(a)
  BY <1>1, ReportStep DEF ReportFrame, Working
<1>2. CASE ReportTimeout(a)
  <2> DEFINE transport == IF Silent THEN "TimedOut" ELSE rt.transport
  <2>1. /\ Working /\ OnDiagnostics("Running", transport, lastRx, a)
        /\ worker = "idle" /\ rt.lifecycle = "Running"
    BY <1>2 DEF ReportTimeout, Working
  <2>2. /\ transport \in {"AwaitingTraffic", "Live", "TimedOut", "Faulted"}
        /\ transport # "Faulted"
        /\ transport = "AwaitingTraffic" => rt.transport = "AwaitingTraffic"
    BY <2>1 DEF PubInv, HealthInv
  <2>3. lastRx = {procAt} \/ (lastRx = {} /\ DOMAIN st.sig = {})
    BY <2>1 DEF PubInv, RunInv
  <2> HIDE DEF transport
  <2> QED
    BY <2>1, <2>2, <2>3, ReportStep
<1>3. CASE ReportFault(a)
  <2>1. lastRx = {procAt} \/ (lastRx = {} /\ DOMAIN st.sig = {})
    BY <1>3 DEF PubInv, RunInv, ReportFault
  <2> QED
    BY <1>3, <2>1, ReportStep DEF ReportFault, Working
<1> QED
  BY <1>1, <1>2, <1>3

\* A frame: expiry is served on the old state, then the frame is decoded.
LEMMA ProcessStep ==
  ASSUME PubInv, NEW fr \in Frames, NEW k \in 0..MaxDelay, k <= now, Process(fr, now - k)
  PROVE  PubInv'
<1> DEFINE t == now - k
           new == Decode(st, FrameAt(fr, t))
<1>1. /\ now \in Nat /\ MaxTime \in Nat /\ MaxFrames \in Nat /\ frames \in 0..MaxFrames
      /\ servedAt \in Nat /\ procAt \in Nat /\ now <= MaxTime
      /\ servedAt <= now /\ procAt <= now /\ StateType(st) /\ t \in Int
  BY PublicationAssumption DEF PubInv, TimeInv
<1>2. /\ worker = "idle" /\ frames < MaxFrames /\ frames' = frames + 1
      /\ worker' = "processed" /\ pending' = {fr.id} /\ ServiceDueNotifications
      /\ st' = new /\ procAt' = now
      /\ changed' = (changed \/ MessageMutationMarker(st, fr.id)
                                  # MessageMutationMarker(new, fr.id))
      /\ seen' = IF "turn_state" \in DOMAIN new.sig
                   THEN [seen EXCEPT ![new.sig["turn_state"].value] =
                           {Max(@ \cup {new.sig["turn_state"].t})}]
                   ELSE seen
  BY DEF Process, FrameAt
<1>3. UNCHANGED <<now, rt, lastRx, life, pub, health, light, sink, servedAt>>
  BY DEF Process
<1>4. DecodeFrame(st, new, fr.id)
  BY <1>1, DecodeEffect
<1> HIDE DEF new, t
<1>5. StateType(new) /\ DOMAIN st.sig \subseteq DOMAIN new.sig
  BY <1>4 DEF DecodeFrame
<1>6. TimeInv'
  BY <1>1, <1>2, <1>3, <1>5 DEF TimeInv
<1>7. HealthInv'
  BY <1>2, <1>3 DEF PubInv, HealthInv, Working
<1>9. RunInv'
  BY <1>2 DEF RunInv
<1>10. /\ DOMAIN chan = Watched
       /\ \A d \in Watched : chan[d] = ReadingAt(st, d, servedAt, rt.transport)
       /\ \A d \in Watched : chan[d].availability \in Readings
       /\ \A d \in DOMAIN due : /\ d \in DOMAIN st.sig /\ d \in DOMAIN Freshness
                                /\ due[d] \in Int /\ due[d] + Freshness[d] < servedAt
  <2>1. Working /\ ServedUpTo = servedAt /\ pending = {}
    BY <1>2 DEF PubInv, HealthInv, Working, ServedUpTo
  <2> QED
    BY <2>1 DEF PubInv, ChanInv, DueInv
<1>11. /\ DOMAIN chan' = Watched
       /\ \A d \in Watched : chan'[d] = ReadingAt(st, d, now, rt.transport)
       /\ \A d \in DOMAIN due' : /\ d \in DOMAIN st.sig /\ d \in DOMAIN Freshness
                                 /\ due'[d] \in Int /\ due'[d] + Freshness[d] < now
  <2>1. CASE life = "Running"
    <3>1. PublishNotifications(st, rt.transport, {}, FALSE)
      BY <1>2, <2>1 DEF ServiceDueNotifications
    <3>2. now \in Int /\ servedAt \in Int
      BY <1>1
    <3> QED
      BY <1>1, <1>10, <3>1, <3>2, PublishCompletes
  <2>2. CASE life # "Running"
    <3>1. chan' = chan /\ due' = due
      BY <1>2, <2>2 DEF ServiceDueNotifications
    <3>2. rt.transport \in FailOffTransports
      BY <1>2, <2>2 DEF PubInv, HealthInv, Working, FailOffTransports
    <3>3. \A d \in Watched : chan'[d] = ReadingAt(st, d, now, rt.transport)
      BY <1>10, <3>1, <3>2, ReadingFailed
    <3>4. \A d \in DOMAIN due : Freshness[d] \in Int
      BY <1>10, FreshnessAssumption
    <3> QED
      BY <1>1, <1>10, <3>1, <3>3, <3>4
  <2> QED
    BY <2>1, <2>2
<1>12. now \in Int
  BY <1>1
<1>13. ChanInv'
  <2>1. Working' /\ ServedUpTo' = now
    BY <1>2 DEF Working, ServedUpTo
  <2>2. \A d \in Watched : chan'[d].availability \in Readings
    <3> SUFFICES ASSUME NEW d \in Watched
                 PROVE  chan'[d].availability \in Readings
      OBVIOUS
    <3>1. chan'[d] = ReadingAt(st, d, now, rt.transport)
      BY <1>11
    <3>2. StateType(st)
      BY <1>1
    <3> DEFINE tr == rt.transport
    <3> HIDE DEF tr
    <3>3. ReadingAt(st, d, now, tr).availability \in Readings
      BY <1>12, <3>2, ReadingMeaning
    <3> QED
      BY <3>1, <3>3 DEF tr
  <2>3. ASSUME NEW d \in Watched, MessageOf(d) # fr.id
        PROVE  chan'[d] = ReadingAt(new, d, now, rt.transport)
    <3>1. d \in Signals
      BY PublicationAssumption
    <3> QED
      BY <1>4, <1>11, <2>3, <3>1, ReadingUnchanged
  <2> QED
    BY <1>2, <1>3, <1>11, <2>1, <2>2, <2>3 DEF ChanInv
<1>14. GapInv'
  <2> SUFFICES ASSUME NEW d \in Watched \cap DOMAIN Freshness,
                      chan'[d].availability = "Fresh"
               PROVE  procAt' <= chan'[d].sample[1][2] + Freshness[d]
    BY DEF GapInv
  <2>1. chan'[d] = ReadingAt(st, d, now, rt.transport)
    BY <1>11
  <2>2. IsAvailable(chan'[d])
    BY DEF IsAvailable
  <2> QED
    BY <1>1, <1>2, <1>12, <2>1, <2>2, ReadingMeaning
<1>15. DueInv'
  <2>1. ServedUpTo' = now
    BY <1>2 DEF ServedUpTo
  <2> QED
    BY <1>2, <1>5, <1>11, <2>1 DEF DueInv
<1>16. StoreInv'
  <2>1. ~changed' => pub.st = st'
    BY <1>2, <1>4 DEF PubInv, StoreInv, DecodeFrame
  <2>2. Working
    BY <1>2 DEF Working
  <2> QED
    BY <1>2, <1>3, <2>1, <2>2 DEF PubInv, StoreInv
<1>17. LightInv'
  <2>1. Working
    BY <1>2 DEF Working
  <2> QED
    BY <1>2, <1>3, <2>1 DEF PubInv, LightInv, Decision
<1>18. /\ SeenInv'
       /\ \A v \in TurnValues : \A x \in seen[v] : \E y \in seen'[v] : x <= y
  <2>1. SeenInv
    BY DEF PubInv
  <2>2. CASE "turn_state" \in DOMAIN new.sig
    <3> DEFINE v == new.sig["turn_state"].value
               x == new.sig["turn_state"].t
               m == Max(seen[v] \cup {x})
    <3>1. v \in TurnValues /\ x \in Int
      BY <1>5, <2>2 DEF StateType
    <3>2. seen' = [seen EXCEPT ![v] = {m}]
      BY <1>2, <2>1, <2>2, <3>1 DEF SeenInv
    <3>3. seen[v] = {} \/ \E y \in seen[v] : seen[v] = {y} /\ y \in Int
      BY <2>1, <3>1 DEF SeenInv
    <3> HIDE DEF v, x, m
    <3>4. m \in Int /\ x <= m /\ \A y \in seen[v] : y <= m
      BY <3>1, <3>3, MaxOfTwo DEF m
    <3>5. seen \in [TurnValues -> SUBSET Int]
      BY <2>1 DEF SeenInv
    <3>6. seen' \in [TurnValues -> SUBSET Int] /\ seen'[v] = {m}
      BY <3>1, <3>2, <3>4, <3>5
    <3>7. \A w \in TurnValues : w # v => seen'[w] = seen[w]
      BY <3>2, <3>5
    <3>8. \A w \in TurnValues : seen'[w] = {} \/ \E y \in seen'[w] : seen'[w] = {y}
      BY <2>1, <3>6, <3>7 DEF SeenInv
    <3>9. \A w \in TurnValues : \A z \in seen[w] : \E y \in seen'[w] : z <= y
      <4> SUFFICES ASSUME NEW w \in TurnValues, NEW z \in seen[w]
                   PROVE  \E y \in seen'[w] : z <= y
        OBVIOUS
      <4>1. CASE w = v
        BY <3>4, <3>6, <4>1
      <4>2. CASE w # v
        <5>1. z \in Int /\ z \in seen'[w]
          BY <3>5, <3>7, <4>2
        <5> QED
          BY <5>1
      <4> QED
        BY <4>1, <4>2
    <3>10. \E y \in seen'[v] : x <= y
      BY <3>4, <3>6
    <3>11. SeenInv'
      BY <1>2, <3>6, <3>8, <3>10 DEF SeenInv, v, x
    <3> QED
      BY <3>9, <3>11
  <2>3. CASE "turn_state" \notin DOMAIN new.sig
    <3>1. seen' = seen
      BY <1>2, <2>3
    <3>2. SeenInv'
      BY <1>2, <2>1, <2>3, <3>1 DEF SeenInv
    <3>3. \A v \in TurnValues : \A x \in seen[v] : x \in Int
      BY <2>1 DEF SeenInv
    <3> QED
      BY <3>1, <3>2, <3>3
  <2> QED
    BY <2>2, <2>3
<1>19. EvidenceInv'
  <2>1. EvidenceInv
    BY DEF PubInv
  <2>2. sink.turn \in Directions /\ "turn_state" \in DOMAIN Freshness =>
          \E t1 \in seen'[sink.turn] : sink.until <= t1 + Freshness["turn_state"]
    <3> SUFFICES ASSUME sink.turn \in Directions, "turn_state" \in DOMAIN Freshness
                 PROVE  \E t1 \in seen'[sink.turn] : sink.until <= t1 + Freshness["turn_state"]
      OBVIOUS
    <3>1. PICK x \in seen[sink.turn] : sink.until <= x + Freshness["turn_state"]
      BY <2>1 DEF EvidenceInv
    <3>2. sink.turn \in TurnValues
      BY DEF TurnValues
    <3>3. PICK y \in seen'[sink.turn] : x <= y
      BY <1>18, <3>1, <3>2
    <3>4. x \in Int /\ y \in Int
      BY <1>18, <3>1, <3>2, <3>3 DEF PubInv, SeenInv
    <3>5. sink.until \in Nat /\ Freshness["turn_state"] \in Int
      BY <2>1, FreshnessAssumption DEF EvidenceInv
    <3>6. sink.until <= y + Freshness["turn_state"]
      BY <3>1, <3>3, <3>4, <3>5
    <3> QED
      BY <3>6
  <2>3. sink.turn \in Directions =>
          sink.until <= procAt' + SilenceTimeout \/ sink.until <= servedAt
    <3>1. sink.until \in Nat /\ SilenceTimeout \in Nat
      BY <2>1, PublicationAssumption DEF EvidenceInv
    <3> QED
      BY <1>1, <1>2, <2>1, <3>1 DEF EvidenceInv
  <2>4. sink.until \in Nat
    BY <2>1 DEF EvidenceInv
  <2> QED
    BY <1>3, <2>2, <2>3, <2>4 DEF EvidenceInv
<1> QED
  BY <1>6, <1>7, <1>9, <1>13, <1>14, <1>15, <1>16, <1>17, <1>18, <1>19 DEF PubInv

\* The empty state has no readings.
LEMMA NoData ==
  ASSUME NEW d, NEW n, NEW tr \in {"AwaitingTraffic"}
  PROVE  /\ StateType(EmptyState) /\ DOMAIN EmptyState.sig = {}
         /\ ReadingAt(EmptyState, d, n, tr) = [availability |-> "NoData", sample |-> << >>]
<1>1. EmptyState.sig = << >> /\ EmptyState.msg = << >>
  BY DEF EmptyState
<1>2. DOMAIN << >> = {}
  OBVIOUS
<1>3. StateType(EmptyState)
  BY <1>1, <1>2 DEF StateType, EmptyState
<1> QED
  BY <1>1, <1>2, <1>3 DEF ReadingAt, StatusAt, FailOffTransports

LEMMA StartStep ==
  ASSUME PubInv, NEW black \in BOOLEAN, NEW startup \in BOOLEAN,
         NEW runtime \in {"Ok", "Stopped", "Faulted"}, Start(black, startup, runtime)
  PROVE  PubInv'
<1>1. /\ life = "Stopped" /\ st' = EmptyState /\ changed' = FALSE /\ pending' = {}
      /\ lastRx' = {} /\ due' = << >>
      /\ rt' = [lifecycle |-> "Running", transport |-> "AwaitingTraffic"]
      /\ health' = [initialized |-> TRUE, lifecycle |-> "Running",
                    transport |-> "AwaitingTraffic"]
      /\ servedAt' = now
      /\ UNCHANGED <<now, frames, procAt, seen>>
  BY DEF Start, Cleared
<1>2. \/ /\ life' = "Running" /\ worker' = "idle"
         /\ pub' = RestState("Running", "AwaitingTraffic")
         /\ chan' = [d \in Watched |-> ReadingAt(EmptyState, d, now, "AwaitingTraffic")]
      \/ /\ life' \in {"Stopped", "Faulted"} /\ worker' = "none"
         /\ pub' = RestState(life', life')
         /\ chan' = << >>
  BY DEF Start
<1>3. IF black THEN SendStartup(StartupBlack, TRUE)
      ELSE SendStartup(LightingUpdate(EmptyState, "AwaitingTraffic", {}), startup)
  BY DEF Start
<1>4. \A d, n : ReadingAt(EmptyState, d, n, "AwaitingTraffic")
                  = [availability |-> "NoData", sample |-> << >>]
  BY NoData
<1>5. StateType(EmptyState) /\ DOMAIN EmptyState.sig = {}
  BY NoData
<1>6. /\ now \in Nat /\ now <= MaxTime /\ MaxTime \in Nat
      /\ frames \in 0..MaxFrames /\ procAt \in 0..now /\ servedAt \in 0..now
  BY PublicationAssumption DEF PubInv, TimeInv
<1>7. TimeInv'
  BY <1>1, <1>2, <1>5, <1>6 DEF TimeInv
<1>8. HealthInv'
  BY <1>1, <1>2 DEF HealthInv, Working
<1>9. RunInv'
  BY <1>1, <1>5 DEF RunInv
<1>10. ChanInv'
  <2>1. CASE worker' = "idle"
    <3>1. /\ Working' /\ ServedUpTo' = now
          /\ chan' = [d \in Watched |-> ReadingAt(EmptyState, d, now, "AwaitingTraffic")]
      BY <1>1, <1>2, <2>1 DEF Working, ServedUpTo
    <3> QED
      BY <1>1, <1>4, <3>1 DEF ChanInv, Readings
  <2>2. CASE worker' = "none"
    <3>1. ~Working' /\ chan' = << >>
      BY <1>2, <2>2 DEF Working
    <3> QED
      BY <3>1 DEF ChanInv
  <2> QED
    BY <1>2, <2>1, <2>2
<1>11. GapInv'
  BY <1>2 DEF GapInv
<1>12. DueInv'
  BY <1>1 DEF DueInv
<1>13. StoreInv'
  <2>1. pub'.st = EmptyState
    BY <1>2 DEF RestState
  <2>2. worker' = "idle" => pub'.transport = "AwaitingTraffic"
    BY <1>2 DEF RestState
  <2> QED
    BY <1>1, <1>2, <2>1, <2>2 DEF StoreInv, Working
<1> DEFINE u == IF black THEN StartupBlack
                ELSE LightingUpdate(EmptyState, "AwaitingTraffic", {})
<1>14. \E a \in BOOLEAN : SendStartup(u, a)
  BY <1>3
<1>15. /\ Decision(u) = UpdateDecision(EmptyState, "AwaitingTraffic", now)
       /\ u.until \in Nat /\ u.turn = "Unknown"
  <2>1. UpdateDecision(EmptyState, "AwaitingTraffic", now)
          = <<"Unknown", "NoData", FALSE, "NoData">>
    <3>1. /\ ReadingAt(EmptyState, "turn_state", now, "AwaitingTraffic").availability = "NoData"
          /\ ReadingAt(EmptyState, "brake_pressed", now, "AwaitingTraffic").availability = "NoData"
      BY <1>4
    <3> HIDE DEF ReadingAt
    <3> QED
      BY <3>1 DEF UpdateDecision, IsAvailable
  <2>2. CASE black
    BY <1>6, <2>1, <2>2 DEF StartupBlack, Decision
  <2>3. CASE ~black
    <3>1. u = LightingUpdate(EmptyState, "AwaitingTraffic", {})
      BY <2>3
    <3>2. Decision(u) = UpdateDecision(EmptyState, "AwaitingTraffic", now)
      BY <3>1, DecisionIsReading
    <3>3. u.until \in Nat
      BY <1>5, <1>6, <3>1, UpdateDeadline
    <3> HIDE DEF u
    <3>4. u.turn = "Unknown"
      BY <2>1, <3>2 DEF Decision
    <3> QED
      BY <3>2, <3>3, <3>4
  <2> QED
    BY <2>2, <2>3
<1> HIDE DEF u
<1>16. PICK a \in BOOLEAN : SendStartup(u, a)
  BY <1>14
<1>17. LightInv'
  <2>1. light'.last = UpdateDecision(EmptyState, "AwaitingTraffic", now)
    BY <1>15, <1>16 DEF SendStartup
  <2>2. light'.sent /\ ~light'.failure => Decision(sink') = light'.last
    <3>1. light'.last = Decision(u) /\ sink' = (IF a THEN u ELSE sink)
      BY <1>16 DEF SendStartup
    <3>2. light'.failure = (light'.sent /\ ~a)
      BY <1>16 DEF SendStartup
    <3> QED
      BY <3>1, <3>2
  <2> QED
    BY <1>1, <2>1, <2>2 DEF LightInv, Decision
<1>18. EvidenceInv'
  <2>1. CASE sink' = u
    BY <1>15, <2>1 DEF EvidenceInv, Directions
  <2>2. CASE sink' = sink
    <3>1. EvidenceInv
      BY DEF PubInv
    <3>2. sink.until \in Nat
      BY <3>1 DEF EvidenceInv
    <3> QED
      BY <1>1, <1>6, <2>2, <3>1, <3>2 DEF EvidenceInv
  <2> QED
    BY <1>16, <2>1, <2>2 DEF SendStartup
<1>19. SeenInv'
  BY <1>1, <1>5 DEF PubInv, SeenInv
<1> QED
  BY <1>7, <1>8, <1>9, <1>10, <1>11, <1>12, <1>13, <1>17, <1>18, <1>19 DEF PubInv

LEMMA StopStep ==
  ASSUME PubInv, Stop
  PROVE  PubInv'
<1>1. /\ worker # "processed" /\ worker' = "none" /\ life' = "Stopped"
      /\ chan' = << >> /\ pub' = RestState("Stopped", "Stopped")
      /\ st' = EmptyState /\ changed' = FALSE /\ due' = << >>
      /\ UNCHANGED <<now, frames, light, sink, servedAt, procAt, seen>>
  BY DEF Stop, Cleared
<1>2. StateType(EmptyState) /\ DOMAIN EmptyState.sig = {}
  BY NoData
<1>3. ~Working'
  BY <1>1 DEF Working
<1>4. TimeInv'
  BY <1>1, <1>2 DEF PubInv, TimeInv
<1>5. HealthInv' /\ RunInv' /\ GapInv'
  BY <1>1, <1>3 DEF HealthInv, RunInv, GapInv
<1>6. ChanInv'
  BY <1>1, <1>3 DEF ChanInv
<1>7. DueInv'
  BY <1>1 DEF DueInv
<1>8. StoreInv'
  BY <1>1, <1>3 DEF StoreInv, RestState
<1>9. LightInv'
  BY <1>1, <1>3 DEF PubInv, LightInv, Decision
<1>10. EvidenceInv'
  BY <1>1 DEF PubInv, EvidenceInv
<1>11. SeenInv'
  BY <1>1, <1>2 DEF PubInv, SeenInv
<1> QED
  BY <1>4, <1>5, <1>6, <1>7, <1>8, <1>9, <1>10, <1>11 DEF PubInv

\* Time alone, and stuttering.
LEMMA TimePasses ==
  ASSUME PubInv, now' \in Nat, now <= now', now' <= MaxTime,
         UNCHANGED <<frames, worker, st, changed, due, pending, rt, lastRx, life, pub,
                     health, chan, light, sink, servedAt, procAt, seen>>
  PROVE  PubInv'
<1>1. TimeInv'
  BY PublicationAssumption DEF PubInv, TimeInv
<1>2. Working' = Working /\ ServedUpTo' = ServedUpTo
  BY DEF Working, ServedUpTo
<1>3. HealthInv' /\ RunInv' /\ GapInv'
  BY <1>2 DEF PubInv, HealthInv, RunInv, GapInv
<1>4. ChanInv'
  BY <1>2 DEF PubInv, ChanInv
<1>5. DueInv' /\ StoreInv'
  BY <1>2 DEF PubInv, DueInv, StoreInv
<1>6. LightInv'
  BY <1>2 DEF PubInv, LightInv, Decision
<1>7. EvidenceInv' /\ SeenInv'
  BY DEF PubInv, EvidenceInv, SeenInv
<1> QED
  BY <1>1, <1>3, <1>4, <1>5, <1>6, <1>7 DEF PubInv

LEMMA PubInit ==
  ASSUME Init
  PROVE  PubInv
<1>1. /\ now = 0 /\ frames = 0 /\ worker = "none" /\ st = EmptyState /\ changed = FALSE
      /\ due = << >> /\ life = "Stopped" /\ pub = RestState("Stopped", "Stopped")
      /\ chan = << >> /\ light.sent = FALSE /\ sink = StartupBlack
      /\ servedAt = 0 /\ procAt = 0 /\ seen = [v \in TurnValues |-> {}]
  BY DEF Init, TurnValues
<1>2. StateType(EmptyState) /\ DOMAIN EmptyState.sig = {}
  BY NoData
<1>3. ~Working
  BY <1>1 DEF Working
<1>4. TimeInv
  BY <1>1, <1>2, PublicationAssumption DEF TimeInv
<1>5. HealthInv /\ RunInv /\ GapInv /\ ChanInv
  BY <1>1, <1>3 DEF HealthInv, RunInv, GapInv, ChanInv
<1>6. DueInv /\ StoreInv
  BY <1>1, <1>3 DEF DueInv, StoreInv, RestState
<1>7. LightInv
  BY <1>1, <1>3 DEF LightInv
<1>8. sink.until = 0 /\ sink.turn = "Unknown"
  BY <1>1 DEF StartupBlack
<1>9. EvidenceInv
  BY <1>8 DEF EvidenceInv, Directions
<1>10. SeenInv
  BY <1>1, <1>2 DEF SeenInv
<1> QED
  BY <1>4, <1>5, <1>6, <1>7, <1>9, <1>10 DEF PubInv

LEMMA PubStep ==
  ASSUME PubInv, [Next]_vars
  PROVE  PubInv'
<1>1. ASSUME NEW fr \in Frames, NEW k \in 0..MaxDelay, k <= now, Process(fr, now - k)
      PROVE  PubInv'
  BY <1>1, ProcessStep
<1>2. ASSUME NEW a \in BOOLEAN, ReportFrame(a) \/ ReportTimeout(a) \/ ReportFault(a)
      PROVE  PubInv'
  BY <1>2, ReportSteps
<1>3. ASSUME NEW a \in BOOLEAN, NEW b \in BOOLEAN, NEW r \in {"Ok", "Stopped", "Faulted"},
             Start(a, b, r)
      PROVE  PubInv'
  BY <1>3, StartStep
<1>4. CASE Stop
  BY <1>4, StopStep
<1>5. CASE Tick
  <2>1. now' \in Nat /\ now <= now' /\ now' <= MaxTime
    BY <1>5, PublicationAssumption DEF Tick, PubInv, TimeInv
  <2> QED
    BY <1>5, <2>1, TimePasses DEF Tick
<1>6. CASE UNCHANGED vars
  <2>1. now' \in Nat /\ now <= now' /\ now' <= MaxTime
    BY <1>6, PublicationAssumption DEF vars, PubInv, TimeInv
  <2> QED
    BY <1>6, <2>1, TimePasses DEF vars
<1> QED
  BY <1>1, <1>2, <1>3, <1>4, <1>5, <1>6 DEF Next

-----------------------------------------------------------------------------
(* Between an older and a newer fresh sample a channel was never silent.   *)
LEMMA GapStep ==
  ASSUME PubInv, [Next]_vars, NEW d \in DOMAIN chan \cap DOMAIN chan' \cap DOMAIN Freshness,
         chan[d].availability = "Fresh", chan'[d].availability = "Fresh",
         chan[d].sample # chan'[d].sample
  PROVE  procAt <= chan[d].sample[1][2] + Freshness[d]
<1>1. Working /\ d \in Watched
  BY DEF PubInv, ChanInv
<1>2. now \in Int /\ servedAt \in Int /\ servedAt <= now /\ StateType(st)
  BY PublicationAssumption DEF PubInv, TimeInv
<1>3. CASE worker = "processed"
  BY <1>1, <1>3 DEF PubInv, GapInv
<1>4. CASE worker = "idle"
  <2>1. chan[d] = ReadingAt(st, d, servedAt, rt.transport)
    BY <1>1, <1>4 DEF PubInv, ChanInv, HealthInv, ServedUpTo
  <2>2. \A s, aff, g, tr : PublishNotifications(s, tr, aff, g) =>
          chan'[d] = chan[d] \/ chan'[d] = ReadingAt(s, d, now, tr)
    BY DEF PublishNotifications
  <2>3. \A tr : ReadingAt(st, d, now, tr).sample = chan[d].sample
    BY <2>1 DEF ReadingAt
  <2>4. \A aff, g, tr : ~PublishNotifications(st, tr, aff, g)
    BY <2>2, <2>3
  <2>5. chan' # chan
    OBVIOUS
  <2>6. ASSUME NEW fr, NEW t, Process(fr, t) PROVE FALSE
    BY <2>4, <2>5, <2>6 DEF Process, ServiceDueNotifications
  <2>7. ASSUME NEW lifecycle, NEW tr, NEW rx, NEW a, OnDiagnostics(lifecycle, tr, rx, a)
        PROVE  FALSE
    BY <2>4, <2>7 DEF OnDiagnostics, PublishCurrent
  <2>8. ASSUME NEW a, ReportFrame(a) \/ ReportTimeout(a) \/ ReportFault(a) PROVE FALSE
    BY <1>4, <2>7, <2>8 DEF ReportFrame, ReportTimeout, ReportFault
  <2>9. ASSUME NEW a, NEW b, NEW r, Start(a, b, r) PROVE FALSE
    BY <1>1, <2>9 DEF Start, PubInv, HealthInv
  <2>10. ~Stop
    BY DEF Stop
  <2>11. ~Tick /\ ~UNCHANGED vars
    BY <2>5 DEF Tick, vars
  <2> QED
    BY <2>6, <2>8, <2>9, <2>10, <2>11 DEF Next
<1> QED
  BY <1>1, <1>3, <1>4 DEF PubInv, TimeInv, Working

(* The inductive invariant (everything below follows from it).             *)
THEOREM PublicationHolds == Spec => []PubInv
<1>1. Init => PubInv
  BY PubInit
<1>2. PubInv /\ [Next]_vars => PubInv'
  BY PubStep
<1> QED
  BY <1>1, <1>2, PTL DEF Spec

(* TypeOK, SelectionLosesNothing and PollAgreesWithNotice: at rest every   *)
(* channel, and every poll of the publication store, gives the reading of  *)
(* the state at the time of the last report (publish_notifications,        *)
(* PublicationStore), whatever was selected and copied on the way.         *)
THEOREM ChannelsFollow == Spec => []ChannelsFollowState
<1>1. PubInv => ChannelsFollowState
  <2> SUFFICES ASSUME PubInv
               PROVE  ChannelsFollowState
    OBVIOUS
  <2>1. TypeOK
    <3>1. \A d \in DOMAIN chan : chan[d].availability \in Readings
      BY DEF PubInv, ChanInv
    <3>2. DOMAIN st.sig \subseteq Signals /\ DOMAIN due \subseteq DOMAIN st.sig
      BY DEF PubInv, TimeInv, StateType, DueInv
    <3>3. sink.until \in Nat
      BY DEF PubInv, EvidenceInv
    <3> QED
      BY <3>1, <3>2, <3>3 DEF TypeOK, PubInv, TimeInv, HealthInv
  <2>2. AtRest => \A d \in Watched : chan[d] = ReadingAt(st, d, servedAt, rt.transport)
    BY DEF AtRest, Working, PubInv, ChanInv, HealthInv, ServedUpTo
  <2>3. AtRest => pub.st = st /\ pub.transport = rt.transport
    BY DEF AtRest, Working, PubInv, StoreInv
  <2> QED
    BY <2>1, <2>2, <2>3
       DEF ChannelsFollowState, SelectionLosesNothing, PollAgreesWithNotice, PolledReading
<1> QED
  BY <1>1, PublicationHolds, PTL

(* LitTurnHasEvidence and SinkFollowsReport: a direction in the lighting   *)
(* sink ends with the sample and with the run of frames it came from, and  *)
(* unless a refusal is remembered the sink shows the state of the last     *)
(* report (publish_lighting), whatever was accepted before.                *)
THEOREM SinkFollows == Spec => []SinkHasEvidence
<1>1. PubInv => SinkHasEvidence
  <2> SUFFICES ASSUME PubInv
               PROVE  SinkHasEvidence
    OBVIOUS
  <2>1. LitTurnHasEvidence
    <3> SUFFICES ASSUME sink.turn \in Directions, now <= sink.until
                 PROVE  /\ \/ "turn_state" \notin DOMAIN Freshness
                           \/ \E t \in seen[sink.turn] : now <= t + Freshness["turn_state"]
                        /\ now <= procAt + SilenceTimeout \/ now = servedAt
      BY DEF LitTurnHasEvidence
    <3>1. now \in Nat /\ sink.until \in Nat /\ procAt \in Nat /\ servedAt \in 0..now
      BY PublicationAssumption DEF PubInv, TimeInv, EvidenceInv
    <3>2. ASSUME "turn_state" \in DOMAIN Freshness
          PROVE  \E t \in seen[sink.turn] : now <= t + Freshness["turn_state"]
      <4>1. PICK t \in seen[sink.turn] : sink.until <= t + Freshness["turn_state"]
        BY <3>2 DEF PubInv, EvidenceInv
      <4>2. t \in Int
        BY <4>1 DEF PubInv, SeenInv, TurnValues
      <4>3. now <= t + Freshness["turn_state"]
        BY <3>1, <3>2, <4>1, <4>2, FreshnessAssumption
      <4> QED
        BY <4>3
    <3>3. now <= procAt + SilenceTimeout \/ now = servedAt
      BY <3>1, PublicationAssumption DEF PubInv, EvidenceInv
    <3> QED
      BY <3>2, <3>3
  <2>2. SinkFollowsReport
    <3> SUFFICES ASSUME AtRest, light.sent, ~light.failure
                 PROVE  SinkFollowsReport
      BY DEF SinkFollowsReport
    <3> DEFINE turn == ReadingAt(st, "turn_state", servedAt, rt.transport)
               brake == ReadingAt(st, "brake_pressed", servedAt, rt.transport)
    <3>1. Decision(sink) = UpdateDecision(st, rt.transport, servedAt)
      BY DEF AtRest, PubInv, LightInv, Working
    <3>2. /\ sink.turn = IF /\ IsAvailable(turn) /\ turn.sample[1][1] # "Unknown"
                            /\ ~TransportRequiresFailoff(rt.transport)
                           THEN turn.sample[1][1] ELSE "Unknown"
          /\ sink.brake = (brake.availability = "Fresh" /\ brake.sample[1][1])
      BY <3>1 DEF Decision, UpdateDecision
    <3>3. StateType(st) /\ servedAt \in Int
      BY DEF PubInv, TimeInv
    <3>4. IsAvailable(turn) => rt.transport \notin FailOffTransports
      BY <3>3, ReadingMeaning
    <3>5. /\ brake.availability = "Fresh" => "brake_pressed" \in DOMAIN Freshness
          /\ brake.availability = StatusAt(st, "brake_pressed", servedAt, rt.transport)
      BY <3>3, ReadingMeaning
    <3> HIDE DEF turn, brake
    <3>6. /\ sink.turn \in Directions => IsAvailable(turn) /\ turn.sample[1][1] = sink.turn
          /\ IsAvailable(turn) /\ turn.sample[1][1] \in Directions =>
               sink.turn = turn.sample[1][1]
      BY <3>2, <3>4 DEF Directions, TransportRequiresFailoff
    <3>7. sink.brake => /\ "brake_pressed" \in DOMAIN Freshness
                        /\ StatusAt(st, "brake_pressed", servedAt, rt.transport) = "Fresh"
      BY <3>2, <3>5
    <3> QED
      BY <3>6, <3>7 DEF SinkFollowsReport, turn
  <2> QED
    BY <2>1, <2>2 DEF SinkHasEvidence
<1> QED
  BY <1>1, PublicationHolds, PTL

(* A channel never goes from one fresh sample to a newer one over an       *)
(* expiry it has not announced (process() serves expiry before decoding).  *)
THEOREM NoGapHolds == Spec => NoSilentGap
<1>1. PubInv /\ [Next]_vars =>
        [\A d \in DOMAIN chan \cap DOMAIN chan' \cap DOMAIN Freshness :
           (/\ chan[d].availability = "Fresh" /\ chan'[d].availability = "Fresh"
            /\ chan[d].sample # chan'[d].sample)
           => procAt <= chan[d].sample[1][2] + Freshness[d]]_vars
  BY GapStep
<1> QED
  BY <1>1, PublicationHolds, PTL DEF Spec, NoSilentGap

=============================================================================
