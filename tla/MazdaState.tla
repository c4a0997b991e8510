---------------------------- MODULE MazdaState ----------------------------
(***************************************************************************)
(* The decoded vehicle state of lib/mazda: message health records, signal  *)
(* samples, and what a reading of a signal says at a given time.           *)
(*                                                                         *)
(* A state is a record of two partial functions.  msg[id] is the message   *)
(* health record of identifier id, absent while the record has no frame;   *)
(* sig[s] is the sample of signal s, absent while the signal has no value. *)
(* A frame is [id, t, shape, data]: t its receive timestamp, shape what    *)
(* the classification looks at ("invalid" fails RawCanFrame::is_valid,     *)
(* "foreign" is an extended or remote frame, "short" has the wrong dlc),   *)
(* data the raw fields of the payload.                                     *)
(***************************************************************************)
EXTENDS Integers, Sequences, FiniteSets

CONSTANTS Freshness,    \* VehicleFreshnessPolicy: a timeout for some signals
          Undefined     \* a well-formed payload code with no meaning

ASSUME FreshnessAssumption == Freshness \in [DOMAIN Freshness -> Nat]

kTrackedMessageCapacity == 7

(* The signals of every decoded message, in the decoders' order.           *)
MessageSignals ==
  [EngineData   |-> {"engine_rpm", "speed_kph", "accelerator_pedal_position"},
   Gear         |-> {"selector_position", "actual_gear"},
   Doors        |-> {"liftgate_open", "rear_right_door_open",
                     "rear_left_door_open", "front_left_door_open_rhd",
                     "front_right_door_open_rhd", "doors_unlocked"},
   BlinkInfo    |-> {"left_indicator_lamp", "right_indicator_lamp", "wiper_low"},
   TurnSwitch   |-> {"turn_state", "hazard_request", "left_turn_request",
                     "right_turn_request", "front_wiper"},
   BrakePedal   |-> {"brake_pressed"},
   Acceleration |-> {"longitudinal_acceleration_mps2",
                     "lateral_acceleration_mps2", "brake_pressure_bar"}]

Messages == DOMAIN MessageSignals
Signals == UNION {MessageSignals[m] : m \in Messages}

EmptyState == [msg |-> << >>, sig |-> << >>]

(***************************************************************************)
(* vehicle_core::Signal, as the decoders and the readings use it.          *)
(***************************************************************************)
SignalUpdate(st, s, v, t) ==
  IF s \in DOMAIN st.sig /\ t <= st.sig[s].t
    THEN st
    ELSE [st EXCEPT !.sig =
            [x \in DOMAIN @ \cup {s} |->
               IF x = s THEN [value |-> v, t |-> t, valid |-> TRUE] ELSE @[x]]]

SignalInvalidate(st, s) ==
  IF s \in DOMAIN st.sig THEN [st EXCEPT !.sig[s].valid = FALSE] ELSE st

SignalStatusAt(st, s, now) ==
  IF ~st.sig[s].valid THEN "Unavailable"
  ELSE IF s \notin DOMAIN Freshness THEN "FreshnessUnverified"
  ELSE IF now <= st.sig[s].t + Freshness[s] THEN "Fresh" ELSE "Stale"

(***************************************************************************)
(* VehicleState::observe_message.  A strictly newer frame moves the        *)
(* watermark and sets the health; anything else leaves the record alone.   *)
(***************************************************************************)
ObserveMessage(st, f, health) ==
  LET known == f.id \in DOMAIN st.msg IN
  IF ~known /\ Cardinality(DOMAIN st.msg) = kTrackedMessageCapacity
    THEN "CapacityExceeded"
  ELSE IF ~known \/ f.t > st.msg[f.id].frame.t THEN "Accepted"
  ELSE IF f.t < st.msg[f.id].frame.t THEN "RejectedOlder"
  ELSE IF st.msg[f.id].health = health /\ st.msg[f.id].frame = f
    THEN "Idempotent" ELSE "RejectedConflict"

RecordFrame(st, f, health) ==
  IF ObserveMessage(st, f, health) # "Accepted" THEN st
  ELSE [st EXCEPT !.msg =
          [m \in DOMAIN @ \cup {f.id} |->
             IF m = f.id THEN [health |-> health, frame |-> f] ELSE @[m]]]

MessageHealthFor(st, id) ==
  IF id \in DOMAIN st.msg THEN st.msg[id].health ELSE "Healthy"

(***************************************************************************)
(* The decoders.  Sample(f) is the value each signal of the message gets   *)
(* from the payload, or Undefined where the decoder invalidates it.        *)
(***************************************************************************)
SelectorFromRaw(raw) == IF raw \in 0..4 THEN raw ELSE Undefined
ActualGearFromRaw(raw) == IF raw \in 0..6 \cup {14, 15} THEN raw ELSE Undefined
FrontWiperFromRaw(raw) == <<"Off", "On", "High", "Intermittent">>[raw + 1]

NormalizeTurn(hazard, left, right) ==
  IF hazard THEN "Hazard"
  ELSE IF left /\ right THEN "Unknown"
  ELSE IF left THEN "Left"
  ELSE IF right THEN "Right" ELSE "Off"

DecodeEngineData(d) ==
  [engine_rpm |-> d.rpm, speed_kph |-> d.speed,
   accelerator_pedal_position |->
     IF d.accelerator > 64000 THEN Undefined ELSE d.accelerator]

DecodeGear(d) ==
  [selector_position |-> SelectorFromRaw(d.selector),
   actual_gear |-> ActualGearFromRaw(d.gear)]

DecodeDoors(d) == d        \* six payload bits, one per signal

DecodeBlinkInfo(d) == d    \* three payload bits, one per signal

DecodeTurnSwitch(d) ==
  [turn_state |-> NormalizeTurn(d.hazard, d.left, d.right),
   hazard_request |-> d.hazard, left_turn_request |-> d.left,
   right_turn_request |-> d.right, front_wiper |-> FrontWiperFromRaw(d.wiper)]

DecodeBrakePedal(d) == [brake_pressed |-> d.pressed]

DecodeAcceleration(d) ==
  [longitudinal_acceleration_mps2 |-> d.x - 4000,
   lateral_acceleration_mps2 |-> d.y - 4096,
   brake_pressure_bar |->
     IF d.pressure < 40000 THEN Undefined ELSE d.pressure - 40000]

Sample(f) ==
  CASE f.id = "EngineData"   -> DecodeEngineData(f.data)
    [] f.id = "Gear"         -> DecodeGear(f.data)
    [] f.id = "Doors"        -> DecodeDoors(f.data)
    [] f.id = "BlinkInfo"    -> DecodeBlinkInfo(f.data)
    [] f.id = "TurnSwitch"   -> DecodeTurnSwitch(f.data)
    [] f.id = "BrakePedal"   -> DecodeBrakePedal(f.data)
    [] f.id = "Acceleration" -> DecodeAcceleration(f.data)

(* An engine frame whose rpm is out of the DBC's range faults its message. *)
PayloadMalformed(f) == f.id = "EngineData" /\ f.data.rpm > 34000

(***************************************************************************)
(* candidate::decode: routing by validity, format and identifier.  The     *)
(* engine decoder is handed the invalid frames of every other identifier   *)
(* but records them only when they carry its own; Classify says what the   *)
(* frame does to the state.                                                *)
(***************************************************************************)
Classify(f) ==
  IF f.shape = "invalid" THEN
    IF f.id \in {"Acceleration", "EngineData"} THEN "Malformed" ELSE "Ignored"
  ELSE IF f.shape = "foreign" \/ f.id \notin Messages THEN "Ignored"
  ELSE IF f.shape = "short" \/ PayloadMalformed(f) THEN "Malformed"
  ELSE "Decoded"

ApplySample(st, f) ==
  LET smp == Sample(f)
      undef == {s \in DOMAIN smp : smp[s] = Undefined} IN
  [RecordFrame(st, f, "Healthy") EXCEPT !.sig =
     [s \in DOMAIN @ \cup (DOMAIN smp \ undef) |->
        IF s \notin DOMAIN smp THEN @[s]
        ELSE IF s \in undef THEN SignalInvalidate(st, s).sig[s]
        ELSE SignalUpdate(st, s, smp[s], f.t).sig[s]]]

Decode(st, f) ==
  CASE Classify(f) = "Ignored" -> st
    [] Classify(f) = "Malformed" -> RecordFrame(st, f, "Faulted")
    [] Classify(f) = "Decoded" ->
         IF ObserveMessage(st, f, "Healthy") = "Accepted"
           THEN ApplySample(st, f) ELSE st

(***************************************************************************)
(* Readings: VehicleState::reading_at over mazda::status_at.               *)
(***************************************************************************)
FailOffTransports == {"Stopped", "Faulted", "TimedOut"}
MessageOf(s) == CHOOSE m \in Messages : s \in MessageSignals[m]

StatusAt(st, s, now, transport) ==
  IF transport \in FailOffTransports THEN "Unavailable"
  ELSE IF s \notin DOMAIN st.sig THEN "NoData"
  ELSE IF MessageHealthFor(st, MessageOf(s)) = "Faulted" THEN "Unavailable"
  ELSE SignalStatusAt(st, s, now)

ReadingAt(st, s, now, transport) ==
  [availability |-> StatusAt(st, s, now, transport),
   sample |-> IF s \in DOMAIN st.sig
                THEN << <<st.sig[s].value, st.sig[s].t>> >> ELSE << >>]

=============================================================================
