---------------------- MODULE MCTelemetryPublication ----------------------
(* Instance of TelemetryPublication for TLC: two turn directions and a     *)
(* malformed turn frame, a brake frame, a selector that goes undefined and *)
(* an unowned identifier, with freshness timeouts for turn and brake.      *)
EXTENDS TelemetryPublication

TurnFrame(left, shape) ==
  [id |-> "TurnSwitch", shape |-> shape,
   data |-> [hazard |-> FALSE, left |-> left, right |-> ~left, wiper |-> 0]]

GearFrame(raw) == [id |-> "Gear", shape |-> "good",
                   data |-> [selector |-> raw, gear |-> 0]]

MCFrames == {TurnFrame(TRUE, "good"), TurnFrame(FALSE, "good"),
             TurnFrame(TRUE, "short"), GearFrame(4), GearFrame(7),
             [id |-> "BrakePedal", shape |-> "good", data |-> [pressed |-> TRUE]],
             [id |-> "Other", shape |-> "good", data |-> << >>]}

MCWatched == {"turn_state", "left_turn_request", "brake_pressed",
              "selector_position"}

MCFreshness == [turn_state |-> 1, left_turn_request |-> 2, brake_pressed |-> 2]
=============================================================================
