--------------------------- MODULE MCConfigApply ---------------------------
(***************************************************************************)
(* Small documents for TLC: a few documents that together use every type   *)
(* of rule and output, and every document one edit away from one of them,  *)
(* where an edit replaces, drops, repeats or adds one value anywhere in    *)
(* the tree. Two edits meet where a base is itself at a boundary.          *)
(***************************************************************************)
EXTENDS ConfigApply, SequencesExt

Span(from, to) == Obj(<<Member("from", Whole(from)), Member("to", Whole(to))>>)
Operand(kind, value) == Member("operand", Obj(<<Member(kind, value)>>))
Condition(key, comparison, operand) ==
    <<Member("signal_key", Str(key)), Member("comparison", Str(comparison)), operand>>
Typed(type, action, members) ==
    Obj(<<Member("type", Str(type)), Member("action", Str(action))>> \o members)
Zone(start, length, direction) ==
    Member("zone", Obj(<<Member("start", Whole(start)), Member("length", Whole(length)),
                         Member("direction", Str(direction))>>))
Color(r, g, b) == Member("color", Obj(<<Member("red", Whole(r)), Member("green", Whole(g)),
                                        Member("blue", Whole(b))>>))
Priority(n) == Member("priority", Whole(n))
Root(actions, rules, outputs) ==
    Obj(<<Member("version", Whole(1)),
          Member("actions", Arr([i \in DOMAIN actions |-> Obj(<<Member("name", Str(actions[i]))>>)])),
          Member("rules", Arr(rules)), Member("outputs", Arr(outputs))>>)
Sinks(n) == Member("sinks", Obj(<<Member("local_argb", Obj(<<Member("pixel_count", Whole(n))>>))>>))

Turn(action, choice) ==
    Typed("state", action, Condition("turn", "equal", Operand("choice", Str(choice))))
Rpm(action, members) == Typed("range", action, <<Member("signal_key", Str("rpm")),
                                  Member("input", Span(0, 6)), Member("output", Span(0, 1))>>
                                  \o members)
Fresh == <<Member("freshness", Str("fresh_or_unverified"))>>

\* Two effects of two actions, one of them shared.
Turns == Root(<<"l", "h">>, <<Turn("l", "left"), Turn("h", "hazard")>>,
              <<Typed("led_effect", "l", <<Member("effect", Str("left_turn"))>>),
                Typed("led_effect", "h", <<Member("effect", Str("left_turn")), Priority(90)>>),
                Typed("led_effect", "h", <<Member("effect", Str("brake"))>>)>>)
\* A range rule's fill and a solid zone with hysteresis.
Fills == Root(<<"f", "s">>,
              <<Rpm("f", Fresh),
                Typed("sampled_state", "s",
                      Condition("rpm", "greater", Operand("number", Whole(5)))
                      \o <<Member("release_threshold", Whole(4))>>)>>,
              <<Typed("led_fill", "f", <<Zone(0, 100, "center_out"), Color(0, 16, 32)>>),
                Typed("led_solid", "s",
                      <<Zone(35, 30, "start_to_end"), Color(16, 0, 255), Priority(0)>>)>>)
\* A transient on a longer strip, and one action with two kinds of output.
Longer == Obj(Root(<<"e", "b">>,
                   <<Typed("event", "e", Condition("brake", "equal", Operand("boolean", Bool(TRUE)))
                                         \o <<Member("edge", Str("becomes_true"))>>),
                     Typed("state", "b",
                           Condition("brake", "not_equal", Operand("boolean", Bool(FALSE))))>>,
                   <<Typed("led_transient", "e",
                           <<Zone(100, 20, "end_to_start"), Color(1, 2, 3),
                             Member("duration_ms", Whole(5000))>>),
                     Typed("led_fill", "b", <<Zone(0, 1, "start_to_end"), Color(9, 9, 9)>>),
                     Typed("led_effect", "b", <<Member("effect", Str("brake")), Priority(255)>>)>>
                   ).kids \o <<Sinks(120)>>)
\* Solid and fill at one zone, apart by direction alone; solid and event by action.
Close == Root(<<"s", "t">>,
              <<Typed("state", "s", Condition("brake", "equal", Operand("boolean", Bool(TRUE)))),
                Rpm("t", <<>>),
                Typed("event", "t", Condition("rpm", "less", Operand("number", Real(3)))
                                    \o <<Member("edge", Str("becomes_false"))>>)>>,
              <<Typed("led_solid", "s", <<Zone(0, 8, "start_to_end"), Color(1, 1, 1)>>),
                Typed("led_fill", "s", <<Zone(0, 8, "end_to_start"), Color(1, 1, 1)>>),
                Typed("led_effect", "t", <<Member("effect", Str("right_turn"))>>)>>)
Least == Obj(<<Member("version", Whole(1))>>)
\* As many actions as the elements of a document allow, without the optional members.
Crowded == Obj(<<Member("version", Whole(1)),
                 Member("actions", Arr([i \in 1..((MaxElements - 3) \div 2) |->
                                          Obj(<<Member("name", Str(ToString(i)))>>)]))>>)

Null == Node("null", "", 0, <<>>)
Deep == Arr(<<Arr(<<Arr(<<Arr(<<>>)>>)>>)>>)
Other(v) ==
    CASE v.kind = "string" ->
            {Str(t) : t \in {"", NulText, "h", "s", "b", "range", "less", "equal", "rpm", "left_turn",
                             "led_solid", "start_to_end"}}
            \cup {Whole(0)}
      [] IsNumber(v) ->
            {Whole(n) : n \in {-1, 0, 8, 36, 256, 301, Int64Limit}}
            \cup {Real(v.num), Real(v.num + 1), Real(FloatMax + 2), Whole(v.num \div 2 + 1),
                  Whole(v.num \div 2 - 1), Float(-FloatMax), Bool(TRUE)}
      [] v.kind \in {"true", "false"} -> {Whole(1), Bool(v.kind = "false")}
      [] OTHER -> {Null, Deep, Str("no"), Obj(<<>>), Arr(<<>>)}

With(v, kids) == [v EXCEPT !.kids = kids]
RECURSIVE Edits(_)
Edits(v) ==
    Other(v)
    \cup {With(v, RemoveAt(v.kids, i)) : i \in DOMAIN v.kids}
    \cup {With(v, Append(v.kids, v.kids[i])) : i \in DOMAIN v.kids}
    \cup (IF v.kind = "object" THEN {With(v, Append(v.kids, Member(name, Str("fresh")))) :
                                        name \in {"extra", "freshness"}} ELSE {})
    \cup UNION {{With(v, [v.kids EXCEPT ![i].value = e]) : e \in Edits(v.kids[i].value)} :
                   i \in DOMAIN v.kids}

Bases == {Turns, Fills, Longer, Close, Least}
Around(doc) == {doc, [doc EXCEPT !.syntax = "malformed"], [doc EXCEPT !.syntax = "outOfMemory"]}
               \cup {[doc EXCEPT !.size = MaxBytes + n, !.terminated = t] :
                        n \in {0, 1, 2}, t \in BOOLEAN}
MCStoredBefore == {Document(Longer, 0), Document(Obj(<<Member("version", Whole(2))>>), 0)}

Signal(type, capabilities, choices) ==
    [type |-> type, capabilities |-> capabilities, choices |-> choices]
Full == [turn |-> Signal("choice", {"read", "notify"}, {"left", "right", "hazard"}),
         brake |-> Signal("boolean", {"read", "notify"}, {}),
         rpm |-> Signal("number", {"read", "notify"}, {})]
\* A profile without hazard or notified rpm, and with brake as a number.
Lesser == [turn |-> Signal("choice", {"notify"}, {"left", "right"}),
           brake |-> Signal("number", {"read", "notify"}, {}),
           rpm |-> Signal("number", {"read"}, {})]
Ordinary == [factory |-> Document(Fills, 0), catalog |-> Full]
MCFirmwares == {Ordinary,
                [factory |-> Document(Fills, 0), catalog |-> Lesser],
                [factory |-> Document(Arr(<<>>), 0), catalog |-> Full]}
\* Every edit meets an ordinary boot; any other boot a document of each kind.
Edited == UNION {{Document(e, 1) : e \in {b} \cup Edits(b)} : b \in Bases}
          \cup Around(Document(Turns, 1)) \cup {Document(Crowded, 0)}
MCUploads(fw, status) ==
    IF fw = Ordinary /\ status.source = "Factory" /\ ~status.noStore /\ ~status.readFailed
    THEN Edited ELSE {Document(b, 1) : b \in Bases}
=============================================================================
