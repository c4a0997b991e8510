---------------------------- MODULE ConfigModel ----------------------------
(***************************************************************************)
(* The persisted controller configuration: the JSON tree cJSON hands over, *)
(* the loader (json_loader.cpp), the enum names (names.cpp), the schema    *)
(* validation (validation.cpp) and the canonical serialization.            *)
(*                                                                         *)
(* A document is its JSON tree with what its text adds: the size in bytes, *)
(* a terminating NUL, and whether the parser can read it. Numbers are in   *)
(* halves, so that 1 stands for 0.5; the kind of a number node keeps       *)
(* whether its token is an integer. An enumerator has the name it has in   *)
(* the code. A diagnostic keeps its category, code, schema error and index *)
(* and not its path and wording.                                           *)
(***************************************************************************)
EXTENDS Integers, Sequences, FiniteSetsExt, TLC

CONSTANTS
    MaxBytes,     \* kMaxControllerConfigJsonBytes
    MaxNesting,   \* kMaxControllerConfigJsonNesting
    MaxElements,  \* kMaxControllerConfigJsonNodes
    Int64Limit,   \* 2^63: the first integer that Integer cannot hold
    FloatMax      \* the largest finite float, in halves

ASSUME LimitAssumption ==
    {MaxBytes, MaxNesting, MaxElements, Int64Limit, FloatMax} \subseteq Nat \ {0}

\* The local_argb limits that the output catalog generates.
Limit == [pixel_count |-> 100..300, zone |-> 300, color |-> 0..255, priority |-> 0..255,
          duration |-> 1..5000, defaultCount |-> 100, defaultPriority |-> 100]

(******************************* JSON trees *******************************)

Node(kind, text, num, kids) == [kind |-> kind, text |-> text, num |-> num, kids |-> kids]
Str(text) == Node("string", text, 0, <<>>)
Whole(n) == Node("int", "", 2 * n, <<>>)
Real(halves) == Node("real", "", halves, <<>>)
Float(halves) == IF halves % 2 = 0 THEN Whole(halves \div 2) ELSE Real(halves)
Bool(b) == Node(IF b THEN "true" ELSE "false", "", 0, <<>>)
Member(name, value) == [name |-> name, value |-> value]
Obj(members) == Node("object", "", 0, members)
Arr(items) == Node("array", "", 0, [i \in DOMAIN items |-> Member("", items[i])])

IsNumber(v) == v.kind \in {"int", "real"}
IsContainer(v) == v.kind \in {"object", "array"}
NamesIn(object) == {object.kids[i].name : i \in DOMAIN object.kids}
\* cJSON_GetObjectItemCaseSensitive: the first member of that name.
Get(object, name) ==
    object.kids[Min({i \in DOMAIN object.kids : object.kids[i].name = name})].value

NulText == "\\u0000"    \* a string whose text holds an escaped or a raw NUL

RECURSIVE Sum(_)
Sum(s) == IF s = <<>> THEN 0 ELSE Head(s) + Sum(Tail(s))

\* The bytes of a value in the canonical spelling: names and strings take two
\* quotes, members a colon, siblings a comma.
RECURSIVE TextSize(_)
TextSize(v) ==
    CASE v.kind = "string" -> 2 + Len(v.text)
      [] v.kind = "int" -> Len(ToString(v.num \div 2))
      [] v.kind = "real" -> 2 + Len(ToString(v.num \div 2))
      [] IsContainer(v) ->
            2 + (IF v.kids = <<>> THEN 0 ELSE Len(v.kids) - 1)
              + Sum([i \in DOMAIN v.kids |->
                        TextSize(v.kids[i].value)
                        + (IF v.kind = "object" THEN 3 + Len(v.kids[i].name) ELSE 0)])
      [] OTHER -> Len(v.kind)

(******************************** preflight *******************************)

\* preflight_input: the text from left to right, [verdict, elements so far].
RECURSIVE Scan(_, _, _), ScanKids(_, _, _, _)
Scan(v, depth, count) ==
    IF v.kind = "string" /\ v.text = NulText
    THEN [verdict |-> "EmbeddedNul", count |-> count]
    ELSE IF ~IsContainer(v) THEN [verdict |-> "Ok", count |-> count]
    ELSE IF depth + 1 > MaxNesting THEN [verdict |-> "NestingLimitExceeded", count |-> count]
    ELSE IF count + 1 > MaxElements THEN [verdict |-> "ResourceExhausted", count |-> count + 1]
    ELSE ScanKids(v, 1, depth + 1, count + 1)
ScanKids(v, i, depth, count) ==
    IF i > Len(v.kids) THEN [verdict |-> "Ok", count |-> count]
    ELSE LET comma == IF i = 1 THEN 0 ELSE 1
             kid == Scan(v.kids[i].value, depth, count + comma)
         IN  IF count + comma > MaxElements
             THEN [verdict |-> "ResourceExhausted", count |-> count + comma]
             ELSE IF v.kids[i].name = NulText
             THEN [verdict |-> "EmbeddedNul", count |-> count + comma]
             ELSE IF kid.verdict # "Ok" THEN kid
             ELSE ScanKids(v, i + 1, depth, kid.count)
Preflight(root) == Scan(root, 0, 0).verdict

(****************************** typed readers *****************************)

Diagnostic(category, code, schema, index) ==
    [category |-> category, code |-> code, schema |-> schema, index |-> index]
NoError == Diagnostic("None", "None", "None", 0)
Absent == [set |-> FALSE, value |-> 0]
Refuse(code, schema) == [error |-> Diagnostic("Structural", code, schema, 0), value |-> Absent]
Accept(value) == [error |-> NoError, value |-> value]
Failed(result) == result.error # NoError
\* The later result, unless the earlier one is a refusal.
first && next == IF Failed(first) THEN first ELSE next

\* Names<Enum>::kTable
Names ==
    [RuleType |-> [State |-> "state", SampledState |-> "sampled_state", Event |-> "event",
                   Range |-> "range"],
     OutputType |-> [LedEffect |-> "led_effect", LedFill |-> "led_fill",
                     LedTransient |-> "led_transient", LedSolid |-> "led_solid"],
     Comparison |-> [Equal |-> "equal", NotEqual |-> "not_equal", Less |-> "less",
                     LessOrEqual |-> "less_or_equal", Greater |-> "greater",
                     GreaterOrEqual |-> "greater_or_equal"],
     Freshness |-> [Fresh |-> "fresh", FreshOrUnverified |-> "fresh_or_unverified"],
     Edge |-> [BecomesTrue |-> "becomes_true", BecomesFalse |-> "becomes_false"],
     Effect |-> [LeftTurn |-> "left_turn", RightTurn |-> "right_turn", Brake |-> "brake"],
     Direction |-> [StartToEnd |-> "start_to_end", EndToStart |-> "end_to_start",
                    CenterOut |-> "center_out"]]
NameOf(enum, value) == Names[enum][value]
Named(enum, value) == value \in DOMAIN Names[enum]

ParseString(v) == IF v.kind = "string" THEN Accept(v.text) ELSE Refuse("TypeMismatch", "None")

FiniteFloat(halves) == halves \in (-FloatMax)..FloatMax
ParseFloat(v) ==
    IF ~IsNumber(v) THEN Refuse("TypeMismatch", "None")
    ELSE IF FiniteFloat(v.num) THEN Accept(v.num)
    ELSE Refuse("InvalidValue", "InvalidOperand")

\* parse_integer accepts 1.0; the halves of a "real" node may be even.
ParseInteger(v) ==
    IF ~IsNumber(v) THEN Refuse("TypeMismatch", "None")
    ELSE IF v.num % 2 = 0 /\ v.num \div 2 \in (-Int64Limit)..(Int64Limit - 1)
    THEN Accept(v.num \div 2)
    ELSE Refuse("InvalidValue", "None")

\* Mutant of ParseDuration: 8e2 and 800.0 pass, as they do elsewhere.
MRoundDuration(v) == ParseInteger(v)

\* parse_duration reads the token of the number, which must be an integer.
ParseDuration(v) ==
    IF ~IsNumber(v) THEN Refuse("TypeMismatch", "None")
    ELSE IF v.kind = "int" /\ v.num \div 2 \in (-Int64Limit)..(Int64Limit - 1)
    THEN Accept(v.num \div 2)
    ELSE Refuse("InvalidValue", "InvalidDuration")

ParseBool(v) ==
    IF v.kind \in {"true", "false"} THEN Accept(v.kind = "true")
    ELSE Refuse("TypeMismatch", "None")

ParseEnum(enum, v) ==
    IF v.kind # "string" THEN Refuse("TypeMismatch", "None")
    ELSE LET known == {e \in DOMAIN Names[enum] : NameOf(enum, e) = v.text}
         IN  IF known = {} THEN Refuse("InvalidValue", "None")
             ELSE Accept(CHOOSE e \in known : TRUE)

\* The first member that repeats an earlier one or that the schema does not have.
RejectUnknownFields(object, allowed) ==
    LET kids == object.kids
        Repeated(i) == \E j \in 1..(i - 1) : kids[j].name = kids[i].name
        wrong == {i \in DOMAIN kids : Repeated(i) \/ kids[i].name \notin allowed}
    IN  IF wrong = {} THEN Accept(Absent)
        ELSE Refuse(IF Repeated(Min(wrong)) THEN "InvalidValue" ELSE "UnknownField", "None")

(***************************** the grammar ********************************)
(* A row of a grammar names a field, whether it is required, optional or   *)
(* only has to be present, and its type; rows are in the order in which    *)
(* the parser reads them.                                                  *)
(***************************************************************************)
Row(name, need, type) == [name |-> name, need |-> need, type |-> type]
Required(name, type) == Row(name, "required", type)
Optional(name, type) == Row(name, "optional", type)

NumericRangeGrammar ==
    [rows |-> <<Row("from", "present", "float"), Row("to", "present", "float"),
                Required("from", "float"), Required("to", "float")>>,
     blank |-> [from |-> 0, to |-> 0]]
ZoneGrammar ==
    [rows |-> <<Required("start", "integer"), Required("length", "integer"),
                Required("direction", "Direction")>>,
     blank |-> [start |-> 0, length |-> 0, direction |-> "StartToEnd"]]
ColorGrammar ==
    [rows |-> <<Required("red", "integer"), Required("green", "integer"),
                Required("blue", "integer")>>,
     blank |-> [red |-> 0, green |-> 0, blue |-> 0]]
ActionGrammar == [rows |-> <<Required("name", "string")>>, blank |-> [name |-> ""]]

BlankOperand == [kind |-> "boolean", boolean |-> FALSE, number |-> 0, choice |-> ""]
\* A rule of any type; the fields its type does not have keep these values.
BlankRule ==
    [type |-> "State", action |-> "", freshness |-> "Fresh", signal_key |-> "",
     comparison |-> "Equal", operand |-> BlankOperand, edge |-> "BecomesTrue",
     release_threshold |-> Absent, input |-> NumericRangeGrammar.blank,
     output |-> NumericRangeGrammar.blank]
BlankOutput ==
    [type |-> "LedEffect", action |-> "", priority |-> Limit.defaultPriority,
     effect |-> "LeftTurn", zone |-> ZoneGrammar.blank, color |-> ColorGrammar.blank,
     duration_ms |-> 0]

ConditionRows ==
    <<Required("signal_key", "string"), Required("comparison", "Comparison"),
      Required("operand", "operand")>>
RuleRows(type) ==
    <<Required("action", "string"), Optional("freshness", "Freshness")>>
    \o (IF type = "Range"
        THEN <<Required("signal_key", "string"), Required("input", "range"),
               Required("output", "range")>>
        ELSE ConditionRows)
    \o (IF type = "Event" THEN <<Required("edge", "Edge")>> ELSE <<>>)
    \o (IF type = "SampledState" THEN <<Optional("release_threshold", "threshold")>> ELSE <<>>)
RuleGrammar(type) ==
    [rows |-> RuleRows(type), blank |-> [BlankRule EXCEPT !.type = type]]

OutputRows(type) ==
    <<Required("action", "string"), Optional("priority", "integer")>>
    \o (IF type = "LedEffect" THEN <<Required("effect", "Effect")>>
        ELSE <<Required("zone", "zone"), Required("color", "color")>>)
    \o (IF type = "LedTransient" THEN <<Required("duration_ms", "duration")>> ELSE <<>>)
OutputGrammar(type) ==
    [rows |-> OutputRows(type), blank |-> [BlankOutput EXCEPT !.type = type]]

RowNames(grammar) == {grammar.rows[i].name : i \in DOMAIN grammar.rows}

\* A typed value, and the members of an object row by row.
RECURSIVE Parse(_, _), Fields(_, _, _)
Fields(object, rows, got) ==
    IF rows = <<>> THEN Accept(got)
    ELSE LET row == Head(rows)
             read == Parse(row.type, Get(object, row.name))
         IN  IF row.name \notin NamesIn(object)
             THEN IF row.need = "optional" THEN Fields(object, Tail(rows), got)
                  ELSE Refuse("MissingField", "None")
             ELSE IF row.need = "present" THEN Fields(object, Tail(rows), got)
             ELSE read && Fields(object, Tail(rows), [got EXCEPT ![row.name] = read.value])

\* require_object, reject_unknown_fields, then the rows; `more` are names the
\* caller has already read.
ParseObject(v, grammar, more) ==
    IF v.kind # "object" THEN Refuse("TypeMismatch", "None")
    ELSE RejectUnknownFields(v, RowNames(grammar) \cup more)
         && Fields(v, grammar.rows, grammar.blank)

\* Exactly one of boolean, number and choice.
ParseOperand(v) ==
    LET name == v.kids[1].name
        read == Parse(CASE name = "boolean" -> "bool" [] name = "number" -> "float"
                        [] OTHER -> "string", v.kids[1].value)
    IN  IF v.kind # "object" THEN Refuse("TypeMismatch", "None")
        ELSE RejectUnknownFields(v, {"boolean", "number", "choice"})
             && (IF Len(v.kids) # 1 THEN Refuse("InvalidValue", "None") ELSE read)
             && Accept([BlankOperand EXCEPT !.kind = name, ![name] = read.value])

Parse(type, v) ==
    CASE type = "string" -> ParseString(v)
      [] type = "float" -> ParseFloat(v)
      [] type = "threshold" ->
            LET read == ParseFloat(v) IN read && Accept([set |-> TRUE, value |-> read.value])
      [] type = "integer" -> ParseInteger(v)
      [] type = "duration" -> ParseDuration(v)
      [] type = "bool" -> ParseBool(v)
      [] type = "operand" -> ParseOperand(v)
      [] type = "range" -> ParseObject(v, NumericRangeGrammar, {})
      [] type = "zone" -> ParseObject(v, ZoneGrammar, {})
      [] type = "color" -> ParseObject(v, ColorGrammar, {})
      [] OTHER -> ParseEnum(type, v)

\* The type decides which fields there may be, so it is read before them.
GrammarOf(enum, type) == IF enum = "RuleType" THEN RuleGrammar(type) ELSE OutputGrammar(type)
ParseBody(v, enum, type) == type && ParseObject(v, GrammarOf(enum, type.value), {"type"})
ParseTyped(v, enum) ==
    IF v.kind # "object" THEN Refuse("TypeMismatch", "None")
    ELSE IF "type" \notin NamesIn(v) THEN Refuse("MissingField", "None")
    ELSE ParseBody(v, enum, ParseEnum(enum, Get(v, "type")))
ParseRule(v) == ParseTyped(v, "RuleType")
ParseOutput(v) == ParseTyped(v, "OutputType")
ParseAction(v) == ParseObject(v, ActionGrammar, {})

ParseItem(name, v) ==
    CASE name = "actions" -> ParseAction(v)
      [] name = "rules" -> ParseRule(v)
      [] OTHER -> ParseOutput(v)
\* The items, or the first bad one with its index.
Collected(items) ==
    LET bad == {i \in DOMAIN items : Failed(items[i])}
    IN  IF bad = {} THEN Accept([i \in DOMAIN items |-> items[i].value])
        ELSE [items[Min(bad)] EXCEPT !.error.index = Min(bad) - 1]
\* parse_array: an absent array is empty.
ParseArray(root, name) ==
    LET array == Get(root, name)
    IN  IF name \notin NamesIn(root) THEN Accept(<<>>)
        ELSE IF array.kind # "array" THEN Refuse("TypeMismatch", "None")
        ELSE Collected([i \in DOMAIN array.kids |-> ParseItem(name, array.kids[i].value)])

\* sinks.local_argb.pixel_count, each level optional.
RECURSIVE ParseSinks(_, _)
ParseSinks(v, path) ==
    LET name == Head(path)
    IN  IF path = <<>> THEN ParseInteger(v)
        ELSE IF v.kind # "object" THEN Refuse("TypeMismatch", "None")
        ELSE RejectUnknownFields(v, {name})
             && (IF name \notin NamesIn(v) THEN Accept(Limit.defaultCount)
                 ELSE ParseSinks(Get(v, name), Tail(path)))

(******************************* validation *******************************)

Check(wrong, error) == IF wrong THEN error ELSE "None"
\* The first of two errors.
first ?? second == IF first = "None" THEN second ELSE first

Declared(config, name) == \E i \in DOMAIN config.actions : config.actions[i].name = name
ActionError(config, i) ==
    LET name == config.actions[i].name
    IN  Check(name = "", "EmptyActionName")
        ?? Check(\E j \in 1..(i - 1) : config.actions[j].name = name, "DuplicateActionName")

Ordered(comparison) == comparison \in {"Less", "LessOrEqual", "Greater", "GreaterOrEqual"}
ConditionError(rule) ==
    Check(rule.signal_key = "", "EmptySignalKey")
    ?? Check(~Named("Comparison", rule.comparison), "UnknownComparison")
    ?? Check(rule.operand.kind = "choice" /\ rule.operand.choice = "", "EmptyChoice")
    ?? Check(rule.operand.kind = "number" /\ ~FiniteFloat(rule.operand.number), "InvalidOperand")
    ?? Check(Ordered(rule.comparison) /\ rule.operand.kind # "number", "UnsupportedComparison")

\* The release threshold lies on the inactive side of the activation threshold.
ValidRelease(rule) ==
    LET release == rule.release_threshold.value
    IN  /\ rule.operand.kind = "number" /\ FiniteFloat(rule.operand.number)
        /\ FiniteFloat(release)
        /\ CASE rule.comparison \in {"Greater", "GreaterOrEqual"} -> release < rule.operand.number
             [] rule.comparison \in {"Less", "LessOrEqual"} -> release > rule.operand.number
             [] OTHER -> FALSE

FiniteRange(range) ==
    FiniteFloat(range.from) /\ FiniteFloat(range.to) /\ FiniteFloat(range.to - range.from)
ValidRanges(rule) ==
    FiniteRange(rule.input) /\ FiniteRange(rule.output) /\ rule.input.from < rule.input.to
FreshnessError(rule) == Check(~Named("Freshness", rule.freshness), "UnknownFreshness")

RuleBodyError(rule) ==
    CASE rule.type = "State" -> ConditionError(rule) ?? FreshnessError(rule)
      [] rule.type = "SampledState" ->
            ConditionError(rule) ?? FreshnessError(rule)
            ?? Check(rule.release_threshold.set /\ ~ValidRelease(rule), "InvalidHysteresis")
      [] rule.type = "Event" ->
            ConditionError(rule) ?? Check(~Named("Edge", rule.edge), "UnknownEventEdge")
            ?? FreshnessError(rule)
      [] OTHER -> Check(rule.signal_key = "", "EmptySignalKey") ?? FreshnessError(rule)
                  ?? Check(~ValidRanges(rule), "InvalidRange")

IsLevel(rule) == rule.type # "Event"
EarlierLevelRule(config, i) ==
    \E j \in 1..(i - 1) :
        IsLevel(config.rules[j]) /\ config.rules[j].action = config.rules[i].action
RuleError(config, i) ==
    LET rule == config.rules[i]
    IN  Check(~Declared(config, rule.action), "UndeclaredAction")
        ?? RuleBodyError(rule)
        ?? Check(IsLevel(rule) /\ EarlierLevelRule(config, i), "DuplicateAction")

ZoneError(zone, pixels) ==
    Check(~Named("Direction", zone.direction), "UnknownFillDirection")
    ?? Check(zone.length = 0, "EmptyZone")
    ?? Check(\/ zone.start < 0 \/ zone.length < 0 \/ zone.start >= pixels
             \/ zone.length > pixels - zone.start, "ZoneOutOfRange")
ZoneBindingError(binding) ==
    ZoneError(binding.zone, Limit.zone)
    ?? Check(\E c \in DOMAIN binding.color : binding.color[c] \notin Limit.color, "InvalidColor")
    ?? Check(binding.priority \notin Limit.priority, "InvalidPriority")
OutputBodyError(binding) ==
    IF binding.type = "LedEffect"
    THEN Check(~Named("Effect", binding.effect), "UnknownLedEffect")
         ?? Check(binding.priority \notin Limit.priority, "InvalidPriority")
    ELSE ZoneBindingError(binding)
         ?? Check(binding.type = "LedTransient" /\ binding.duration_ms \notin Limit.duration,
                  "InvalidDuration")

\* A solid zone is only on or off: range and event rules may not drive it.
DrivesStateOnly(config, action) ==
    \A i \in DOMAIN config.rules :
        config.rules[i].action = action => config.rules[i].type \in {"State", "SampledState"}

ActionKindError(config, binding) ==
    Check(binding.type = "LedSolid" /\ ~DrivesStateOnly(config, binding.action),
          "IncompatibleActionKind")

SameZone(left, right) == left.start = right.start /\ left.length = right.length
SameFillZone(left, right) == SameZone(left, right) /\ left.direction = right.direction

\* A solid zone is bound as a fill, so it shares the identity of fills; the
\* direction of a transient or solid zone does not change its target.
SameTarget(left, right) ==
    /\ left.action = right.action
    /\ \/ left.type = right.type /\ left.type = "LedEffect" /\ left.effect = right.effect
       \/ /\ left.type = right.type /\ left.type \in {"LedTransient", "LedSolid"}
          /\ SameZone(left.zone, right.zone)
       \/ /\ {left.type, right.type} \in {{"LedFill"}, {"LedFill", "LedSolid"}}
          /\ SameFillZone(left.zone, right.zone)

OutputError(config, i) ==
    LET binding == config.outputs[i]
    IN  Check(~Declared(config, binding.action), "UndeclaredAction")
        ?? OutputBodyError(binding)
        ?? ActionKindError(config, binding)
        ?? (IF binding.type = "LedEffect" THEN "None"
            ELSE ZoneError(binding.zone, config.pixel_count))
        ?? Check(\E j \in 1..(i - 1) : SameTarget(config.outputs[j], binding), "DuplicateBinding")

Valid == [error |-> "None", section |-> "Document", index |-> 0]
FirstError(errors, section) ==
    LET bad == {i \in DOMAIN errors : errors[i] # "None"}
    IN  IF bad = {} THEN Valid
        ELSE [error |-> errors[Min(bad)], section |-> section, index |-> Min(bad) - 1]

\* The first of two findings.
FirstOf(first, second) == IF first = Valid THEN second ELSE first
Validate(config) ==
    IF config.pixel_count \notin Limit.pixel_count
    THEN [Valid EXCEPT !.error = "InvalidPixelCount", !.section = "Sinks"]
    ELSE IF config.version # 1 THEN [Valid EXCEPT !.error = "UnsupportedVersion"]
    ELSE FirstOf(FirstError([i \in DOMAIN config.actions |-> ActionError(config, i)], "Actions"),
         FirstOf(FirstError([i \in DOMAIN config.rules |-> RuleError(config, i)], "Rules"),
                 FirstError([i \in DOMAIN config.outputs |-> OutputError(config, i)], "Outputs")))

(*************************** the loader, as a whole ***********************)

EmptyConfig == [version |-> 1, pixel_count |-> Limit.defaultCount, actions |-> <<>>,
                rules |-> <<>>, outputs |-> <<>>]
Rejected(diagnostic) == [error |-> diagnostic, value |-> EmptyConfig]

\* The structure of a document whose text the parser read; earlier refusals win.
Assembled(count, version, actions, rules, outputs) ==
    count && version && actions && rules && outputs
    && Accept([version |-> version.value, pixel_count |-> count.value, actions |-> actions.value,
               rules |-> rules.value, outputs |-> outputs.value])
ParseRoot(root) ==
    IF root.kind # "object" THEN Refuse("RootTypeMismatch", "None")
    ELSE RejectUnknownFields(root, {"version", "actions", "rules", "outputs", "sinks"})
         && Assembled(IF "sinks" \in NamesIn(root)
                      THEN ParseSinks(Get(root, "sinks"), <<"local_argb", "pixel_count">>)
                      ELSE Accept(Limit.defaultCount),
                      IF "version" \in NamesIn(root) THEN ParseInteger(Get(root, "version"))
                      ELSE Refuse("MissingField", "None"),
                      ParseArray(root, "actions"), ParseArray(root, "rules"),
                      ParseArray(root, "outputs"))

LoadValidated(config, validation) ==
    IF validation.error = "None" THEN Accept(config)
    ELSE Rejected(Diagnostic("Semantic", "SchemaValidation", validation.error, validation.index))
LoadParsed(parsed) ==
    IF Failed(parsed) THEN Rejected(parsed.error)
    ELSE LoadValidated(parsed.value, Validate(parsed.value))
\* parse_controller_config
Load(doc) ==
    LET length == doc.size - (IF doc.terminated THEN 1 ELSE 0)
        preflight == Preflight(doc.root)
    IN  IF length > MaxBytes THEN Rejected(Diagnostic("Parse", "InputTooLarge", "None", 0))
        ELSE IF preflight # "Ok" THEN Rejected(Diagnostic("Parse", preflight, "None", 0))
        ELSE IF doc.syntax = "outOfMemory"
        THEN Rejected(Diagnostic("Parse", "ResourceExhausted", "None", 0))
        ELSE IF doc.syntax # "ok" THEN Rejected(Diagnostic("Parse", "MalformedJson", "None", 0))
        ELSE LoadParsed(ParseRoot(doc.root))

(*************************** canonical documents **************************)

Enum(enum, value) == Str(NameOf(enum, value))
SerializeOperand(operand) ==
    Obj(<<Member(operand.kind,
                 CASE operand.kind = "boolean" -> Bool(operand.boolean)
                   [] operand.kind = "number" -> Float(operand.number)
                   [] OTHER -> Str(operand.choice))>>)
SerializeRange(range) == Obj(<<Member("from", Float(range.from)), Member("to", Float(range.to))>>)

\* Mutant of SerializeRule: the freshness is left out, as the default is.
MFreshnessOmitted(rule) ==
    Obj(<<Member("type", Enum("RuleType", rule.type)), Member("action", Str(rule.action)),
          Member("signal_key", Str(rule.signal_key))>>
        \o (IF rule.type = "Range"
            THEN <<Member("input", SerializeRange(rule.input)),
                   Member("output", SerializeRange(rule.output))>>
            ELSE <<Member("comparison", Enum("Comparison", rule.comparison)),
                   Member("operand", SerializeOperand(rule.operand))>>)
        \o (IF rule.type = "Event" THEN <<Member("edge", Enum("Edge", rule.edge))>> ELSE <<>>))

SerializeRule(rule) ==
    LET condition == <<Member("signal_key", Str(rule.signal_key)),
                       Member("comparison", Enum("Comparison", rule.comparison)),
                       Member("operand", SerializeOperand(rule.operand))>>
        release == IF rule.release_threshold.set
                   THEN <<Member("release_threshold", Float(rule.release_threshold.value))>>
                   ELSE <<>>
        body == CASE rule.type = "State" -> condition
                  [] rule.type = "SampledState" -> condition \o release
                  [] rule.type = "Event" ->
                        condition \o <<Member("edge", Enum("Edge", rule.edge))>>
                  [] OTHER -> <<Member("signal_key", Str(rule.signal_key)),
                                Member("input", SerializeRange(rule.input)),
                                Member("output", SerializeRange(rule.output))>>
    IN  Obj(<<Member("type", Enum("RuleType", rule.type)), Member("action", Str(rule.action))>>
            \o body \o <<Member("freshness", Enum("Freshness", rule.freshness))>>)

SerializeOutput(binding) ==
    LET zone == Obj(<<Member("start", Whole(binding.zone.start)),
                      Member("length", Whole(binding.zone.length)),
                      Member("direction", Enum("Direction", binding.zone.direction))>>)
        color == Obj(<<Member("red", Whole(binding.color.red)),
                       Member("green", Whole(binding.color.green)),
                       Member("blue", Whole(binding.color.blue))>>)
        body == IF binding.type = "LedEffect"
                THEN <<Member("effect", Enum("Effect", binding.effect))>>
                ELSE <<Member("zone", zone), Member("color", color)>>
        duration == IF binding.type = "LedTransient"
                    THEN <<Member("duration_ms", Whole(binding.duration_ms))>> ELSE <<>>
    IN  Obj(<<Member("type", Enum("OutputType", binding.type)),
              Member("action", Str(binding.action))>>
            \o body \o duration \o <<Member("priority", Whole(binding.priority))>>)

SerializeRoot(config) ==
    LET sinks == IF config.pixel_count = Limit.defaultCount THEN <<>>
                 ELSE <<Member("sinks", Obj(<<Member("local_argb",
                            Obj(<<Member("pixel_count", Whole(config.pixel_count))>>))>>))>>
        Each(entries, Entry(_)) == Arr([i \in DOMAIN entries |-> Entry(entries[i])])
    IN  Obj(<<Member("version", Whole(config.version))>> \o sinks
            \o <<Member("actions", Each(config.actions,
                                        LAMBDA a : Obj(<<Member("name", Str(a.name))>>))),
                 Member("rules", Each(config.rules, SerializeRule)),
                 Member("outputs", Each(config.outputs, SerializeOutput))>>)

Document(root, padding) ==
    [root |-> root, size |-> TextSize(root) + padding, terminated |-> FALSE, syntax |-> "ok"]
\* serialize_controller_config
Serialize(config) == Document(SerializeRoot(config), 0)

(**************************** the schema, declared ************************)
(* Which documents the schema accepts, said of the tree and of all its     *)
(* members at once, with no order of reading: the loader is compared with  *)
(* it.                                                                     *)
(***************************************************************************)
RECURSIVE Depth(_), Elements(_), Texts(_)
Depth(v) == IF ~IsContainer(v) THEN 0
            ELSE 1 + Max({0} \cup {Depth(v.kids[i].value) : i \in DOMAIN v.kids})
Elements(v) == IF ~IsContainer(v) THEN 0
               ELSE Max({1, Len(v.kids)}) + Sum([i \in DOMAIN v.kids |-> Elements(v.kids[i].value)])
Texts(v) == {v.text} \cup NamesIn(v) \cup UNION {Texts(v.kids[i].value) : i \in DOMAIN v.kids}
Readable(doc) ==
    /\ doc.size <= MaxBytes + (IF doc.terminated THEN 1 ELSE 0) /\ doc.syntax = "ok"
    /\ Depth(doc.root) <= MaxNesting /\ Elements(doc.root) <= MaxElements
    /\ NulText \notin Texts(doc.root)

ObjectOf(v, required, optional) ==
    /\ v.kind = "object"
    /\ required \subseteq NamesIn(v) /\ NamesIn(v) \subseteq required \cup optional
    /\ \A i, j \in DOMAIN v.kids : v.kids[i].name = v.kids[j].name => i = j
Text(v, name) == Get(v, name).text
IsText(v) == v.kind = "string"
NonEmpty(v) == IsText(v) /\ v.text # ""
IsFloat(v) == IsNumber(v) /\ FiniteFloat(v.num)
WholeIn(v, numbers) == IsNumber(v) /\ \E n \in numbers : v.num = 2 * n
Spelled(v, texts) == IsText(v) /\ v.text \in texts

RangeConforms(v, ascending) ==
    /\ ObjectOf(v, {"from", "to"}, {})
    /\ LET from == Get(v, "from")  to == Get(v, "to")
       IN  /\ IsFloat(from) /\ IsFloat(to) /\ FiniteFloat(to.num - from.num)
           /\ ascending => from.num < to.num
OperandConforms(v) ==
    /\ ObjectOf(v, {}, {"boolean", "number", "choice"}) /\ Cardinality(NamesIn(v)) = 1
    /\ \A name \in NamesIn(v) :
        LET value == Get(v, name)
        IN  CASE name = "boolean" -> value.kind \in {"true", "false"}
              [] name = "number" -> IsFloat(value)
              [] OTHER -> NonEmpty(value)
ReleaseConforms(v) ==
    "release_threshold" \in NamesIn(v) =>
        /\ IsFloat(Get(v, "release_threshold")) /\ NamesIn(Get(v, "operand")) = {"number"}
        /\ LET gap == Get(v, "release_threshold").num - Get(Get(v, "operand"), "number").num
           IN  \/ gap < 0 /\ Text(v, "comparison") \in {"greater", "greater_or_equal"}
               \/ gap > 0 /\ Text(v, "comparison") \in {"less", "less_or_equal"}
ConditionConforms(v) ==
    /\ Spelled(Get(v, "comparison"), {"equal", "not_equal", "less", "less_or_equal", "greater",
                                      "greater_or_equal"})
    /\ OperandConforms(Get(v, "operand"))
    /\ NamesIn(Get(v, "operand")) # {"number"} => Text(v, "comparison") \in {"equal", "not_equal"}
RuleConforms(v) ==
    LET common == {"type", "action", "signal_key"}
        conditional == common \cup {"comparison", "operand"}
    IN  /\ v.kind = "object" /\ "type" \in NamesIn(v)
        /\ CASE Text(v, "type") = "state" ->
                  ObjectOf(v, conditional, {"freshness"}) /\ ConditionConforms(v)
             [] Text(v, "type") = "sampled_state" ->
                  /\ ObjectOf(v, conditional, {"freshness", "release_threshold"})
                  /\ ConditionConforms(v) /\ ReleaseConforms(v)
             [] Text(v, "type") = "event" ->
                  /\ ObjectOf(v, conditional \cup {"edge"}, {"freshness"})
                  /\ ConditionConforms(v)
                  /\ Spelled(Get(v, "edge"), {"becomes_true", "becomes_false"})
             [] Text(v, "type") = "range" ->
                  /\ ObjectOf(v, common \cup {"input", "output"}, {"freshness"})
                  /\ RangeConforms(Get(v, "input"), TRUE)
                  /\ RangeConforms(Get(v, "output"), FALSE)
             [] OTHER -> FALSE
        /\ IsText(Get(v, "action")) /\ NonEmpty(Get(v, "signal_key"))
        /\ "freshness" \in NamesIn(v)
              => Spelled(Get(v, "freshness"), {"fresh", "fresh_or_unverified"})

ZoneConforms(v, pixels) ==
    /\ ObjectOf(v, {"start", "length", "direction"}, {})
    /\ Spelled(Get(v, "direction"), {"start_to_end", "end_to_start", "center_out"})
    /\ WholeIn(Get(v, "length"), 1..pixels) /\ WholeIn(Get(v, "start"), 0..(pixels - 1))
    /\ Get(v, "start").num + Get(v, "length").num <= 2 * pixels
ColorConforms(v) ==
    /\ ObjectOf(v, {"red", "green", "blue"}, {})
    /\ \A name \in NamesIn(v) : WholeIn(Get(v, name), 0..255)
OutputConforms(v, pixels) ==
    LET zoned == {"type", "action", "zone", "color"}
    IN  /\ v.kind = "object" /\ "type" \in NamesIn(v)
        /\ CASE Text(v, "type") = "led_effect" ->
                  /\ ObjectOf(v, {"type", "action", "effect"}, {"priority"})
                  /\ Spelled(Get(v, "effect"), {"left_turn", "right_turn", "brake"})
             [] Text(v, "type") \in {"led_fill", "led_solid"} -> ObjectOf(v, zoned, {"priority"})
             [] Text(v, "type") = "led_transient" ->
                  /\ ObjectOf(v, zoned \cup {"duration_ms"}, {"priority"})
                  /\ Get(v, "duration_ms").kind = "int"
                  /\ WholeIn(Get(v, "duration_ms"), 1..5000)
             [] OTHER -> FALSE
        /\ IsText(Get(v, "action"))
        /\ "zone" \in NamesIn(v) => /\ ZoneConforms(Get(v, "zone"), pixels)
                                    /\ ColorConforms(Get(v, "color"))
        /\ "priority" \in NamesIn(v) => WholeIn(Get(v, "priority"), 0..255)

\* Two outputs with one target: the fill identity includes the direction.
Clash(left, right) ==
    LET zones == {Get(left, "zone"), Get(right, "zone")}
        types == {Text(left, "type"), Text(right, "type")}
        One(name) == Cardinality({Get(z, name).num : z \in zones}) = 1
        OneDirection == Cardinality({Text(z, "direction") : z \in zones}) = 1
    IN  /\ Text(left, "action") = Text(right, "action")
        /\ IF types = {"led_effect"} THEN Text(left, "effect") = Text(right, "effect")
           ELSE /\ "led_effect" \notin types
                /\ types \in {{"led_fill"}, {"led_solid"}, {"led_transient"},
                              {"led_fill", "led_solid"}}
                /\ One("start") /\ One("length")
                /\ types \in {{"led_fill"}, {"led_fill", "led_solid"}} => OneDirection

Entries(root, name) == IF name \in NamesIn(root) THEN Get(root, name).kids ELSE <<>>
Pairwise(entries, Apart(_, _)) ==
    \A i, j \in DOMAIN entries : i # j => Apart(entries[i].value, entries[j].value)
RECURSIVE SinksConform(_, _)
SinksConform(v, path) ==
    IF path = <<>> THEN WholeIn(v, 100..300)
    ELSE /\ ObjectOf(v, {}, {Head(path)})
         /\ Head(path) \in NamesIn(v) => SinksConform(Get(v, Head(path)), Tail(path))
RECURSIVE PixelsOf(_, _)
PixelsOf(v, path) ==
    IF path = <<>> THEN v.num \div 2
    ELSE IF Head(path) \in NamesIn(v) THEN PixelsOf(Get(v, Head(path)), Tail(path)) ELSE 100

SchemaAccepts(root) ==
    LET actions == Entries(root, "actions")
        rules == Entries(root, "rules")
        outputs == Entries(root, "outputs")
        declared == {Text(actions[i].value, "name") : i \in DOMAIN actions}
        sinks == <<"sinks", "local_argb", "pixel_count">>
    IN  /\ ObjectOf(root, {"version"}, {"actions", "rules", "outputs", "sinks"})
        /\ \A name \in NamesIn(root) \ {"version", "sinks"} : Get(root, name).kind = "array"
        /\ WholeIn(Get(root, "version"), {1})
        /\ "sinks" \in NamesIn(root) => SinksConform(Get(root, "sinks"), Tail(sinks))
        /\ \A i \in DOMAIN actions :
              ObjectOf(actions[i].value, {"name"}, {}) /\ NonEmpty(Get(actions[i].value, "name"))
        /\ Pairwise(actions, LAMBDA a, b : Text(a, "name") # Text(b, "name"))
        /\ \A i \in DOMAIN rules : /\ RuleConforms(rules[i].value)
                                   /\ Text(rules[i].value, "action") \in declared
        /\ Pairwise(rules, LAMBDA a, b : \/ Text(a, "action") # Text(b, "action")
                                         \/ "event" \in {Text(a, "type"), Text(b, "type")})
        /\ \A i \in DOMAIN outputs : /\ OutputConforms(outputs[i].value, PixelsOf(root, sinks))
                                     /\ Text(outputs[i].value, "action") \in declared
        /\ Pairwise(outputs, LAMBDA a, b : ~Clash(a, b))
        /\ \A i \in DOMAIN outputs, j \in DOMAIN rules :
              /\ Text(outputs[i].value, "type") = "led_solid"
              /\ Text(outputs[i].value, "action") = Text(rules[j].value, "action")
              => Text(rules[j].value, "type") \in {"state", "sampled_state"}
=============================================================================
