---------------------------- MODULE ConfigApply ----------------------------
(***************************************************************************)
(* From an uploaded document to lit effects: ConfigService::commit with    *)
(* its dry-run apply and ConfigStore::save_override, the boot that selects *)
(* and applies a configuration with the factory fallback (application.cpp, *)
(* config_store.cpp and configure_engine_lighting of the firmware), and    *)
(* the held commands of the LED action sink the configuration has bound.   *)
(*                                                                         *)
(* Every step is one call on one task. Between two boots the firmware may  *)
(* be replaced, and with it the factory document and the signal catalog.   *)
(* Power loss inside a save is the matter of ConfigStore, the transfer of  *)
(* ConfigUpdate, and Trigger commands and transient starts of              *)
(* TransientPath.                                                          *)
(***************************************************************************)
EXTENDS ConfigModel

CONSTANTS
    Uploads(_, _),     \* the documents a client may commit to a firmware after a boot
    StoredBefore,      \* what an earlier firmware may have left in the store
    Firmwares,         \* [factory: a document, catalog: the provider's signals by key]
    MaxStoredBytes,    \* kMaxStoredControllerConfigJsonBytes
    EffectCapacity, FillCapacity, TransientCapacity,   \* of the binding lists
    RuleCapacity, PolledCapacity,                      \* RuleSet, PolledRuleSet
    MaxUploads,        \* bound: commits in a behaviour
    MaxCommands        \* bound: commands executed after one boot

ASSUME ApplyAssumption ==
    {MaxStoredBytes, EffectCapacity, FillCapacity, TransientCapacity, RuleCapacity,
     PolledCapacity} \subseteq Nat \ {0}

VARIABLES
    firmware,  \* the running image: its factory document and its catalog
    store,     \* the stored override: <<>> or <<document>>
    phase,     \* "off", "ready", or "failed": startup failed off and refused
    config,    \* active_configuration
    targets,   \* the bindings of the LED sink and the rules and sink of the engine
    strip,     \* the pixel count local_argb::start was given
    boot,      \* BootStatus, as record_boot leaves it
    outcome,   \* the CommitOutcome of this boot's commit
    upload,    \* history: the document this boot's commit was given, or <<>>
    uploads,   \* bound: commits so far
    command,   \* the last LightingCommand that the lighting sink accepted
    commands,  \* bound: commands since the boot
    held,      \* history: the last level of each action, by name
    shown,     \* history: the last publish was accepted
    vouched    \* history: the firmware whose dry run passed the stored override, or <<>>

configVars == <<config, targets, strip, boot>>
uploadVars == <<outcome, upload, uploads>>
runVars == <<command, commands, held, shown>>
vars == <<firmware, store, phase, configVars, uploadVars, runVars, vouched>>

(**************************** bindings and rules **************************)

NoTargets == [effects |-> <<>>, fills |-> <<>>, transients |-> <<>>, sink |-> FALSE,
              rules |-> <<>>, polled |-> <<>>]

\* action_id: 1-based, in document order; 0 is reserved.
ActionId(active, name) ==
    LET found == {i \in DOMAIN active.actions : active.actions[i].name = name}
    IN  IF found = {} THEN 0 ELSE Min(found)

Byte(n) == n % 256
ByteColor(color) == [c \in DOMAIN color |-> Byte(color[c])]
Effect(active, b) ==
    [action |-> ActionId(active, b.action), effect |-> b.effect, priority |-> Byte(b.priority),
     active |-> FALSE]
Fill(active, b) ==
    [action |-> ActionId(active, b.action), zone |-> b.zone, color |-> ByteColor(b.color),
     priority |-> Byte(b.priority), level |-> 0]
Transient(active, b) ==
    [action |-> ActionId(active, b.action), zone |-> b.zone, color |-> ByteColor(b.color),
     priority |-> Byte(b.priority), duration_us |-> b.duration_ms * 1000]

\* EffectBindings::bind, FillBindings::bind and TransientBindings::bind.
BindStatus(list, entry, duplicate, capacity) ==
    Check(entry.action = 0, "InvalidAction") ?? Check(duplicate, "DuplicateBinding")
    ?? Check(Len(list) = capacity, "CapacityExceeded")

BindEffect(to, e) ==
    BindStatus(to.effects, e, \E i \in DOMAIN to.effects : /\ to.effects[i].action = e.action
                                                           /\ to.effects[i].effect = e.effect,
               EffectCapacity)
BindFill(to, f) ==
    BindStatus(to.fills, f, \E i \in DOMAIN to.fills : /\ to.fills[i].action = f.action
                                                       /\ to.fills[i].zone = f.zone,
               FillCapacity)
BindTransient(to, t, pixels) ==
    Check(t.action = 0, "InvalidAction")
    ?? Check(\/ t.duration_us \notin 1..5000000 \/ pixels \notin Limit.pixel_count
             \/ t.zone.length = 0 \/ t.zone.start >= pixels
             \/ t.zone.length > pixels - t.zone.start
             \/ ~Named("Direction", t.zone.direction), "InvalidEffect")
    ?? BindStatus(to.transients, t,
                  \E i \in DOMAIN to.transients : /\ to.transients[i].action = t.action
                                                  /\ SameZone(to.transients[i].zone, t.zone),
                  TransientCapacity)

\* bind_output: [status, the targets with the binding].
BindOutput(to, active, b) ==
    LET effect == Effect(active, b)  fill == Fill(active, b)  transient == Transient(active, b)
    IN  CASE b.type = "LedEffect" ->
              [status |-> BindEffect(to, effect),
               to |-> [to EXCEPT !.effects = Append(@, effect)]]
          [] b.type \in {"LedFill", "LedSolid"} ->
              [status |-> BindFill(to, fill), to |-> [to EXCEPT !.fills = Append(@, fill)]]
          [] OTHER ->
              [status |-> BindTransient(to, transient, active.pixel_count),
               to |-> [to EXCEPT !.transients = Append(@, transient)]]

\* check_action: one level rule for an action, notified or polled.
DrivesLevel(to, id) ==
    \/ \E i \in DOMAIN to.rules : to.rules[i].action = id /\ to.rules[i].rule.type = "State"
    \/ \E i \in DOMAIN to.polled : to.polled[i].action = id
CheckAction(to, id, rule) ==
    Check(id = 0, "InvalidAction")
    ?? Check(IsLevel(rule) /\ DrivesLevel(to, id), "DuplicateAction")

\* resolve_through, and resolve_range_rule's own order for the catalog.
Polled(rule) == rule.type \in {"SampledState", "Range"}
ResolveSignal(catalog, rule) ==
    Check(rule.signal_key \notin DOMAIN catalog, "UnknownSignal")
    ?? Check((IF Polled(rule) THEN "read" ELSE "notify")
             \notin catalog[rule.signal_key].capabilities, "UnsupportedCapability")
ResolveCondition(catalog, rule) ==
    LET type == catalog[rule.signal_key].type
    IN  Check(type # rule.operand.kind, "TypeMismatch")
        ?? Check(rule.operand.kind = "number" /\ ~FiniteFloat(rule.operand.number),
                 "InvalidOperand")
        ?? Check(rule.comparison \notin {"Equal", "NotEqual"} /\ type # "number",
                 "UnsupportedComparison")
        ?? Check(/\ rule.operand.kind = "choice"
                 /\ rule.operand.choice \notin catalog[rule.signal_key].choices, "UnknownChoice")
ResolveRange(catalog, rule) ==
    Check(catalog[rule.signal_key].type # "number", "TypeMismatch")
    ?? Check(~ValidRanges(rule), "InvalidRange")

\* add_rule: [status, the targets with the rule].
AddRule(to, active, rule, catalog) ==
    LET id == ActionId(active, rule.action)
        list == IF Polled(rule) THEN to.polled ELSE to.rules
        added == Append(list, [action |-> id, rule |-> rule])
    IN  [status |->
            CheckAction(to, id, rule)
            ?? ResolveSignal(catalog, rule)
            ?? (IF rule.type = "Range" THEN ResolveRange(catalog, rule)
                ELSE ResolveCondition(catalog, rule))
            ?? Check(rule.release_threshold.set /\ ~ValidRelease(rule), "InvalidHysteresis")
            ?? Check(Len(list) = (IF Polled(rule) THEN PolledCapacity ELSE RuleCapacity),
                     "CapacityExceeded"),
         to |-> IF Polled(rule) THEN [to EXCEPT !.polled = added]
                ELSE [to EXCEPT !.rules = added]]

(******************************** applying ********************************)

Complete == [stage |-> "Complete", validation |-> Valid, index |-> 0, binding |-> "None",
             engine |-> "None"]

\* The outputs from the i-th on, then the sink, then the rules.
RECURSIVE ApplyOutputs(_, _, _, _), ApplyRules(_, _, _, _)
ApplyRules(to, active, catalog, i) ==
    LET next == AddRule(to, active, active.rules[i], catalog)
    IN  IF i > Len(active.rules) THEN [status |-> Complete, to |-> to]
        ELSE IF next.status = "None" THEN ApplyRules(next.to, active, catalog, i + 1)
        ELSE [status |-> [Complete EXCEPT !.stage = "Rule", !.index = i - 1,
                                          !.engine = next.status], to |-> to]
ApplyOutputs(to, active, catalog, i) ==
    LET next == BindOutput(to, active, active.outputs[i])
    IN  IF i > Len(active.outputs)
        THEN IF to.sink
             THEN [status |-> [Complete EXCEPT !.stage = "SinkRegistration",
                                               !.engine = "DuplicateSink"], to |-> to]
             ELSE ApplyRules([to EXCEPT !.sink = TRUE], active, catalog, 1)
        ELSE IF next.status = "None" THEN ApplyOutputs(next.to, active, catalog, i + 1)
        ELSE [status |-> [Complete EXCEPT !.stage = "OutputBinding", !.index = i - 1,
                                          !.binding = next.status], to |-> to]

\* apply_controller_config; the ActionId stage cannot be reached with fewer
\* than 2^16 actions.
Apply(active, to, catalog) ==
    LET validation == Validate(active)
    IN  IF validation.error # "None"
        THEN [status |-> [Complete EXCEPT !.stage = "Validation", !.validation = validation,
                                          !.index = validation.index], to |-> to]
        ELSE ApplyOutputs(to, active, catalog, 1)
Ok(applied) == applied.status.stage = "Complete"

\* Mutant of Fallback: the targets are not cleared before the
\* factory is applied; the factory brings its own pixel count.
MFallback(active, partial, factory, catalog) ==
    LET fallback == Apply([factory.value EXCEPT !.pixel_count = active.pixel_count],
                          [partial EXCEPT !.sink = FALSE], catalog)
    IN  [ok |-> Ok(fallback), override |-> FALSE, config |-> factory.value,
         to |-> IF Ok(fallback) THEN fallback.to ELSE NoTargets]
\* The override's pixel count stays, for the renderer has started with it; what
\* the override left in the targets is cleared.
Fallback(active, partial, factory, catalog) ==
    LET replaced == [factory.value EXCEPT !.pixel_count = active.pixel_count]
        fallback == Apply(replaced, NoTargets, catalog)
    IN  IF Failed(factory)
        THEN [ok |-> FALSE, override |-> FALSE, config |-> active, to |-> NoTargets]
        ELSE [ok |-> Ok(fallback), override |-> FALSE, config |-> replaced,
              to |-> IF Ok(fallback) THEN fallback.to ELSE NoTargets]
\* apply_persisted_override_with_factory_fallback
ApplyWithFallback(active, fw) ==
    LET override == Apply(active, NoTargets, fw.catalog)
    IN  IF Ok(override)
        THEN [ok |-> TRUE, override |-> TRUE, config |-> active, to |-> override.to]
        ELSE Fallback(active, override.to, Load(fw.factory), fw.catalog)

(********************************* booting ********************************)

\* load_boot_configuration, with the store's answer to read_override.
Selected(read, override, factory) ==
    IF read = "present" /\ ~Failed(override)
    THEN [ok |-> TRUE, source |-> "Override", config |-> override.value, error |-> NoError]
    ELSE [ok |-> ~Failed(factory),
          source |-> IF Failed(factory) THEN "None" ELSE "Factory",
          config |-> factory.value,
          error |-> IF read = "present" THEN override.error ELSE NoError]
SelectBoot(read, fw) == Selected(read, Load(store[1]), Load(fw.factory))

\* wire_codes.cpp and encode_config_status: two names have no code of their own.
Wire(name) == CASE name = "InvalidPixelCount" -> "InvalidRange"
                [] name = "Sinks" -> "Document"
                [] OTHER -> name

\* record_boot and active_document.
BootStatus(selected, source, read, active) ==
    [source |-> source,
     length |-> IF source = "None" THEN 0 ELSE Serialize(active).size,
     invalidOverride |-> selected.error # NoError, readFailed |-> read = "failed",
     noStore |-> read = "absent", setupFailed |-> ~selected.ok,
     code |-> selected.error.code, validation |-> Wire(selected.error.schema)]
NoBoot == [source |-> "None", length |-> 0, invalidOverride |-> FALSE, readFailed |-> FALSE,
           noStore |-> FALSE, setupFailed |-> FALSE, code |-> "None", validation |-> "None"]

ActionNames(active) == {active.actions[i].name : i \in DOMAIN active.actions}
NoOutcome == [result |-> "None", length |-> 0, rejection |-> NoError, stage |-> "Complete",
              section |-> "Document", index |-> 0, validation |-> "None", binding |-> "None",
              engine |-> "None"]
Dark == [effects |-> [e \in DOMAIN Names.Effect |-> FALSE],
         priorities |-> [e \in DOMAIN Names.Effect |-> Limit.defaultPriority],
         fills |-> <<>>, actionable |-> FALSE]

ApplySelected(selected, fw) ==
    LET factory == Apply(selected.config, NoTargets, fw.catalog)
    IN  IF selected.source = "Override" THEN ApplyWithFallback(selected.config, fw)
        ELSE [ok |-> Ok(factory), override |-> FALSE, config |-> selected.config,
              to |-> factory.to]
\* configure_engine_lighting; `clears`: local_argb::start clears the strip.
Boot(read, clears) ==
    /\ phase = "off"
    /\ read \in {"absent", "failed"} \cup {IF store = <<>> THEN "missing" ELSE "present"}
    /\ \E selected \in {SelectBoot(read, firmware)} :
       \E applied \in {ApplySelected(selected, firmware)} :
          LET started == selected.ok /\ clears
              source == IF started /\ selected.source = "Override" /\ ~applied.override
                        THEN "Factory" ELSE selected.source
          IN  /\ phase' = IF started /\ applied.ok THEN "ready" ELSE "failed"
              /\ config' = IF started THEN applied.config ELSE selected.config
              /\ targets' = IF started THEN applied.to ELSE NoTargets
              /\ strip' = IF selected.ok THEN selected.config.pixel_count ELSE Limit.defaultCount
              /\ boot' = BootStatus(selected, source, read, config')
    /\ held' = [name \in ActionNames(config') |-> [fill |-> 0, lit |-> FALSE]]
    /\ command' = Dark /\ shown' = TRUE /\ commands' = 0
    /\ UNCHANGED <<firmware, store, uploadVars, vouched>>

\* The board loses power or restarts; it may come back with another firmware.
Restart ==
    /\ phase # "off"
    /\ phase' = "off"
    /\ firmware' \in Firmwares
    /\ config' = EmptyConfig /\ targets' = NoTargets /\ strip' = 0 /\ boot' = NoBoot
    /\ command' = Dark /\ commands' = 0 /\ held' = <<>> /\ shown' = TRUE
    /\ outcome' = NoOutcome /\ upload' = <<>>
    /\ UNCHANGED <<store, uploads, vouched>>

(******************************* committing *******************************)

\* save_override: [status, the canonical document or the diagnostic].
SaveCanonical(canonical) ==
    IF canonical.size > MaxStoredBytes
    THEN [status |-> "InvalidCandidate",
          error |-> Diagnostic("Structural", "InputTooLarge", "None", 0)]
    ELSE IF Failed(Load(canonical)) THEN [status |-> "Failed", error |-> NoError]
    ELSE [status |-> "Saved", document |-> canonical, error |-> NoError]
Save(loaded) ==
    IF Failed(loaded) THEN [status |-> "InvalidCandidate", error |-> loaded.error]
    ELSE SaveCanonical(Serialize(loaded.value))

ConfigRejected(error) ==
    [NoOutcome EXCEPT !.result = "ConfigRejected",
                      !.rejection = [error EXCEPT !.schema = Wire(error.schema)]]

\* Mutant of DryRun: only the schema is checked.
MDryRunValidatesOnly(active) == [status |-> Complete, to |-> NoTargets]

\* ScratchApplyCheck::dry_run and apply_rejection, with the section of the stage.
DryRun(active) == Apply(active, NoTargets, firmware.catalog)
Section(status) ==
    CASE status.stage = "ActionId" -> "Actions" [] status.stage = "OutputBinding" -> "Outputs"
      [] status.stage = "Rule" -> "Rules"
      [] status.stage = "Validation" -> Wire(status.validation.section)
      [] OTHER -> "Document"
ApplyRejected(status) ==
    [NoOutcome EXCEPT !.result = "ApplyRejected", !.stage = status.stage,
                      !.section = Section(status), !.index = status.index,
                      !.validation = Wire(status.validation.error),
                      !.binding = status.binding, !.engine = status.engine]

Outcome(loaded, applied, saved, written) ==
    IF boot.noStore THEN [NoOutcome EXCEPT !.result = "StorageFailed"]
    ELSE IF Failed(loaded) THEN ConfigRejected(loaded.error)
    ELSE IF ~Ok(applied) THEN ApplyRejected(applied.status)
    ELSE IF saved.status = "InvalidCandidate" THEN ConfigRejected(saved.error)
    ELSE IF saved.status = "Failed" \/ ~written THEN [NoOutcome EXCEPT !.result = "StorageFailed"]
    ELSE [NoOutcome EXCEPT !.result = "Saved", !.length = saved.document.size]
\* ConfigService::commit; `written`: the backend stores the document.
Commit(doc, written) ==
    /\ phase = "ready" /\ upload = <<>> /\ commands = 0 /\ uploads < MaxUploads
    /\ upload' = <<doc>> /\ uploads' = uploads + 1
    /\ \E loaded \in {Load(doc)} : \E saved \in {Save(loaded)} :
          /\ outcome' = Outcome(loaded, DryRun(loaded.value), saved, written)
          /\ IF outcome'.result = "Saved"
             THEN store' = <<saved.document>> /\ vouched' = <<firmware>>
             ELSE UNCHANGED <<store, vouched>>
    /\ UNCHANGED <<firmware, phase, configVars, runVars>>

\* ConfigService::revert_to_factory
Revert ==
    /\ phase = "ready" /\ ~boot.noStore /\ commands = 0
    /\ store' = <<>> /\ vouched' = <<>>
    /\ UNCHANGED <<firmware, phase, configVars, uploadVars, runVars>>

(**************************** running the sink ****************************)

\* EffectBindings::hold and FillBindings::hold; levels are in halves of full.
HoldEffects(id, active) ==
    [i \in DOMAIN targets.effects |->
        IF targets.effects[i].action = id THEN [targets.effects[i] EXCEPT !.active = active]
        ELSE targets.effects[i]]
HoldFills(id, level) ==
    [i \in DOMAIN targets.fills |->
        IF targets.fills[i].action = id THEN [targets.fills[i] EXCEPT !.level = level]
        ELSE targets.fills[i]]

\* held_command: each effect that some active binding lights, at the highest
\* priority among those, and the fills that are not empty.
Lit(effects, e) == {i \in DOMAIN effects : effects[i].active /\ effects[i].effect = e}

\* Mutant of Highest: the lit binding that was bound last decides.
MLastBound(effects, e) == effects[Max(Lit(effects, e))].priority

Highest(effects, e) == Max({effects[i].priority : i \in Lit(effects, e)})
HeldCommand(to) ==
    LET fills == SelectSeq(to.fills, LAMBDA f : f.level # 0)
        lit == [e \in DOMAIN Names.Effect |-> Lit(to.effects, e) # {}]
    IN  [effects |-> lit,
         priorities |-> [e \in DOMAIN Names.Effect |->
                            IF lit[e] THEN Highest(to.effects, e) ELSE Limit.defaultPriority],
         fills |-> fills,
         actionable |-> fills # <<>> \/ \E e \in DOMAIN lit : lit[e]]

\* The level commands of a rule; SetLevel 1 stands for a fraction.
LevelCommand(kind, level) == [kind |-> kind, level |-> level]
LevelsOf(rule) ==
    CASE rule.type \in {"State", "SampledState"} ->
            {LevelCommand("Activate", 2), LevelCommand("Deactivate", 0)}
      [] rule.type = "Range" ->
            {LevelCommand("SetLevel", n) : n \in 0..2} \cup {LevelCommand("Deactivate", 0)}
      [] OTHER -> {}
Drivers == {targets.rules[i] : i \in DOMAIN targets.rules}
           \cup {targets.polled[i] : i \in DOMAIN targets.polled}
\* LedActionSink::execute of a level command; effects do not follow SetLevel.
Execute(driver, level, accepted) ==
    /\ phase = "ready" /\ commands < MaxCommands /\ upload = <<>>
    /\ LET id == driver.action
           onOff == level.kind # "SetLevel"
           effects == IF onOff THEN HoldEffects(id, level.kind = "Activate") ELSE targets.effects
           Has(list) == \E i \in DOMAIN list : list[i].action = id
       IN  /\ targets' = [targets EXCEPT !.effects = effects, !.fills = HoldFills(id, level.level)]
           /\ IF (onOff /\ Has(effects)) \/ Has(targets.fills)
              THEN /\ command' = IF accepted THEN HeldCommand(targets') ELSE command
                   /\ shown' = accepted
              ELSE UNCHANGED <<command, shown>>
           /\ held' = [held EXCEPT ![driver.rule.action] =
                          [fill |-> level.level,
                           lit |-> IF onOff THEN level.kind = "Activate" ELSE @.lit]]
    /\ commands' = commands + 1
    /\ UNCHANGED <<firmware, store, phase, config, strip, boot, uploadVars, vouched>>

Init ==
    /\ firmware \in Firmwares /\ store \in {<<>>} \cup {<<doc>> : doc \in StoredBefore}
    /\ phase = "off"
    /\ config = EmptyConfig /\ targets = NoTargets /\ strip = 0 /\ boot = NoBoot
    /\ outcome = NoOutcome /\ upload = <<>> /\ uploads = 0
    /\ command = Dark /\ commands = 0 /\ held = <<>> /\ shown = TRUE
    /\ vouched = <<>>

Next ==
    \/ \E read \in {"absent", "failed", "missing", "present"}, clears \in BOOLEAN :
          Boot(read, clears)
    \/ Restart
    \/ \E doc \in Uploads(firmware, boot), written \in BOOLEAN : Commit(doc, written)
    \/ Revert
    \/ \E driver \in Drivers, accepted \in BOOLEAN :
          \E level \in LevelsOf(driver.rule) : Execute(driver, level, accepted)

Spec == Init /\ [][Next]_vars

(******************************* properties *******************************)

TypeOK ==
    /\ firmware \in Firmwares /\ Len(store) \in 0..1 /\ Len(vouched) \in 0..1
    /\ phase \in {"off", "ready", "failed"}
    /\ Len(targets.effects) \in 0..EffectCapacity /\ Len(targets.fills) \in 0..FillCapacity
    /\ Len(targets.transients) \in 0..TransientCapacity
    /\ Len(targets.rules) \in 0..RuleCapacity /\ Len(targets.polled) \in 0..PolledCapacity
    /\ boot.source \in {"None", "Factory", "Override"}
    /\ outcome.result \in {"None", "Saved", "ConfigRejected", "ApplyRejected", "StorageFailed"}

\* The ordered, first-error reading of a document (parse_controller_config and
\* validate) accepts exactly the readable documents of the declared schema.
LoaderAcceptsSchema ==
    \A i \in DOMAIN upload :
        ~Failed(Load(upload[i])) <=> Readable(upload[i]) /\ SchemaAccepts(upload[i].root)

\* serialize_controller_config writes every accepted configuration so that it
\* loads again as the same one, or is refused for its length alone.
CanonicalReloads ==
    \A i \in DOMAIN upload :
        \A loaded \in {Load(upload[i])} : ~Failed(loaded) =>
            \A again \in {Load(Serialize(loaded.value))} :
                \/ again = loaded
                \/ again.error.code \in {"InputTooLarge", "ResourceExhausted"}

\* What save_override has put into the store is loaded by the next boot: it is
\* canonical, of the size the client was told, and means what was uploaded.
SavedOverrideLoads ==
    outcome.result = "Saved" /\ store # <<>> =>
        /\ \A loaded \in {Load(store[1])} :
              /\ ~Failed(loaded) /\ loaded = Load(upload[1])
              /\ Serialize(loaded.value) = store[1]
        /\ store[1].size = outcome.length /\ outcome.length <= MaxStoredBytes

\* A document that validates fails to apply only for catalog or capacity
\* reasons: validation.cpp mirrors what the engine and the LED sink enforce.
OnlyCatalogOrCapacity ==
    outcome.result = "ApplyRejected" =>
        /\ outcome.stage \in {"OutputBinding", "Rule"}
        /\ outcome.binding \in {"None", "CapacityExceeded"}
        /\ outcome.engine \in {"None", "UnknownSignal", "UnsupportedCapability", "TypeMismatch",
                               "UnknownChoice", "CapacityExceeded"}

\* The sink and the engine of a running board hold every binding and rule of
\* the active configuration, with its own values, and nothing else: nothing of
\* a refused override is left, and no integer was cut on the way.
RunsWholeConfiguration ==
    phase = "ready" =>
        LET Name(entry) == config.actions[entry.action].name
            Outputs(types) == SelectSeq(config.outputs, LAMBDA b : b.type \in types)
            Of(rules, Pick(_)) == SelectSeq(rules, Pick)
            Same(list, outputs, Agree(_, _)) ==
                /\ Len(list) = Len(outputs)
                /\ \A i \in DOMAIN list : /\ Name(list[i]) = outputs[i].action
                                          /\ list[i].priority = outputs[i].priority
                                          /\ Agree(list[i], outputs[i])
            Drawn(entry, b) == entry.zone = b.zone /\ entry.color = b.color
            Holds(list, rules) ==
                /\ Len(list) = Len(rules)
                /\ \A i \in DOMAIN list : list[i].rule = rules[i] /\ Name(list[i]) = rules[i].action
        IN  /\ Same(targets.effects, Outputs({"LedEffect"}), LAMBDA e, b : e.effect = b.effect)
            /\ Same(targets.fills, Outputs({"LedFill", "LedSolid"}), Drawn)
            /\ Same(targets.transients, Outputs({"LedTransient"}),
                    LAMBDA t, b : Drawn(t, b) /\ t.duration_us = 1000 * b.duration_ms)
            /\ Holds(targets.polled, Of(config.rules, Polled))
            /\ Holds(targets.rules, Of(config.rules, LAMBDA r : ~Polled(r)))
            /\ targets.sink

\* An override that passed the dry run of a firmware boots on that firmware:
\* the board never falls back from it, unless the store cannot be read.
VouchedOverrideBoots ==
    /\ phase = "ready" /\ upload = <<>> /\ vouched = <<firmware>>
    /\ ~boot.noStore /\ ~boot.readFailed
    => /\ boot.source = "Override" /\ ~boot.invalidOverride
       /\ config = Load(store[1]).value

\* Everything bound fits the strip the renderer was started with, also when
\* the factory document has replaced an override that brought its own length.
BindingsFitStrip ==
    phase = "ready" =>
        /\ config.pixel_count = strip
        /\ \A i \in DOMAIN targets.fills :
              targets.fills[i].zone.start + targets.fills[i].zone.length <= strip
        /\ \A i \in DOMAIN targets.transients :
              targets.transients[i].zone.start + targets.transients[i].zone.length <= strip

\* A solid zone is full or empty: no rule that may drive it sends a fraction.
SolidOnlyOnOff ==
    \A i \in DOMAIN targets.fills, j \in DOMAIN config.outputs :
        LET fill == targets.fills[i]  solid == config.outputs[j]
        IN  /\ solid.type = "LedSolid" /\ fill.action = ActionId(config, solid.action)
            /\ fill.zone = solid.zone
            => fill.level \in {0, 2}

\* The last accepted command shows what the last level of every action asks
\* for, over all outputs that name it: an effect is lit while any of its
\* actions is on, at the highest priority among those.
CommandFollowsLevels ==
    phase = "ready" /\ shown =>
        LET On(e) == {b \in {config.outputs[i] : i \in DOMAIN config.outputs} :
                         b.type = "LedEffect" /\ b.effect = e /\ held[b.action].lit}
            filled == SelectSeq(config.outputs, LAMBDA b : /\ b.type \in {"LedFill", "LedSolid"}
                                                           /\ held[b.action].fill # 0)
        IN  /\ \A e \in DOMAIN command.effects :
                  /\ command.effects[e] = (On(e) # {})
                  /\ \A b \in On(e) : command.priorities[e] >= b.priority
                  /\ On(e) # {} => \E b \in On(e) : command.priorities[e] = b.priority
            /\ Len(command.fills) = Len(filled)
            /\ \A i \in DOMAIN filled : /\ command.fills[i].zone = filled[i].zone
                                        /\ command.fills[i].level = held[filled[i].action].fill
            /\ command.actionable = (filled # <<>> \/ \E e \in DOMAIN command.effects : On(e) # {})

\* What is stored has the meaning of the upload: its canonical spelling loads as
\* the same configuration, and so does what save_override stored.
StoredMeansUploaded == CanonicalReloads /\ SavedOverrideLoads

\* The dry run speaks for the boot: it refuses a valid document only for catalog
\* or capacity reasons, and what it vouched for boots.
DryRunSpeaksForBoot == OnlyCatalogOrCapacity /\ VouchedOverrideBoots

\* A board runs one configuration, whole, on the strip it was started with.
BoardRunsConfiguration == TypeOK /\ RunsWholeConfiguration /\ BindingsFitStrip

\* The strip shows the levels of the actions, and solid zones only full or dark.
StripShowsLevels == CommandFollowsLevels /\ SolidOnlyOnOff

=============================================================================
