----------------------------- MODULE LinkPolicy -----------------------------
(***************************************************************************)
(* The portable rules behind the companion link, as operators on records:  *)
(* lib/companion_protocol's PairingWindow, LinkSecurity, UserKeyDebouncer  *)
(* and HookGuard, and component companion_ble's attribute registration.    *)
(* Times are the ticks of the module that keeps the clock; Never stands    *)
(* for an empty std::optional.                                             *)
(***************************************************************************)
EXTENDS Integers, Sequences

CONSTANTS
  Never,            \* an empty optional time, and no connection
  WindowPeriod,     \* kPairingWindowPeriod
  IdleLimit,        \* kUnbondedLinkIdleLimit
  AbsoluteLimit,    \* kUnbondedLinkAbsoluteLimit
  DebounceSamples   \* kUserKeyDebounceSamples

ASSUME PolicyAssumption ==
  /\ WindowPeriod \in Nat \ {0} /\ IdleLimit \in Nat \ {0}
  /\ AbsoluteLimit \in Nat \ {0} /\ DebounceSamples \in Nat \ {0}
  /\ Never \notin Nat

Earlier(a, b) == IF a <= b THEN a ELSE b
Later(a, b) == IF a <= b THEN b ELSE a

(* PairingWindow: closes is closes_at_. *)
WindowOpen(closes, t) == closes # Never /\ t < closes

(* UserKeyDebouncer::sample: the debouncer after one sample.  It starts    *)
(* with a stable press, so a key held since boot is not a press.           *)
KeyAtBoot == [stable |-> "Pressed", changed |-> 0]
Sampled(key, level) ==
  IF level = key.stable THEN [key EXCEPT !.changed = 0]
  ELSE IF key.changed + 1 < DebounceSamples
       THEN [key EXCEPT !.changed = @ + 1]
       ELSE [stable |-> level, changed |-> 0]
IsPress(key, level) == key.stable = "Released" /\ Sampled(key, level).stable = "Pressed"

(* LinkSecurity *)
NoLink == [connectedAt |-> 0, idleSince |-> 0, rejected |-> FALSE,
           keys |-> FALSE, accepted |-> FALSE]
LinkConnected(t) == [NoLink EXCEPT !.connectedAt = t, !.idleSince = t]

(* encrypted(): the link after an encryption change and the verdict on it. *)
LinkEncrypted(link, ok) == [link EXCEPT !.accepted = ok]
Verdict(link, ok) ==
  CASE ok /\ link.keys -> "NewBondAccepted"
    [] ok /\ ~link.keys -> "BondRestored"
    [] ~ok /\ link.keys -> "RejectedDeleteKeys"
    [] OTHER -> "Rejected"

(* check_protected_access(): the answer to one protected read, write or    *)
(* subscription, and the link after it; the first rejection restarts the   *)
(* idle period once.                                                       *)
Access(link, encrypted, stored) ==
  CASE link.accepted -> "Allow"
    [] ~link.accepted /\ encrypted -> "InsufficientAuthenticationAndDisconnect"
    [] ~link.accepted /\ ~encrypted /\ stored -> "InsufficientEncryption"
    [] OTHER -> "InsufficientAuthentication"
AccessChecked(link, t, encrypted) ==
  IF link.accepted \/ encrypted \/ link.rejected THEN link
  ELSE [link EXCEPT !.rejected = TRUE, !.idleSince = Later(@, t)]

DropDeadline(link) ==
  IF link.accepted THEN Never
  ELSE Earlier(link.idleSince + IdleLimit, link.connectedAt + AbsoluteLimit)
MustDrop(link, t) == DropDeadline(link) # Never /\ t >= DropDeadline(link)

(* HookGuard::ensure on the store-write slot: "none", "stock" (the host's  *)
(* own function) or "guard".  orig says whether the guard has a function   *)
(* to forward to.                                                          *)
Ensured(slot, orig) == IF slot = "stock" THEN "guard" ELSE slot
EnsuredOrig(slot, orig) == orig \/ slot = "stock"
EnsureHolds(slot, orig) == slot = "stock" \/ (slot = "guard" /\ orig)

(* kCompanionCharacteristicProfiles: what ble-protocol.md lets each        *)
(* attribute do, and which one is open to a link without a bond.           *)
Profiles == [DeviceInfo            |-> [flags |-> {"read"}, open |-> TRUE],
             Config                |-> [flags |-> {"read", "write"}, open |-> FALSE],
             ConfigStatus          |-> [flags |-> {"read", "notify"}, open |-> FALSE],
             LiveSignals           |-> [flags |-> {"notify"}, open |-> FALSE],
             Command               |-> [flags |-> {"write"}, open |-> FALSE],
             SignalCatalog         |-> [flags |-> {"read", "write"}, open |-> FALSE],
             ExtensibleLiveSignals |-> [flags |-> {"notify"}, open |-> FALSE],
             OutputCatalog         |-> [flags |-> {"read", "write"}, open |-> FALSE]]

(* The definition each characteristic's source file hands to registration. *)
Defined(name, flags, open) == [attribute |-> name, flags |-> flags, open |-> open]
device_info_characteristic == Defined("DeviceInfo", {"read"}, TRUE)
config_characteristic == Defined("Config", {"read", "write"}, FALSE)
config_status_characteristic == Defined("ConfigStatus", {"read", "notify"}, FALSE)
command_characteristic == Defined("Command", {"write"}, FALSE)
live_signals_characteristic == Defined("LiveSignals", {"notify"}, FALSE)
signal_catalog_characteristic == Defined("SignalCatalog", {"read", "write"}, FALSE)
extensible_live_signals_characteristic == Defined("ExtensibleLiveSignals", {"notify"}, FALSE)
output_catalog_characteristic == Defined("OutputCatalog", {"read", "write"}, FALSE)

(* register_services' two tables: without the config ports the device      *)
(* serves no configuration.                                                *)
ServiceTable(configTransfer) ==
  <<device_info_characteristic>>
    \o (IF configTransfer
        THEN <<config_characteristic, config_status_characteristic, command_characteristic>>
        ELSE <<>>)
    \o <<live_signals_characteristic, signal_catalog_characteristic,
         extensible_live_signals_characteristic, output_catalog_characteristic>>

(* nimble_characteristic: a protected definition is reached through        *)
(* guarded_access, and its subscriptions ask the authorize callback.       *)
Registered(definition) ==
  [attribute |-> definition.attribute, guarded |-> ~definition.open,
   authorized |-> ~definition.open /\ "notify" \in definition.flags]

kCompanionCharacteristicCount == 8

(* register_companion_service: the attributes served, or none when a       *)
(* definition repeats an attribute or departs from its profile.            *)
RegisterService(definitions) ==
  IF /\ Len(definitions) \in 1 .. kCompanionCharacteristicCount
     /\ \A i, j \in DOMAIN definitions :
          definitions[i].attribute = definitions[j].attribute => i = j
     /\ \A i \in DOMAIN definitions :
          /\ definitions[i].attribute \in DOMAIN Profiles
          /\ definitions[i].flags = Profiles[definitions[i].attribute].flags
          /\ definitions[i].open = Profiles[definitions[i].attribute].open
  THEN {Registered(definitions[i]) : i \in DOMAIN definitions}
  ELSE {}
=============================================================================
