--------------------------- MODULE ConfigSelection ---------------------------
(***************************************************************************)
(* What ConfigStoreBackend promises of the selected configuration: a       *)
(* register whose value an operation replaces at once or not at all.       *)
(*                                                                         *)
(* An operation may switch the register to the wanted value and back while *)
(* it runs, and a crash may end it after any of these steps; nothing else  *)
(* moves the register. ConfigStore implements it by two slots, a marker    *)
(* and a sequence of NVS calls, and ConfigUpdate under a client, timers,   *)
(* restarts and boots.                                                     *)
(***************************************************************************)
CONSTANTS
    Documents,   \* the documents that can be selected
    Default      \* what is selected without an override

VARIABLES
    selected,    \* the configuration that the next boot applies
    phase,       \* "idle" or "busy"
    wanted,      \* the value of the last operation
    prior,       \* the value selected when it began
    answer       \* how it ended

selectionVars == <<selected, phase, wanted, prior, answer>>

Init ==
    /\ selected = Default /\ wanted = Default /\ prior = Default
    /\ phase = "idle" /\ answer = "none"

\* write_override or clear_override is called.
Begin(value) ==
    /\ phase = "idle"
    /\ phase' = "busy" /\ answer' = "none"
    /\ wanted' = value /\ prior' = selected
    /\ UNCHANGED selected

Switch ==
    /\ phase = "busy"
    /\ selected' \in {prior, wanted}
    /\ UNCHANGED <<phase, wanted, prior, answer>>

Succeed ==
    /\ phase = "busy" /\ selected = wanted
    /\ phase' = "idle" /\ answer' = "done"
    /\ UNCHANGED <<selected, wanted, prior>>

\* A failure does not say which of the two values it left.
Fail ==
    /\ phase = "busy"
    /\ phase' = "idle" /\ answer' = "failed"
    /\ selected' \in {prior, wanted}
    /\ UNCHANGED <<wanted, prior>>

\* The operation is forgotten; what it made of the register stays.
Crash ==
    /\ phase' = "idle" /\ answer' = "none"
    /\ wanted' = Default /\ prior' = Default
    /\ UNCHANGED selected

Next ==
    \/ \E value \in Documents \cup {Default} : Begin(value)
    \/ Switch \/ Succeed \/ Fail \/ Crash

Spec == Init /\ [][Next]_selectionVars

=============================================================================
