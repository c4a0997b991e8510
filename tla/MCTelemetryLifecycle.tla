------------------------ MODULE MCTelemetryLifecycle ------------------------
(* Two channels of two slots; the engine's rules use both, one of them     *)
(* twice.  Which configuration is set does not matter, only whether its    *)
(* copies agree.                                                           *)
EXTENDS TelemetryLifecycle

MCRuleSignals == <<"turn", "brake", "turn">>
MCSymmetry == Permutations(Configs)
=============================================================================
