---------------------------- MODULE MCEngineRules ----------------------------
(* The rules of EngineRules on one signal, through the channel's two slots. *)
EXTENDS EngineRules

CONSTANTS mid, high

MCLevelOf(r) == IF r = high THEN "max" ELSE "min"

=============================================================================
