-------------------------- MODULE MCLightingRuntime --------------------------
(* LightingRuntime for TLC: publishers are interchangeable model values.    *)
EXTENDS LightingRuntime, TLC

PublisherSymmetry == Permutations(Publishers)

=============================================================================
