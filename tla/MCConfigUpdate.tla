--------------------------- MODULE MCConfigUpdate ---------------------------
(* ConfigUpdate for TLC: uploads of one or two blocks.                      *)
EXTENDS ConfigUpdate

\* <<"y">> does not parse, <<"x">> does not apply, <<"y", "y">> serializes to
\* more than the store holds, and two uploads share one canonical document.
MCParses == Contents \ {<<"y">>}
MCAppliable == [1..2 -> Blocks]
MCCanonical(content) ==
    CASE content = <<"x">> -> "refused"
      [] content = <<"y", "y">> -> "large"
      [] content = <<"y", "x">> -> "doc2"
      [] OTHER -> "doc1"

=============================================================================
