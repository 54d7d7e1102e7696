--------------------------- MODULE MCQueryRunner ---------------------------
(***************************************************************************)
(* One query of each collection mode; the recurring aggregated one and the  *)
(* unaggregated one tell the two ways to the pending buffer apart.          *)
(***************************************************************************)
EXTENDS QueryRunner

MCKey == [n \in Watched |-> n]

OnChange == [mode |-> "onChange", aggregated |-> FALSE]

MCQueries == {OnChange,
              [mode |-> "interval", aggregated |-> TRUE],
              [mode |-> "once", aggregated |-> TRUE]}

OnlyOnChange == {OnChange}
=============================================================================
