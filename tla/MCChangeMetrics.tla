--------------------------- MODULE MCChangeMetrics ---------------------------
(* The metrics of one KnativeServing.                                        *)
EXTENDS MetricsInvariant

CONSTANTS k1

OneKey == {k1}
NoKeys == {}
=============================================================================
