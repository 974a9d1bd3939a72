--------------------------- MODULE MCElasticQueue ---------------------------
(* ElasticQueue with a few distinct messages; the sizes are in the cfgs. *)
EXTENDS ElasticQueueMetrics

CONSTANTS v1, v2, v3, v4

MCValues == {v1, v2, v3, v4}
=============================================================================
