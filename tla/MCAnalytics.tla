------------------------------ MODULE MCAnalytics ------------------------------
(* Two calls over Streamable HTTP and over SSE record four events for a queue of  *)
(* two: it can overflow, and two batches follow each other.                       *)
EXTENDS Lifespan

CONSTANTS c1, c2
================================================================================
