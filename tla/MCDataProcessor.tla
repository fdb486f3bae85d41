--------------------------- MODULE MCDataProcessor ---------------------------
(* Two queues with two threads each, one pusher, two items.                *)
EXTENDS DataProcessor
=============================================================================
