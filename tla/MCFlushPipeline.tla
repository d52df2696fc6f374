-------------------------- MODULE MCFlushPipeline --------------------------
(* Model-checking instances of FlushPipeline. *)
EXTENDS FlushPipeline

CONSTANTS b1, b2, p1, p2, p3
=============================================================================
