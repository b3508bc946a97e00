------------------------- MODULE MCFineGrainedQueue -------------------------
(* FineGrainedQueue.tla on a small instance.                               *)
EXTENDS FineGrainedQueue
=============================================================================
