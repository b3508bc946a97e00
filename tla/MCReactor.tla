----------------------------- MODULE MCReactor -----------------------------
(***************************************************************************)
(* Reactor.tla on a small instance.  No symmetry: it is unsound for the    *)
(* liveness properties this run checks beside the invariants.              *)
(***************************************************************************)
EXTENDS Reactor
=============================================================================
