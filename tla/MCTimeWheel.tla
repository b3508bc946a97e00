---------------------------- MODULE MCTimeWheel ----------------------------
(* TimeWheel.tla on a small instance.                                      *)
EXTENDS TimeWheel
=============================================================================
