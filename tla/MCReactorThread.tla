--------------------------- MODULE MCReactorThread ---------------------------
(* ReactorThread.tla on a small instance.                                  *)
EXTENDS ReactorThread
=============================================================================
