------------------------------ MODULE MCBuffer ------------------------------
(* Buffer.tla on a small instance.                                         *)
EXTENDS Buffer

CONSTANTS a, b

MCByte == {Zero, a, b}

\* Every string of at most two bytes a program may write, and two of three.
MCStrings ==
  UNION {[1..n -> {a, b}] : n \in 0..2} \cup {<<a, b, b>>, <<b, a, a>>}
=============================================================================
