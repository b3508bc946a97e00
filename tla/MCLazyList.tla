----------------------------- MODULE MCLazyList -----------------------------
(* Two threads and two buckets, one of them with two keys.                 *)
EXTENDS LazyList
MCKeys == {1, 2, 3}
=============================================================================
