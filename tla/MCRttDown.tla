----------------------------- MODULE MCRttDown -----------------------------
(* TLC instances of RttDown: input longer than the buffer's usable bytes.   *)
EXTENDS RttDown

MCTypeLens == {1, 2, 4}
=============================================================================
