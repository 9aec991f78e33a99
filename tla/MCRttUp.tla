------------------------------ MODULE MCRttUp ------------------------------
(* TLC instances of RttUp: two usable bytes of buffer, so that messages     *)
(* and reads wrap, fill and empty it.                                       *)
EXTENDS RttUp

MCBufLens == {1, 3}
MCMsgLens == {1, 3}
=============================================================================
