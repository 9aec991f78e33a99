--------------------------- MODULE MCDapTransfer ---------------------------
(* TLC instances of DapTransfer: two operations, so that flags, results and *)
(* transactions the first leaves behind meet the second.                    *)
EXTENDS DapTransfer

Both == {"block", "register"}
=============================================================================
