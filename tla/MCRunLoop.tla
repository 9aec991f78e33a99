----------------------------- MODULE MCRunLoop -----------------------------
(* The run loop: each setup varies one thing. *)
EXTENDS RunLoop
MCTests == <<"t1", "t2">>
Of(arch, mode, format, symbol, catching) ==
  [arch |-> arch, mode |-> mode, format |-> format, wide |-> {}, symbol |-> symbol, catching |-> catching]
MCSetups == {
  [Of("xt", "normal", "string", TRUE, FALSE) EXCEPT !.wide = {1}],
  Of("xt", "normal", "defmt", TRUE, FALSE), Of("xt", "test", "string", FALSE, TRUE),
  Of("cm", "test", "defmt", TRUE, TRUE), Of("rv", "test", "string", FALSE, TRUE),
  Of("cm", "normal", "string", TRUE, TRUE), Of("rv", "normal", "defmt", TRUE, FALSE)}
=============================================================================
