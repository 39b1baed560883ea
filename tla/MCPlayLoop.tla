----------------------------- MODULE MCPlayLoop -----------------------------
(* TLC instances of PlayLoop: which items do not play or need a resolver,  *)
(* and the controls each configuration exercises.                          *)
EXTENDS PlayLoop

NoItems     == {}
FirstItem   == {1}
SecondItem  == {2}
LaterItems  == {2, 3}
OddItems    == {1, 3}
AllItems    == Items
AllControls == {"play", "stop", "skip", "clear", "mode"}
OnlyStop    == {"stop"}
OnlyClear   == {"clear"}
OnlyPlay    == {"play"}
OnlySkip    == {"skip"}
OnlyMode    == {"mode"}
=============================================================================
