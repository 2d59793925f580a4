--------------------------- MODULE MCScoreCounter ---------------------------
(* Instance of ScoreCounter for TLC: one process, or gateway and runtime.   *)
EXTENDS ScoreCounter

CONSTANTS o1, o2, gateway, runtime

TwoOrders == {o1, o2}
OneOrder == {o1}
OneProcess == {runtime}
TwoProcesses == {gateway, runtime}

AnyKind == Kind
JustCounted == {"counted"}
ResetUnsure == {"reiniciar"}
CountedAndLegs == {"counted", "leg"}
Nothing == {}
=============================================================================
