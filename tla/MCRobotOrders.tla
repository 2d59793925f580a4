--------------------------- MODULE MCRobotOrders ----------------------------
(* Instance of RobotOrders for TLC: small sets of orders, their symmetry,   *)
(* and the sets of disturbances of each run.                                *)
EXTENDS RobotOrders, TLC

CONSTANTS o1, o2, o3, o4

TwoOrders == {o1, o2}
ThreeOrders == {o1, o2, o3}
FourOrders == {o1, o2, o3, o4}

OrderSymmetry == Permutations(Order)

AllEvents == DisturbanceSet
LocalEvents == {"refused", "insufficient", "expired", "invalid", "cycle_error", "locked"}
NoEvents == {}
TimeoutOnly == {"timeout"}
ExpiredOnly == {"expired"}
StopOnly == {"stop"}
ClosedLegEvents ==
    {"stop", "stale", "timeout", "cycle_timeout", "cycle_error", "locked"}
=============================================================================
