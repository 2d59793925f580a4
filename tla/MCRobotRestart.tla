--------------------------- MODULE MCRobotRestart ---------------------------
(* Instance of RobotRestart for TLC.                                        *)
EXTENDS RobotRestart

CONSTANTS o1, o2

TwoOrders == {o1, o2}

\* The broker's answers: a draw changes nothing a restart restores.
DecidedAnswers == {"WIN", "LOSS", "gone"}
=============================================================================
