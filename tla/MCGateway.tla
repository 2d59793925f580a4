------------------------------ MODULE MCGateway ------------------------------
(* Instance of what the gateway decides with other processes, for TLC: the  *)
(* broker account with the runtime, the robot's switch, the money plan, and *)
(* the messages it leaves to the Celery workers. They meet in no variable   *)
(* of these modules, so a behaviour follows one of them, chosen at the      *)
(* start, and the others rest.                                              *)
EXTENDS AccountLink, RobotSwitch, Masaniello, Delivery

CONSTANT Parts     \* of AllParts

AllParts == {"link", "switch", "money", "message"}
JustMoney == {"money"}
TwoOrders == {1, 2}
TwoSettings == {1, 2}

VARIABLE focus

vars == <<focus, linkVars, switchVars, planVars, sendVars>>

Link(A) == focus = "link" /\ A /\ UNCHANGED <<focus, switchVars, planVars, sendVars>>
Switch(A) == focus = "switch" /\ A /\ UNCHANGED <<focus, linkVars, planVars, sendVars>>
Money(A) == focus = "money" /\ A /\ UNCHANGED <<focus, linkVars, switchVars, sendVars>>
Send(A) == focus = "message" /\ A /\ UNCHANGED <<focus, linkVars, switchVars, planVars>>

Init ==
    /\ LinkInit /\ SwitchInit /\ MoneyInit /\ SendInit
    /\ focus \in Parts
    /\ focus # "message" => channel = "mail"

Next == Link(LinkNext) \/ Switch(SwitchNext) \/ Money(MoneyNext) \/ Send(SendNext)

Fairness ==
    /\ WF_vars(Switch(RuntimeSteps))
    /\ WF_vars(Switch(StartPublished))
    /\ \A s \in Side : WF_vars(Switch(RowWritten(s)))
    /\ WF_vars(Send(Queueing))
    /\ \A h \in Hand : WF_vars(Send(Attempt(h)))

Spec == Init /\ [][Next]_vars /\ Fairness

\* Every part keeps its types.
GatewayTypeOK == LinkTypeOK /\ SwitchTypeOK /\ MoneyTypeOK /\ SendTypeOK
=============================================================================
