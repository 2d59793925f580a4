------------------------------ MODULE MCBroker ------------------------------
(* Instance of the broker side for TLC. Its six parts share no state at     *)
(* this grain (the session's lock, its client object and the gate belong to *)
(* one operation at a time), so a behaviour follows one of them, chosen at  *)
(* the start, and the others rest.                                          *)
EXTENDS BrokerSession, BuyOrder, OrderResult, CallGate, EntryCycle,
        EntryGates

CONSTANTS u1, u2, u3,
          Parts     \* of {"session", "buy", "result", "gate", "entry", "verdict"}

FourClients == 1..4
TwoAccounts == {u1, u2}
FourCandidates == 1..4
NoCandidate == {}
TwoOrders == {1, 2}
ThreeUsers == {u1, u2, u3}
OneUser == {u1}
AllParts == {"session", "buy", "result", "gate", "entry", "verdict"}
JustBuy == {"buy"}

VARIABLE focus

vars == <<focus, sessVars, buyVars, resultVars, gateVars, entryVars,
          gatesVars>>

Session(A) ==
    /\ focus = "session" /\ A
    /\ UNCHANGED <<focus, buyVars, resultVars, gateVars, entryVars,
                  gatesVars>>
Buy(A) ==
    /\ focus = "buy" /\ A
    /\ UNCHANGED <<focus, sessVars, resultVars, gateVars, entryVars,
                  gatesVars>>
Results(A) ==
    /\ focus = "result" /\ A
    /\ UNCHANGED <<focus, sessVars, buyVars, gateVars, entryVars,
                  gatesVars>>
Gate(A) ==
    /\ focus = "gate" /\ A
    /\ UNCHANGED <<focus, sessVars, buyVars, resultVars, entryVars,
                  gatesVars>>
Entry(A) ==
    /\ focus = "entry" /\ A
    /\ UNCHANGED <<focus, sessVars, buyVars, resultVars, gateVars,
                  gatesVars>>
Verdicts(A) ==
    /\ focus = "verdict" /\ A
    /\ UNCHANGED <<focus, sessVars, buyVars, resultVars, gateVars, entryVars>>

Init == /\ SessInit /\ BuyInit /\ ResultInit /\ GateInit
        /\ EntryInit /\ GatesInit
        /\ focus \in Parts
        /\ asksCode => focus = "session"
        /\ live => focus = "verdict"

Next == Session(SessNext) \/ Buy(BuyNext) \/ Results(ResultNext)
        \/ Gate(GateNext) \/ Entry(EntryNext)
        \/ Verdicts(GatesNext)

Fairness ==
    /\ WF_vars(Session(CallEnds))
    /\ WF_vars(Session(TimePasses(BackoffExpires)))
    /\ WF_vars(Session(TimePasses(StatusExpires)))
    /\ WF_vars(Session(TimePasses(CooldownExpires)))
    /\ WF_vars(Session(\E c \in Client : RestoreByPoll(c)))
    /\ WF_vars(Session(\E c \in Client : ReconnectDead(c)))
    /\ \A o \in Order : /\ WF_vars(Results(LookupFallsDue(o)))
                        /\ WF_vars(Results(ReadHeld(o)))
                        /\ WF_vars(Results(LookUp(o)))
    /\ WF_vars(Results(\E inherits \in BOOLEAN : SessionReturns(inherits)))

Spec == Init /\ [][Next]_vars /\ Fairness

\* Every part keeps its types.
BrokerTypeOK == SessTypeOK /\ BuyTypeOK /\ ResultTypeOK /\ GateTypeOK
                /\ EntryTypeOK /\ GatesTypeOK
=============================================================================
