------------------------------- MODULE MCRows --------------------------------
(* Instance of rows that several processes write and that no lock guards,   *)
(* for TLC: the score, a deleted order, a buyer's access, a client's access *)
(* and its copies, the memory of patterns. They meet in no variable of      *)
(* these modules, so a behaviour follows one of them, chosen at the start,  *)
(* and the others rest.                                                     *)
EXTENDS TLC, ScoreCopies, DeletedTrade, Purchase, ClientAccess, PatternMemory

CONSTANTS h1, h2, t1, t2

TwoHandlers == {h1, h2}
OneOperator == {1}
TwoTraders == {t1, t2}
HandlerSymmetry == Permutations(TwoHandlers)

VARIABLE focus

vars == <<focus, scoreVars, tradeVars, buyVars, accessVars, memoryVars>>

Count(A) == focus = "score" /\ A /\ UNCHANGED <<focus, tradeVars, buyVars, accessVars,
                                       memoryVars>>
Trade(A) == focus = "trade" /\ A /\ UNCHANGED <<focus, scoreVars, buyVars, accessVars,
                                       memoryVars>>
Buy(A) == focus = "purchase" /\ A /\ UNCHANGED <<focus, scoreVars, tradeVars, accessVars,
                                        memoryVars>>
Access(A) == focus = "access" /\ A /\ UNCHANGED <<focus, scoreVars, tradeVars, buyVars,
                                       memoryVars>>
Memory(A) == focus = "memory" /\ A /\ UNCHANGED <<focus, scoreVars, tradeVars, buyVars,
                                       accessVars>>

Init ==
    /\ ScoreInit /\ TradeInit /\ BuyInit /\ AccessInit /\ MemoryInit
    /\ focus \in {"score", "trade", "purchase", "access", "memory"}
    /\ focus # "purchase" => newcomer
    /\ focus # "access" => key = "auth" /\ row = NoRow

Next == Count(ScoreNext) \/ Trade(TradeNext) \/ Buy(BuyNext) \/ Access(AccessNext)
        \/ Memory(MemoryNext)

Spec == Init /\ [][Next]_vars

\* Every part keeps its types.
RowsTypeOK == ScoreTypeOK /\ TradeTypeOK /\ BuyTypeOK /\ AccessTypeOK
              /\ MemoryTypeOK
=============================================================================
