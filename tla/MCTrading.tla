------------------------------ MODULE MCTrading ------------------------------
(***************************************************************************)
(* Runs the modules of the trading side: each behaviour takes the steps of *)
(* one of them.  They share the tables of data/botik.db but no state a     *)
(* property of two of them is about, so one run checks them side by side.  *)
(***************************************************************************)
EXTENDS FuturesPaper, SpotPaper, SpotPortfolio, ExecutionWindow,
        OrderReconciliation, OperatorControl, HoldPolicy

VARIABLE part   \* the module whose steps this behaviour takes

parts == {"futures paper", "spot paper", "portfolio", "executions", "orders", "operator", "holdings"}
tradingVars == <<part, futuresPaperVars, spotPaperVars, portfolioVars, windowVars, reconciliationVars, controlVars, holdVars>>

TradingInit ==
    /\ part \in parts
    /\ FuturesPaperInit
    /\ SpotPaperInit
    /\ PortfolioInit
    /\ ExecutionWindowInit
    /\ OrderReconciliationInit
    /\ ControlInit
    /\ HoldPolicyInit
    \* what a part that takes no steps starts from is fixed
    /\ part # "operator" => ~paused /\ ~working
    /\ part # "holdings" => theirs = 0

TradingNext ==
    \/ part = "futures paper" /\ FuturesPaperNext
       /\ UNCHANGED <<part, spotPaperVars, portfolioVars, windowVars, reconciliationVars, controlVars, holdVars>>
    \/ part = "spot paper" /\ SpotPaperNext
       /\ UNCHANGED <<part, futuresPaperVars, portfolioVars, windowVars, reconciliationVars, controlVars, holdVars>>
    \/ part = "portfolio" /\ PortfolioNext
       /\ UNCHANGED <<part, futuresPaperVars, spotPaperVars, windowVars, reconciliationVars, controlVars, holdVars>>
    \/ part = "executions" /\ ExecutionWindowNext
       /\ UNCHANGED <<part, futuresPaperVars, spotPaperVars, portfolioVars, reconciliationVars, controlVars, holdVars>>
    \/ part = "orders" /\ OrderReconciliationNext
       /\ UNCHANGED <<part, futuresPaperVars, spotPaperVars, portfolioVars, windowVars, controlVars, holdVars>>
    \/ part = "operator" /\ ControlNext
       /\ UNCHANGED <<part, futuresPaperVars, spotPaperVars, portfolioVars, windowVars, reconciliationVars, holdVars>>
    \/ part = "holdings" /\ HoldPolicyNext
       /\ UNCHANGED <<part, futuresPaperVars, spotPaperVars, portfolioVars, windowVars, reconciliationVars, controlVars>>

TradingSpec == TradingInit /\ [][TradingNext]_tradingVars

(* Every module's state has its type through all of its steps.             *)
TradingTypeOK ==
    /\ FuturesPaperTypeOK
    /\ SpotPaperTypeOK
    /\ PortfolioTypeOK
    /\ ExecutionWindowTypeOK
    /\ OrderReconciliationTypeOK
    /\ ControlTypeOK
    /\ HoldPolicyTypeOK
=============================================================================
