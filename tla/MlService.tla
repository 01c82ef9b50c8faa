------------------------------ MODULE MlService ------------------------------
(***************************************************************************)
(* The lifecycle ML service trains a model whenever a batch of trades has  *)
(* been closed since the last one, and registers it in model_registry,     *)
(* active when it beats the model that is active.  The trading process     *)
(* looks for the active model now and then and falls back to the bandit    *)
(* when there is none.  Activation is two writes, each committed alone: an *)
(* exception or a kill between them ends the service with no active model. *)
(***************************************************************************)
EXTENDS Integers, Sequences

CONSTANTS ClosedPerBatch,   \* MLConfig.train_batch_size
          MinClosedTrades,  \* MLConfig.min_closed_trades_to_train
          MaxScore,         \* bound: quality scores are 0..MaxScore
          MaxClosedTrades,  \* bound: rows of outcomes
          MaxServiceStarts  \* bound: restarts of the service

ASSUME MlServiceAssumption ==
    /\ ClosedPerBatch \in Nat \ {0} /\ MinClosedTrades \in Nat
    /\ MaxScore \in Nat /\ MaxClosedTrades \in Nat /\ MaxServiceStarts \in Nat

VARIABLES
    closedTrades,  \* rows of outcomes
    registry,      \* model_registry in order of rowid: [score, isActive]
    serviceAt,     \* "down", "waiting", "trained", "cleared"
    lastTrained,   \* last_train_closed_count
    newScore,      \* quality_score of the model in hand
    closedNow,     \* closed_now, read before the training
    policyModel,   \* the trading process: position in registry, 0 for the bandit
    serviceStarts,
    bestUsed,      \* history: the best score the trading process ever used
    cutShort       \* history: an activation ended between its two writes

serviceState == <<serviceAt, lastTrained, newScore, closedNow, serviceStarts, cutShort>>
mlVars == <<closedTrades, registry, serviceState, policyModel, bestUsed>>

MlServiceTypeOK ==
    /\ closedTrades \in 0..MaxClosedTrades
    /\ registry \in Seq([score : 0..MaxScore, isActive : BOOLEAN])
    /\ serviceAt \in {"down", "waiting", "trained", "cleared"}
    /\ lastTrained \in 0..closedTrades /\ closedNow \in 0..closedTrades
    /\ newScore \in 0..MaxScore
    /\ policyModel \in 0..Len(registry)
    /\ serviceStarts \in 0..MaxServiceStarts
    /\ bestUsed \in 0..MaxScore /\ cutShort \in BOOLEAN

MlInit ==
    /\ closedTrades = 0 /\ registry = <<>> /\ serviceAt = "waiting"
    /\ lastTrained = 0 /\ newScore = 0 /\ closedNow = 0 /\ policyModel = 0
    /\ serviceStarts = 0 /\ bestUsed = 0 /\ cutShort = FALSE

ActiveModels == {i \in DOMAIN registry : registry[i].isActive}
(* get_active_model: the first active row, 0 for none.                     *)
ActiveModel == IF ActiveModels = {} THEN 0
               ELSE CHOOSE i \in ActiveModels : \A j \in ActiveModels : i <= j

-----------------------------------------------------------------------------
(* The trading process closes a trade and writes its outcome.              *)
TradeCloses ==
    /\ closedTrades < MaxClosedTrades
    /\ closedTrades' = closedTrades + 1
    /\ UNCHANGED <<registry, serviceState, policyModel, bestUsed>>

(* can_train, while the pause flag is not there; a training that ends with *)
(* too few rows changes nothing.                                           *)
CanTrain ==
    /\ closedTrades >= MinClosedTrades
    /\ closedTrades - lastTrained >= ClosedPerBatch

\* Mutant: any new model beats the active one.
AlwaysBetter(score) == TRUE
(* is_better_than_current.                                                 *)
Better(score) == ActiveModel # 0 => score > registry[ActiveModel].score

(* train_lifecycle_models: the model file is written and closed first.     *)
TrainModel(score) ==
    /\ serviceAt = "waiting" /\ CanTrain
    /\ newScore' = score /\ closedNow' = closedTrades
    /\ serviceAt' = "trained"
    /\ UNCHANGED <<closedTrades, registry, lastTrained, policyModel, serviceStarts, bestUsed, cutShort>>

AllInactive == [i \in DOMAIN registry |-> [registry[i] EXCEPT !.isActive = FALSE]]

(* upsert_model_registry, first write: only for a model that is activated. *)
Deactivate ==
    /\ serviceAt = "trained" /\ Better(newScore)
    /\ registry' = AllInactive
    /\ serviceAt' = "cleared"
    /\ UNCHANGED <<closedTrades, lastTrained, newScore, closedNow, policyModel, serviceStarts, bestUsed, cutShort>>

(* The row, in a second write, and the count for the next batch.           *)
Register(active) ==
    /\ \/ active /\ serviceAt = "cleared"
       \/ ~active /\ serviceAt = "trained" /\ ~Better(newScore)
    /\ registry' = Append(registry, [score |-> newScore, isActive |-> active])
    /\ lastTrained' = closedNow
    /\ serviceAt' = "waiting"
    /\ UNCHANGED <<closedTrades, newScore, closedNow, policyModel, serviceStarts, bestUsed, cutShort>>

(* A locked database after the retries, any other exception, or a kill.    *)
ServiceEnds ==
    /\ serviceAt # "down"
    /\ cutShort' = (cutShort \/ serviceAt = "cleared")
    /\ serviceAt' = "down"
    /\ UNCHANGED <<closedTrades, registry, lastTrained, newScore, closedNow, policyModel, serviceStarts, bestUsed>>

ServiceStarts ==
    /\ serviceAt = "down" /\ serviceStarts < MaxServiceStarts
    /\ serviceAt' = "waiting"
    /\ lastTrained' = 0
    /\ serviceStarts' = serviceStarts + 1
    /\ UNCHANGED <<closedTrades, registry, newScore, closedNow, policyModel, bestUsed, cutShort>>

(* _maybe_refresh_policy_model; a file that cannot be loaded leaves the    *)
(* model in use as it is.                                                  *)
RefreshPolicyModel ==
    /\ policyModel # ActiveModel
    /\ policyModel' = ActiveModel
    /\ bestUsed' = IF ActiveModel # 0 /\ registry[ActiveModel].score > bestUsed
                   THEN registry[ActiveModel].score ELSE bestUsed
    /\ UNCHANGED <<closedTrades, registry, serviceState>>

MlNext ==
    \/ TradeCloses \/ Deactivate \/ ServiceEnds \/ ServiceStarts \/ RefreshPolicyModel
    \/ \E score \in 0..MaxScore : TrainModel(score)
    \/ \E active \in BOOLEAN : Register(active)

MlSpec == MlInit /\ [][MlNext]_mlVars

(* Outside of an activation the active model is the best one registered,   *)
(* as long as no activation was cut short: after that the next model is    *)
(* activated whatever its score.                                           *)
BestIsActive ==
    serviceAt = "waiting" /\ ~cutShort /\ registry # <<>> =>
        /\ ActiveModel # 0
        /\ \A i \in DOMAIN registry : registry[i].score <= registry[ActiveModel].score

(* The trading process never goes back to a model that is worse than one   *)
(* it used, however its reads fall between the two writes.                 *)
TraderNeverWorse ==
    policyModel # 0 /\ ~cutShort => registry[policyModel].score = bestUsed

(* Both: what is registered, and what is used to choose a profile.         *)
BestModelIsUsed == BestIsActive /\ TraderNeverWorse
=============================================================================
