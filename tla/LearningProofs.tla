---------------------------- MODULE LearningProofs ----------------------------
(***************************************************************************)
(* Proofs about what the trading processes learn from and decide with: the *)
(* registry of trained models, the files models are deployed to, and the   *)
(* history of candles.                                                     *)
(***************************************************************************)
EXTENDS MlService, ModelDeploy, CandleStore, FiniteSetFacts, TLAPS

-----------------------------------------------------------------------------
(* MlService.  No more than one model is active at any time.  Unless an    *)
(* activation was cut short, it is the best one outside of activations;    *)
(* inside, none is, and the model in hand beats all there are.             *)
Model == [score : 0..MaxScore, isActive : BOOLEAN]

OnlyActive(i) == i \in DOMAIN registry /\ ActiveModels = {i}
Best(i) == i \in DOMAIN registry /\ \A j \in DOMAIN registry : registry[j].score <= registry[i].score

RegistryTypes ==
    /\ registry \in Seq(Model) /\ newScore \in 0..MaxScore
    /\ policyModel \in 0..Len(registry) /\ bestUsed \in 0..MaxScore
    /\ serviceAt \in {"down", "waiting", "trained", "cleared"} /\ cutShort \in BOOLEAN

ActiveInv ==
    /\ ActiveModels = {} \/ \E i \in DOMAIN registry : OnlyActive(i)
    /\ serviceAt = "cleared" => ActiveModels = {}
    /\ ~cutShort /\ serviceAt # "cleared" /\ registry # <<>> =>
          \E i \in DOMAIN registry : OnlyActive(i) /\ Best(i)
    /\ ~cutShort /\ serviceAt = "cleared" =>
          \A j \in DOMAIN registry : registry[j].score < newScore

UsedInv ==
    ~cutShort => /\ bestUsed = 0 \/ \E i \in DOMAIN registry : registry[i].score = bestUsed
                 /\ policyModel # 0 => registry[policyModel].score = bestUsed

MlInv == RegistryTypes /\ ActiveInv /\ UsedInv

LEMMA ActiveModelIs ==
    /\ ActiveModels = {} => ActiveModel = 0
    /\ RegistryTypes => \A i \in DOMAIN registry : OnlyActive(i) => ActiveModel = i
<1>1. ActiveModels = {} => ActiveModel = 0 BY DEF ActiveModel
<1>2. ASSUME RegistryTypes, NEW i \in DOMAIN registry, OnlyActive(i) PROVE ActiveModel = i
  <2>1. ActiveModels = {i} /\ i <= i BY <1>2 DEF OnlyActive, RegistryTypes
  <2> QED BY <2>1 DEF ActiveModel
<1> QED BY <1>1, <1>2

(* Changes that leave the registry alone.                                  *)
LEMMA SameRegistry ==
    ASSUME MlInv, UNCHANGED <<registry, policyModel, bestUsed>>,
           newScore' \in 0..MaxScore,
           serviceAt' \in {"down", "waiting", "trained"}, cutShort' \in BOOLEAN,
           ~cutShort' => ~cutShort /\ serviceAt # "cleared"
    PROVE  MlInv'
<1>1. RegistryTypes' BY DEF MlInv, RegistryTypes
<1>2. ActiveModels' = ActiveModels BY DEF ActiveModels
<1>3. \A i : (OnlyActive(i)' <=> OnlyActive(i)) /\ (Best(i)' <=> Best(i))
  BY <1>2 DEF OnlyActive, Best
<1>4. ActiveInv' BY <1>2, <1>3 DEF MlInv, ActiveInv
<1>5. UsedInv' BY DEF MlInv, UsedInv
<1> QED BY <1>1, <1>4, <1>5 DEF MlInv

LEMMA DeactivateStep == ASSUME MlInv, Deactivate PROVE MlInv'
<1>t. RegistryTypes /\ ActiveInv /\ UsedInv BY DEF MlInv
<1>1. /\ registry' = AllInactive /\ serviceAt = "trained" /\ serviceAt' = "cleared"
      /\ Better(newScore) /\ UNCHANGED <<newScore, policyModel, bestUsed, cutShort>>
  BY DEF Deactivate
<1>2. /\ DOMAIN registry' = DOMAIN registry /\ Len(registry') = Len(registry)
      /\ registry' \in Seq(Model)
      /\ \A i \in DOMAIN registry : /\ registry'[i].score = registry[i].score
                                    /\ registry'[i].isActive = FALSE
  <2>1. ASSUME NEW i \in DOMAIN registry
        PROVE  /\ [registry[i] EXCEPT !.isActive = FALSE] \in Model
               /\ [registry[i] EXCEPT !.isActive = FALSE].score = registry[i].score
               /\ [registry[i] EXCEPT !.isActive = FALSE].isActive = FALSE
    <3>1. registry[i] \in Model BY <1>t DEF RegistryTypes
    <3> QED BY <3>1 DEF Model
  <2>2. registry' = [i \in 1..Len(registry) |-> [registry[i] EXCEPT !.isActive = FALSE]]
        /\ DOMAIN registry = 1..Len(registry) /\ Len(registry) \in Nat
    BY <1>1, <1>t DEF AllInactive, RegistryTypes
  <2>3. registry' \in [1..Len(registry) -> Model] BY <2>1, <2>2
  <2>4. registry' \in Seq(Model) /\ Len(registry') = Len(registry) BY <2>2, <2>3
  <2>5. \A i \in DOMAIN registry : registry'[i] = [registry[i] EXCEPT !.isActive = FALSE]
    BY <2>2
  <2>6. DOMAIN registry' = DOMAIN registry BY <2>2
  <2> QED BY <2>1, <2>4, <2>5, <2>6
<1>3. ActiveModels' = {} BY <1>2 DEF ActiveModels
<1>4. ~cutShort => \A j \in DOMAIN registry : registry[j].score < newScore
  <2> SUFFICES ASSUME ~cutShort, NEW j \in DOMAIN registry
               PROVE  registry[j].score < newScore
    OBVIOUS
  <2>1. registry # <<>> OBVIOUS
  <2>2. PICK i \in DOMAIN registry : OnlyActive(i) /\ Best(i)
    BY <1>1, <1>t, <2>1 DEF ActiveInv
  <2>3. ActiveModel = i /\ i # 0 BY <1>t, <2>2, ActiveModelIs DEF RegistryTypes
  <2>4. newScore > registry[i].score BY <1>1, <2>3 DEF Better
  <2>5. registry[j].score <= registry[i].score BY <2>2 DEF Best
  <2>6. registry[j] \in Model /\ registry[i] \in Model BY <1>t DEF RegistryTypes
  <2>7. registry[j].score \in Int /\ registry[i].score \in Int /\ newScore \in Int
    BY <1>t, <2>6, MlServiceAssumption DEF Model, RegistryTypes
  <2> QED BY <2>4, <2>5, <2>7
<1>5. RegistryTypes' BY <1>1, <1>2, <1>t DEF RegistryTypes
<1>6. ActiveInv' BY <1>1, <1>2, <1>3, <1>4 DEF ActiveInv
<1>7. UsedInv'
  <2>1. policyModel # 0 => policyModel \in DOMAIN registry BY <1>t DEF RegistryTypes
  <2> QED BY <1>1, <1>2, <1>t, <2>1 DEF UsedInv
<1> QED BY <1>5, <1>6, <1>7 DEF MlInv

LEMMA RegisterStep == ASSUME MlInv, NEW active \in BOOLEAN, Register(active) PROVE MlInv'
<1>t. RegistryTypes /\ ActiveInv /\ UsedInv BY DEF MlInv
<1> DEFINE m == [score |-> newScore, isActive |-> active]
<1> PICK n \in Nat : n = Len(registry) + 1 BY <1>t DEF RegistryTypes
<1>1. /\ registry' = Append(registry, m) /\ serviceAt' = "waiting"
      /\ UNCHANGED <<newScore, policyModel, bestUsed, cutShort>>
      /\ \/ active /\ serviceAt = "cleared"
         \/ ~active /\ serviceAt = "trained" /\ ~Better(newScore)
  BY DEF Register
<1>2. m \in Model /\ m.score = newScore /\ m.isActive = active
  BY <1>t DEF Model, RegistryTypes
<1> HIDE DEF m
<1>3. /\ registry' \in Seq(Model) /\ Len(registry') = n /\ n \in Nat \ {0}
      /\ DOMAIN registry = 1..Len(registry)
      /\ DOMAIN registry' = (DOMAIN registry) \cup {n} /\ n \notin DOMAIN registry
      /\ \A i \in DOMAIN registry : registry'[i] = registry[i]
      /\ registry'[n] = m
  BY <1>1, <1>2, <1>t DEF RegistryTypes
<1>4. /\ \A i \in DOMAIN registry : registry[i].score \in Int
      /\ newScore \in Int
  <2>1. ASSUME NEW i \in DOMAIN registry PROVE registry[i].score \in Int
    <3>1. registry[i] \in Model BY <1>t DEF RegistryTypes
    <3> QED BY <3>1, MlServiceAssumption DEF Model
  <2> QED BY <1>t, <2>1, MlServiceAssumption DEF RegistryTypes
<1>5. RegistryTypes' BY <1>1, <1>3, <1>t DEF RegistryTypes
<1>6. UsedInv'
  <2>1. policyModel # 0 => policyModel \in DOMAIN registry BY <1>t DEF RegistryTypes
  <2> QED BY <1>1, <1>3, <1>t, <2>1 DEF UsedInv
<1>7. CASE active /\ serviceAt = "cleared"
  <2>1. ActiveModels' = {n}
    <3>1. \A i \in DOMAIN registry : ~registry[i].isActive BY <1>t, <1>7 DEF ActiveInv, ActiveModels
    <3> QED BY <1>2, <1>3, <1>7, <3>1 DEF ActiveModels
  <2>2. OnlyActive(n)' BY <1>3, <2>1 DEF OnlyActive
  <2>3. ~cutShort => Best(n)'
    <3>1. ~cutShort => \A j \in DOMAIN registry : registry[j].score < newScore
      BY <1>t, <1>7 DEF ActiveInv
    <3> QED BY <1>2, <1>3, <1>4, <3>1 DEF Best
  <2>4. ActiveInv' BY <1>1, <1>3, <2>2, <2>3 DEF ActiveInv
  <2> QED BY <1>5, <1>6, <2>4 DEF MlInv
<1>8. CASE ~active /\ serviceAt = "trained" /\ ~Better(newScore)
  <2>1. ActiveModels' = ActiveModels BY <1>2, <1>3, <1>8 DEF ActiveModels
  <2>2. ASSUME NEW i \in DOMAIN registry, OnlyActive(i)
        PROVE  OnlyActive(i)' /\ (Best(i) => Best(i)')
    <3>1. OnlyActive(i)' BY <1>3, <2>1, <2>2 DEF OnlyActive
    <3>2. newScore <= registry[i].score
      <4>1. ActiveModel = i BY <1>t, <2>2, ActiveModelIs
      <4> QED BY <1>4, <1>8, <2>2, <4>1 DEF Better
    <3>3. Best(i) => Best(i)' BY <1>2, <1>3, <3>2 DEF Best
    <3> QED BY <3>1, <3>3
  <2>3. ActiveModels # {}
    <3>1. ActiveModel # 0 BY <1>8 DEF Better
    <3> QED BY <3>1, ActiveModelIs
  <2>4. PICK i \in DOMAIN registry : OnlyActive(i) BY <1>t, <2>3 DEF ActiveInv
  <2>5. ~cutShort => Best(i)
    <3>1. registry # <<>> OBVIOUS
    <3>2. ~cutShort => \E j \in DOMAIN registry : OnlyActive(j) /\ Best(j)
      BY <1>t, <1>8, <3>1 DEF ActiveInv
    <3> QED BY <2>4, <3>2 DEF OnlyActive
  <2>6. ActiveInv' BY <1>1, <1>3, <2>2, <2>4, <2>5 DEF ActiveInv
  <2> QED BY <1>5, <1>6, <2>6 DEF MlInv
<1> QED BY <1>1, <1>7, <1>8

LEMMA RefreshStep == ASSUME MlInv, RefreshPolicyModel PROVE MlInv'
<1>t. RegistryTypes /\ ActiveInv /\ UsedInv BY DEF MlInv
<1>1. /\ policyModel' = ActiveModel
      /\ bestUsed' = IF ActiveModel # 0 /\ registry[ActiveModel].score > bestUsed
                     THEN registry[ActiveModel].score ELSE bestUsed
      /\ UNCHANGED <<registry, serviceAt, newScore, cutShort>>
  BY DEF RefreshPolicyModel, serviceState
<1>2. ActiveInv'
  <2>1. ActiveModels' = ActiveModels BY <1>1 DEF ActiveModels
  <2> QED BY <1>1, <1>t, <2>1 DEF ActiveInv, OnlyActive, Best
<1>3. CASE ActiveModels = {}
  <2>1. policyModel' = 0 /\ bestUsed' = bestUsed BY <1>1, <1>3, ActiveModelIs
  <2>2. RegistryTypes' BY <1>1, <1>t, <2>1 DEF RegistryTypes
  <2>3. UsedInv' BY <1>1, <1>t, <2>1 DEF UsedInv
  <2> QED BY <1>2, <2>2, <2>3 DEF MlInv
<1>4. CASE ActiveModels # {}
  <2>1. PICK i \in DOMAIN registry : OnlyActive(i) BY <1>t, <1>4 DEF ActiveInv
  <2>2. ActiveModel = i /\ i # 0 /\ i \in 1..Len(registry)
    BY <1>t, <2>1, ActiveModelIs DEF RegistryTypes
  <2>3. \A j \in DOMAIN registry : registry[j].score \in 0..MaxScore
    <3>1. ASSUME NEW j \in DOMAIN registry PROVE registry[j].score \in 0..MaxScore
      <4>1. registry[j] \in Model BY <1>t DEF RegistryTypes
      <4> QED BY <4>1 DEF Model
    <3> QED BY <3>1
  <2>4. RegistryTypes' BY <1>1, <1>t, <2>2, <2>3 DEF RegistryTypes
  <2>5. ~cutShort => bestUsed' = registry[i].score
    <3> SUFFICES ASSUME ~cutShort PROVE bestUsed' = registry[i].score
      OBVIOUS
    <3>1. serviceAt # "cleared" /\ registry # <<>> BY <1>t, <1>4 DEF ActiveInv
    <3>2. Best(i)
      <4>1. PICK j \in DOMAIN registry : OnlyActive(j) /\ Best(j) BY <1>t, <3>1 DEF ActiveInv
      <4> QED BY <2>1, <4>1 DEF OnlyActive
    <3>3. bestUsed <= registry[i].score
      <4>1. bestUsed = 0 \/ \E j \in DOMAIN registry : registry[j].score = bestUsed
        BY <1>t DEF UsedInv
      <4> QED BY <2>3, <3>2, <4>1 DEF Best
    <3>4. bestUsed \in Int /\ registry[i].score \in Int
      BY <1>t, <2>3, MlServiceAssumption DEF RegistryTypes
    <3> QED BY <1>1, <2>2, <3>3, <3>4
  <2>6. UsedInv' BY <1>1, <2>2, <2>5 DEF UsedInv
  <2> QED BY <1>2, <2>4, <2>6 DEF MlInv
<1> QED BY <1>3, <1>4

LEMMA NextMl == MlInv /\ [MlNext]_mlVars => MlInv'
<1> SUFFICES ASSUME MlInv, [MlNext]_mlVars PROVE MlInv'
  OBVIOUS
<1>t. RegistryTypes /\ ActiveInv BY DEF MlInv
<1>1. CASE TradeCloses \/ UNCHANGED mlVars
  <2>1. UNCHANGED <<registry, newScore, policyModel, bestUsed, serviceAt, cutShort>>
    BY <1>1 DEF TradeCloses, serviceState, mlVars
  <2>2. ActiveModels' = ActiveModels BY <2>1 DEF ActiveModels
  <2> QED BY <2>1, <2>2 DEF MlInv, RegistryTypes, ActiveInv, UsedInv, OnlyActive, Best
<1>2. ASSUME NEW score \in 0..MaxScore, TrainModel(score) PROVE MlInv'
  BY <1>2, <1>t, SameRegistry DEF TrainModel, RegistryTypes
<1>3. CASE ServiceEnds
  <2>1. /\ UNCHANGED <<registry, policyModel, bestUsed, newScore>> /\ serviceAt' = "down"
        /\ cutShort' = (cutShort \/ serviceAt = "cleared")
    BY <1>3 DEF ServiceEnds
  <2>2. cutShort' \in BOOLEAN BY <2>1
  <2>3. ~cutShort' => ~cutShort /\ serviceAt # "cleared" BY <2>1
  <2>4. newScore' \in 0..MaxScore BY <1>t, <2>1 DEF RegistryTypes
  <2> QED BY <2>1, <2>2, <2>3, <2>4, SameRegistry
<1>4. CASE ServiceStarts
  <2>1. /\ UNCHANGED <<registry, policyModel, bestUsed, newScore, cutShort>>
        /\ serviceAt = "down" /\ serviceAt' = "waiting"
    BY <1>4 DEF ServiceStarts
  <2> QED BY <1>t, <2>1, SameRegistry DEF RegistryTypes
<1> QED
  BY <1>1, <1>2, <1>3, <1>4, DeactivateStep, RegisterStep, RefreshStep DEF MlNext

LEMMA InitMl == MlInit => MlInv
<1> SUFFICES ASSUME MlInit PROVE MlInv
  OBVIOUS
<1>1. /\ registry = <<>> /\ serviceAt = "waiting" /\ newScore = 0 /\ policyModel = 0
      /\ bestUsed = 0 /\ cutShort = FALSE
  BY DEF MlInit
<1>2. ActiveModels = {} /\ registry \in Seq(Model) BY <1>1 DEF ActiveModels
<1>3. RegistryTypes
  <2>1. 0 \in 0..MaxScore BY MlServiceAssumption
  <2>2. cutShort \in BOOLEAN BY <1>1
  <2>3. policyModel \in 0..Len(registry) BY <1>1
  <2> QED BY <1>1, <1>2, <2>1, <2>2, <2>3 DEF RegistryTypes
<1>4. ActiveInv BY <1>1, <1>2 DEF ActiveInv
<1>5. UsedInv BY <1>1 DEF UsedInv
<1> QED BY <1>3, <1>4, <1>5 DEF MlInv

LEMMA MlAlways == MlSpec => []MlInv
  BY InitMl, NextMl, PTL DEF MlSpec

(* What the service counts, it has counted from rows there are.            *)
CountsInv ==
    /\ closedTrades \in 0..MaxClosedTrades
    /\ lastTrained \in 0..closedTrades /\ closedNow \in 0..closedTrades
    /\ serviceStarts \in 0..MaxServiceStarts

LEMMA NextCounts == CountsInv /\ [MlNext]_mlVars => CountsInv'
<1> SUFFICES ASSUME CountsInv, [MlNext]_mlVars PROVE CountsInv'
  OBVIOUS
<1> USE MlServiceAssumption DEF CountsInv
<1>1. CASE TradeCloses BY <1>1 DEF TradeCloses, serviceState
<1>2. CASE Deactivate BY <1>2 DEF Deactivate
<1>3. CASE ServiceEnds BY <1>3 DEF ServiceEnds
<1>4. CASE ServiceStarts BY <1>4 DEF ServiceStarts
<1>5. CASE RefreshPolicyModel BY <1>5 DEF RefreshPolicyModel, serviceState
<1>6. ASSUME NEW score \in 0..MaxScore, TrainModel(score) PROVE CountsInv'
  BY <1>6 DEF TrainModel
<1>7. ASSUME NEW active \in BOOLEAN, Register(active) PROVE CountsInv'
  BY <1>7 DEF Register
<1>8. CASE UNCHANGED mlVars BY <1>8 DEF mlVars, serviceState
<1> QED BY <1>1, <1>2, <1>3, <1>4, <1>5, <1>6, <1>7, <1>8 DEF MlNext

LEMMA MlTypesAlways == MlSpec => []MlServiceTypeOK
<1>1. MlInit => CountsInv BY MlServiceAssumption DEF MlInit, CountsInv
<1>2. MlInv /\ CountsInv => MlServiceTypeOK
  BY DEF MlInv, RegistryTypes, CountsInv, MlServiceTypeOK, Model
<1> QED BY <1>1, <1>2, NextCounts, MlAlways, PTL DEF MlSpec

(* Outside of activations the best model registered is the active one, and *)
(* the trading process never goes back to a worse one than it used, for    *)
(* any number of trainings, restarts and failures that hit no activation.  *)
THEOREM BestModelStaysInUse == MlSpec => []BestModelIsUsed
<1>1. ASSUME MlInv, serviceAt = "waiting", ~cutShort, registry # <<>>
      PROVE  /\ ActiveModel # 0
             /\ \A i \in DOMAIN registry : registry[i].score <= registry[ActiveModel].score
  <2>1. PICK i \in DOMAIN registry : OnlyActive(i) /\ Best(i) BY <1>1 DEF MlInv, ActiveInv
  <2>2. ActiveModel = i /\ i # 0 BY <1>1, <2>1, ActiveModelIs DEF MlInv, RegistryTypes
  <2> QED BY <2>1, <2>2 DEF Best
<1>2. MlInv => TraderNeverWorse BY DEF MlInv, UsedInv, TraderNeverWorse
<1>3. MlInv => BestModelIsUsed BY <1>1, <1>2 DEF BestModelIsUsed, BestIsActive
<1> QED BY <1>3, MlAlways, PTL

-----------------------------------------------------------------------------
(* ModelDeploy.  File names sort by their digits: with two digits at most  *)
(* that is a number of its own, so there is always a last one.             *)
Rank(v) == 11 * Digits(v)[1] + Digits(v)[2] + 1

LEMMA NamesAreRanked ==
    ASSUME NEW v \in 1..99
    PROVE  Rank(v) \in 0..120 /\ Digits(v)[1] \in 0..9 /\ Digits(v)[2] \in -1..9
<1>1. CASE v < 10 BY <1>1 DEF Rank, Digits
<1>2. CASE v >= 10
  <2>1. v \div 10 \in 1..9 /\ v % 10 \in 0..9 BY <1>2
  <2>2. Digits(v)[1] = v \div 10 /\ Digits(v)[2] = v % 10 BY <1>2 DEF Digits
  <2> QED BY <2>1, <2>2 DEF Rank
<1> QED BY <1>1, <1>2

LEMMA RanksSort ==
    ASSUME NEW v \in 1..99, NEW w \in 1..99, v # w, Rank(w) <= Rank(v)
    PROVE  SortsBefore(w, v)
<1> DEFINE a == Digits(v)[1]
           b == Digits(v)[2]
           c == Digits(w)[1]
           d == Digits(w)[2]
<1>1. /\ a \in 0..9 /\ b \in -1..9 /\ c \in 0..9 /\ d \in -1..9
      /\ 11 * c + d + 1 <= 11 * a + b + 1
  BY NamesAreRanked DEF Rank
<1>2. ~(a = c /\ b = d)
  <2>1. /\ v < 10 => v = a /\ b = -1
        /\ v >= 10 => v = 10 * a + b /\ b >= 0
    BY DEF Digits
  <2>2. /\ w < 10 => w = c /\ d = -1
        /\ w >= 10 => w = 10 * c + d /\ d >= 0
    BY DEF Digits
  <2> HIDE DEF a, b, c, d
  <2> QED BY <1>1, <2>1, <2>2
<1>3. c < a \/ (c = a /\ d < b)
  <2> HIDE DEF a, b, c, d
  <2> QED BY <1>1, <1>2
<1> QED BY <1>3 DEF SortsBefore

LEMMA LatestIsOnDisk ==
    ASSUME NEW m \in Models
    PROVE  LatestVersion(m) \in OnDisk(m) \cup {0}
<1>1. CASE OnDisk(m) = {} BY <1>1 DEF LatestVersion
<1>2. CASE OnDisk(m) # {}
  <2> DEFINE S == OnDisk(m)
             T == {Rank(v) : v \in S}
  <2>1. S \subseteq 1..99
    BY ModelDeployAssumption DEF OnDisk, FileVersions
  <2> HIDE DEF S
  <2>2. T \subseteq 0..120 /\ T # {} BY <1>2, <2>1, NamesAreRanked DEF S
  <2>3. PICK x \in T : \A y \in T : y <= x
    <3> HIDE DEF T
    <3>1. 0 \in Int /\ 120 \in Int OBVIOUS
    <3> QED BY <2>2, <3>1, GreatestOfInterval, Zenon
  <2>4. PICK v \in S : x = Rank(v) OBVIOUS
  <2>5. \A w \in S \ {v} : SortsBefore(w, v)
    <3>1. ASSUME NEW w \in S \ {v} PROVE SortsBefore(w, v)
      <4>1. Rank(w) <= Rank(v) BY <2>3, <2>4
      <4> QED BY <2>1, <4>1, RanksSort
    <3> QED BY <3>1
  <2> QED BY <1>2, <2>5 DEF LatestVersion, S
<1> QED BY <1>1, <1>2

Small == \A m \in Models : \A v \in OnDisk(m) : v < 10

LastName(S) == IF S = {} THEN 0 ELSE CHOOSE v \in S : \A w \in S \ {v} : SortsBefore(w, v)

LEMMA NewestSortsLast ==
    ASSUME NEW S, \A w \in S : w \in Nat /\ w < 10, NEW v \in S, \A w \in S : w <= v
    PROVE  LastName(S) = v
<1> DEFINE Last(x) == \A w \in S \ {x} : SortsBefore(w, x)
<1>1. \A w, x \in S : SortsBefore(w, x) <=> w < x
  <2>1. ASSUME NEW w \in S, NEW x \in S PROVE SortsBefore(w, x) <=> w < x
    <3>1. Digits(w) = <<w, -1>> /\ Digits(x) = <<x, -1>> BY DEF Digits
    <3> QED BY <3>1 DEF SortsBefore
  <2> QED BY <2>1
<1>2. Last(v)
  <2>1. ASSUME NEW w \in S \ {v} PROVE SortsBefore(w, v)
    <3>1. w < v OBVIOUS
    <3> QED BY <1>1, <3>1
  <2> QED BY <2>1
<1>3. ASSUME NEW u \in S, Last(u) PROVE u = v
  <2> SUFFICES ASSUME u # v PROVE FALSE
    OBVIOUS
  <2>1. SortsBefore(v, u) BY <1>3
  <2>2. v < u /\ u <= v BY <1>1, <2>1
  <2> QED BY <2>2
<1> HIDE DEF Last
<1>4. v = CHOOSE x \in S : Last(x) BY <1>2, <1>3
<1>5. S # {} OBVIOUS
<1> QED BY <1>4, <1>5 DEF Last, LastName

LEMMA NewestIsLatest ==
    ASSUME Small, NEW m \in Models, NEW v \in OnDisk(m), \A w \in OnDisk(m) : w <= v
    PROVE  LatestVersion(m) = v
<1>1. \A w \in OnDisk(m) : w \in Nat /\ w < 10 BY DEF Small, OnDisk, FileVersions
<1>2. LatestVersion(m) = LastName(OnDisk(m)) BY DEF LatestVersion, LastName
<1> QED BY <1>1, <1>2, NewestSortsLast

(* A deployment that meets no other one writes behind every version there  *)
(* is, the historian first, so that both files of its version are the last.*)
Historian == "historian"
Predictor == "predictor"
Newest == FirstVersion + trainings - 1

DiskInv ==
    /\ OnDisk(Predictor) \subseteq OnDisk(Historian)
    /\ \A m \in Models : OnDisk(m) \subseteq 1..Newest

DeployingInv ==
    \A p \in Trainers : Deploying(p) =>
        /\ tosave[p] \in {Models, {Predictor}}
        /\ version[p] \in 1..Newest
        /\ memory[p][Historian] = memory[p][Predictor] /\ memory[p][Historian] # None
        /\ Historian \notin tosave[p] => version[p] \in OnDisk(Historian)

AloneInv ==
    \A p \in alone : Deploying(p) =>
        /\ \A q \in Trainers : Deploying(q) => q = p
        /\ Small => /\ \A m \in Models : \A w \in OnDisk(m) : w <= version[p]
                    /\ Historian \notin tosave[p] =>
                           file[Historian][version[p]] = memory[p][Historian]

WholeInv ==
    whole /\ (\A p \in Trainers : ~Deploying(p)) /\ Small => \A m \in Models : Loaded(m) = last

DeployInv == ModelDeployTypeOK /\ DiskInv /\ DeployingInv /\ AloneInv /\ WholeInv

LEMMA DeployNumbers ==
    ASSUME ModelDeployTypeOK
    PROVE  /\ Newest \in Nat /\ Newest <= FirstVersion + MaxTrainings
           /\ Newest >= FirstVersion /\ 1..Newest \subseteq FileVersions
           /\ \A m \in Models : Loaded(m) \in 0..MaxTrainings + 1
<1>1. /\ Newest \in Nat /\ Newest <= FirstVersion + MaxTrainings
      /\ Newest >= FirstVersion /\ 1..Newest \subseteq FileVersions
  BY ModelDeployAssumption DEF ModelDeployTypeOK, Newest, FileVersions
<1>2. ASSUME NEW m \in Models PROVE Loaded(m) \in 0..MaxTrainings + 1
  <2>1. CASE LatestVersion(m) = 0 BY <2>1, ModelDeployAssumption DEF Loaded, None
  <2>2. CASE LatestVersion(m) # 0
    <3>1. LatestVersion(m) \in FileVersions BY <2>2, LatestIsOnDisk DEF OnDisk
    <3>2. file[m][LatestVersion(m)] \in {None, Torn} \cup 1..MaxTrainings + 1
      BY <3>1 DEF ModelDeployTypeOK
    <3> QED BY <3>2, ModelDeployAssumption DEF Loaded, None, Torn
  <2> QED BY <2>1, <2>2
<1> QED BY <1>1, <1>2

(* What is on disk, and what a start loads, are in the files alone.        *)
LEMMA SameFiles ==
    ASSUME UNCHANGED file
    PROVE  /\ \A m : OnDisk(m)' = OnDisk(m) /\ Loaded(m)' = Loaded(m)
           /\ Small' <=> Small
<1>1. \A m : OnDisk(m)' = OnDisk(m) BY DEF OnDisk
<1>2. ASSUME NEW m PROVE LatestVersion(m)' = LatestVersion(m)
  <2>1. OnDisk(m)' = OnDisk(m) BY <1>1
  <2>2. LatestVersion(m) = LastName(OnDisk(m)) BY DEF LatestVersion, LastName
  <2>3. LatestVersion(m)' = LastName(OnDisk(m)') BY DEF LatestVersion, LastName
  <2> QED BY <2>1, <2>2, <2>3
<1> QED BY <1>1, <1>2 DEF Loaded, Small

(* The file of one model at one version is written.                        *)
Written(m, v, x) == file' = [file EXCEPT ![m][v] = x]

(* One file written, at a version that is not before what there is.        *)
LEMMA OneFile ==
    ASSUME ModelDeployTypeOK, NEW m \in Models, NEW v \in FileVersions,
           NEW x \in {Torn} \cup 1..MaxTrainings + 1,
           Written(m, v, x)
    PROVE  /\ file' \in [Models -> [FileVersions -> {None, Torn} \cup 1..MaxTrainings + 1]]
           /\ OnDisk(m)' = OnDisk(m) \cup {v} /\ file'[m][v] = x
           /\ \A n \in Models \ {m} : OnDisk(n)' = OnDisk(n) /\ file'[n] = file[n]
           /\ Small' => Small
<1>1. x # None BY DEF None, Torn
<1>2. /\ file' \in [Models -> [FileVersions -> {None, Torn} \cup 1..MaxTrainings + 1]]
      /\ file'[m][v] = x /\ \A w \in FileVersions \ {v} : file'[m][w] = file[m][w]
      /\ \A n \in Models \ {m} : file'[n] = file[n]
  BY DEF ModelDeployTypeOK, Written
<1>3. OnDisk(m)' = OnDisk(m) \cup {v} BY <1>1, <1>2 DEF OnDisk
<1>4. \A n \in Models \ {m} : OnDisk(n)' = OnDisk(n) BY <1>2 DEF OnDisk
<1>5. Small' => Small BY <1>3, <1>4 DEF Small
<1> QED BY <1>2, <1>3, <1>4, <1>5

LEMMA StartTrainerStep == ASSUME DeployInv, NEW p \in Trainers, StartTrainer(p) PROVE DeployInv'
<1>t. ModelDeployTypeOK /\ DiskInv /\ DeployingInv /\ AloneInv /\ WholeInv BY DEF DeployInv
<1>1. /\ step[p] = "down" /\ step' = [step EXCEPT ![p] = "ready"]
      /\ memory' = [memory EXCEPT ![p] = [m \in Models |-> Loaded(m)]]
      /\ UNCHANGED <<file, tosave, version, trainings, last, alone, whole>>
  BY DEF StartTrainer
<1>2. ModelDeployTypeOK'
  <2>1. [m \in Models |-> Loaded(m)] \in [Models -> 0..MaxTrainings + 1]
    BY <1>t, DeployNumbers
  <2> QED BY <1>1, <1>t, <2>1 DEF ModelDeployTypeOK
<1>3. /\ \A q \in Trainers : Deploying(q)' <=> Deploying(q)
      /\ \A q \in Trainers : Deploying(q) => memory'[q] = memory[q]
  BY <1>1, <1>t DEF Deploying, ModelDeployTypeOK
<1>4. DiskInv' BY <1>1, <1>t, SameFiles DEF DiskInv, Newest
<1>5. DeployingInv' BY <1>1, <1>3, <1>t, SameFiles DEF DeployingInv, Newest
<1>6. AloneInv' BY <1>1, <1>3, <1>t, SameFiles DEF AloneInv, ModelDeployTypeOK
<1>7. WholeInv' BY <1>1, <1>3, <1>t, SameFiles DEF WholeInv
<1> QED BY <1>2, <1>4, <1>5, <1>6, <1>7 DEF DeployInv

LEMMA StopTrainerStep == ASSUME DeployInv, NEW p \in Trainers, StopTrainer(p) PROVE DeployInv'
<1>t. ModelDeployTypeOK /\ DiskInv /\ DeployingInv /\ AloneInv /\ WholeInv BY DEF DeployInv
<1>1. /\ step' = [step EXCEPT ![p] = "down"]
      /\ tosave' = [tosave EXCEPT ![p] = {}]
      /\ memory' = [memory EXCEPT ![p] = [m \in Models |-> None]]
      /\ version' = [version EXCEPT ![p] = 0]
      /\ whole' = (whole /\ ~Deploying(p))
      /\ UNCHANGED <<file, trainings, last, alone>>
  BY DEF StopTrainer
<1>2. ModelDeployTypeOK'
  <2>1. [m \in Models |-> None] \in [Models -> 0..MaxTrainings + 1]
    BY ModelDeployAssumption DEF None
  <2>2. whole' \in BOOLEAN BY <1>1
  <2>3. version' \in [Trainers -> 0..FirstVersion + MaxTrainings]
    BY <1>1, <1>t, ModelDeployAssumption DEF ModelDeployTypeOK
  <2> QED BY <1>1, <1>t, <2>1, <2>2, <2>3 DEF ModelDeployTypeOK
<1>3. \A q \in Trainers : Deploying(q)' =>
         /\ Deploying(q) /\ memory'[q] = memory[q] /\ tosave'[q] = tosave[q]
         /\ version'[q] = version[q]
  BY <1>1, <1>t DEF Deploying, ModelDeployTypeOK
<1>4. \A q \in Trainers \ {p} : Deploying(q)' <=> Deploying(q)
  BY <1>1, <1>t DEF Deploying, ModelDeployTypeOK
<1>5. DiskInv' BY <1>1, <1>t, SameFiles DEF DiskInv, Newest
<1>6. DeployingInv' BY <1>1, <1>3, <1>t, SameFiles DEF DeployingInv, Newest
<1>7. AloneInv' BY <1>1, <1>3, <1>t, SameFiles DEF AloneInv, ModelDeployTypeOK
<1>8. WholeInv'
  <2>1. whole' => whole /\ ~Deploying(p) BY <1>1
  <2>2. whole' /\ (\A q \in Trainers : ~Deploying(q)') => \A q \in Trainers : ~Deploying(q)
    BY <1>4, <2>1
  <2> QED BY <1>1, <1>t, <2>1, <2>2, SameFiles DEF WholeInv
<1> QED BY <1>2, <1>5, <1>6, <1>7, <1>8 DEF DeployInv

LEMMA TrainStep ==
    ASSUME DeployInv, NEW p \in Trainers, NEW fitted \in SUBSET Models,
           NEW good \in SUBSET Models, Train(p, fitted, good)
    PROVE  DeployInv'
<1>t. ModelDeployTypeOK /\ DiskInv /\ DeployingInv /\ AloneInv /\ WholeInv BY DEF DeployInv
<1>1. /\ step[p] = "ready" /\ trainings <= MaxTrainings /\ good \subseteq fitted
      /\ trainings' = trainings + 1
      /\ memory' = [memory EXCEPT
                      ![p] = [m \in Models |-> IF m \in fitted THEN trainings' ELSE @[m]]]
      /\ tosave' = [tosave EXCEPT ![p] = Accepted(good)]
      /\ UNCHANGED <<file, last, whole>>
  BY DEF Train
<1>2. /\ trainings \in Nat /\ trainings' \in 1..MaxTrainings + 1 /\ Newest' = Newest + 1
      /\ Newest \in Nat /\ 1..Newest \subseteq 1..Newest'
  BY <1>1, <1>t, DeployNumbers, ModelDeployAssumption DEF ModelDeployTypeOK, Newest
<1>3. /\ memory' \in [Trainers -> [Models -> 0..MaxTrainings + 1]]
      /\ tosave' \in [Trainers -> SUBSET Models]
      /\ \A q \in Trainers \ {p} : memory'[q] = memory[q] /\ tosave'[q] = tosave[q]
      /\ tosave'[p] = Accepted(good)
      /\ \A m \in fitted : memory'[p][m] = trainings'
  <2>1. Accepted(good) \in SUBSET Models BY DEF Accepted
  <2>2. [m \in Models |-> IF m \in fitted THEN trainings' ELSE memory[p][m]]
           \in [Models -> 0..MaxTrainings + 1]
    BY <1>2, <1>t DEF ModelDeployTypeOK
  <2> QED BY <1>1, <1>t, <2>1, <2>2 DEF ModelDeployTypeOK
<1>4. DiskInv' BY <1>1, <1>2, <1>t, SameFiles DEF DiskInv
<1>5. ~Deploying(p) BY <1>1 DEF Deploying
<1>6. CASE Accepted(good) = {}
  <2>1. UNCHANGED <<step, version, alone>> BY <1>6 DEF Train
  <2>2. ModelDeployTypeOK' BY <1>1, <1>2, <1>3, <1>t, <2>1 DEF ModelDeployTypeOK
  <2>3. \A q \in Trainers : Deploying(q)' <=> Deploying(q) BY <2>1 DEF Deploying
  <2>4. DeployingInv'
    BY <1>1, <1>2, <1>3, <1>5, <1>t, <2>1, <2>3, SameFiles DEF DeployingInv
  <2>5. AloneInv'
    BY <1>1, <1>3, <1>5, <1>t, <2>1, <2>3, SameFiles DEF AloneInv, ModelDeployTypeOK
  <2>6. WholeInv' BY <1>1, <1>t, <2>3, SameFiles DEF WholeInv
  <2> QED BY <1>4, <2>2, <2>4, <2>5, <2>6 DEF DeployInv
<1>7. CASE Accepted(good) # {}
  <2>1. /\ alone' = IF \E q \in Trainers : Deploying(q) THEN {} ELSE {p}
        /\ step' = [step EXCEPT ![p] = "deploy"]
        /\ version' = [version EXCEPT ![p] = LatestVersion("historian") + 1]
        /\ Accepted(good) = Models /\ fitted = Models
    BY <1>1, <1>7 DEF Train, Accepted
  <2>2. LatestVersion(Historian) \in OnDisk(Historian) \cup {0}
        /\ LatestVersion(Historian) \in 0..Newest
    <3>1. Historian \in Models BY DEF Historian, Models
    <3> QED BY <1>2, <1>t, <3>1, LatestIsOnDisk DEF DiskInv
  <2>3. /\ version' \in [Trainers -> 0..FirstVersion + MaxTrainings]
        /\ version'[p] \in 1..Newest'
        /\ version'[p] = LatestVersion(Historian) + 1
        /\ \A q \in Trainers \ {p} : version'[q] = version[q]
    <3>1. LatestVersion(Historian) + 1 \in 1..Newest' BY <1>2, <2>2
    <3>2. Newest' <= FirstVersion + MaxTrainings
      BY <1>1, <1>2, ModelDeployAssumption DEF Newest
    <3>3. LatestVersion(Historian) + 1 \in 0..FirstVersion + MaxTrainings
      BY <1>2, <3>1, <3>2, ModelDeployAssumption
    <3> QED BY <1>t, <2>1, <3>1, <3>3 DEF ModelDeployTypeOK, Historian
  <2>4. ModelDeployTypeOK' BY <1>1, <1>2, <1>3, <1>t, <2>1, <2>3 DEF ModelDeployTypeOK
  <2>5. Deploying(p)' /\ \A q \in Trainers \ {p} : Deploying(q)' <=> Deploying(q)
    BY <1>t, <2>1 DEF Deploying, ModelDeployTypeOK
  <2>6. DeployingInv'
    <3>1. /\ memory'[p][Historian] = memory'[p][Predictor] /\ memory'[p][Historian] # None
          /\ Historian \in tosave'[p] /\ tosave'[p] = Models
      BY <1>2, <1>3, <2>1 DEF Historian, Predictor, Models, None
    <3>2. \A q \in Trainers \ {p} : Deploying(q)' =>
            /\ tosave'[q] \in {Models, {Predictor}}
            /\ version'[q] \in 1..Newest'
            /\ memory'[q][Historian] = memory'[q][Predictor] /\ memory'[q][Historian] # None
            /\ Historian \notin tosave'[q] => version'[q] \in OnDisk(Historian)'
      BY <1>1, <1>2, <1>3, <1>t, <2>3, <2>5, SameFiles DEF DeployingInv
    <3> QED BY <2>3, <3>1, <3>2 DEF DeployingInv
  <2>7. AloneInv'
    <3>1. \A q \in alone' : q = p /\ \A r \in Trainers : ~Deploying(r) BY <2>1
    <3>2. ASSUME Small, NEW m \in Models, NEW w \in OnDisk(m) PROVE w <= version'[p]
      <4>1. w \in OnDisk(Historian) /\ Historian \in Models
        BY <1>t DEF DiskInv, Models, Historian, Predictor
      <4>2. \A x \in OnDisk(Historian) : x \in 1..Newest /\ x \in Int BY <1>2, <1>t, <4>1 DEF DiskInv
      <4>3. PICK g \in OnDisk(Historian) : \A x \in OnDisk(Historian) : x <= g
        <5>1. OnDisk(Historian) \subseteq 1..Newest /\ 1 \in Int /\ Newest \in Int
          BY <1>2, <4>2
        <5> QED BY <4>1, <5>1, GreatestOfInterval, Zenon
      <4>4. LatestVersion(Historian) = g BY <3>2, <4>1, <4>3, NewestIsLatest
      <4>5. w <= g /\ w \in Int /\ g \in Int BY <4>1, <4>2, <4>3
      <4> QED BY <2>3, <4>4, <4>5
    <3>3. Historian \in tosave'[p] BY <1>3, <2>1 DEF Historian, Models
    <3>4. \A q \in alone' : \A r \in Trainers : Deploying(r)' => r = q
      BY <2>5, <3>1
    <3> QED BY <3>1, <3>2, <3>3, <3>4, <1>1, SameFiles DEF AloneInv
  <2>8. WholeInv' BY <2>5 DEF WholeInv
  <2> QED BY <1>4, <2>4, <2>6, <2>7, <2>8 DEF DeployInv
<1> QED BY <1>6, <1>7

LEMMA OpenFileStep == ASSUME DeployInv, NEW p \in Trainers, OpenFile(p) PROVE DeployInv'
<1>t. ModelDeployTypeOK /\ DiskInv /\ DeployingInv /\ AloneInv /\ WholeInv BY DEF DeployInv
<1> PICK m \in Models : m = Saving(p) BY DEF Saving, Models
<1> PICK v \in Nat : v = version[p] BY <1>t DEF ModelDeployTypeOK
<1>1. /\ step[p] = "deploy" /\ step' = [step EXCEPT ![p] = "writing"]
      /\ file' = [file EXCEPT ![m][v] = Torn]
      /\ UNCHANGED <<memory, tosave, version, trainings, last, alone, whole>>
  BY DEF OpenFile
<1>2. Deploying(p) /\ v \in 1..Newest /\ v \in FileVersions
  BY <1>1, <1>t, DeployNumbers DEF Deploying, DeployingInv
<1>s. m = IF Historian \in tosave[p] THEN Historian ELSE Predictor
  BY DEF Saving, Historian, Predictor
<1>3. /\ file' \in [Models -> [FileVersions -> {None, Torn} \cup 1..MaxTrainings + 1]]
      /\ OnDisk(m)' = OnDisk(m) \cup {v}
      /\ \A n \in Models \ {m} : OnDisk(n)' = OnDisk(n) /\ file'[n] = file[n]
      /\ Small' => Small
  <2>1. Written(m, v, Torn) BY <1>1 DEF Written
  <2> QED BY <1>2, <1>t, <2>1, OneFile
<1>4. ModelDeployTypeOK' BY <1>1, <1>3, <1>t DEF ModelDeployTypeOK
<1>5. \A q \in Trainers : Deploying(q)' <=> Deploying(q)
  BY <1>1, <1>t DEF Deploying, ModelDeployTypeOK
<1>6. /\ tosave[p] \in {Models, {Predictor}}
      /\ Historian \in Models /\ Predictor \in Models /\ Historian # Predictor
      /\ Historian \notin tosave[p] => v \in OnDisk(Historian) /\ m = Predictor
      /\ Historian \in tosave[p] => m = Historian
  BY <1>2, <1>t, <1>s DEF DeployingInv, Historian, Predictor, Models
<1>7. DiskInv'
  <2>1. Newest' = Newest BY <1>1 DEF Newest
  <2>2. \A n \in Models : OnDisk(n)' \subseteq 1..Newest'
    BY <1>2, <1>3, <1>t, <2>1 DEF DiskInv
  <2>3. OnDisk(Predictor)' \subseteq OnDisk(Historian)'
    BY <1>3, <1>6, <1>t DEF DiskInv
  <2> QED BY <2>2, <2>3 DEF DiskInv
<1>8. DeployingInv'
  <2>1. OnDisk(Historian) \subseteq OnDisk(Historian)' BY <1>3, <1>6
  <2> QED BY <1>1, <1>5, <1>t, <2>1 DEF DeployingInv, Newest
<1>9. AloneInv'
  <2> SUFFICES ASSUME NEW q \in alone', Deploying(q)'
               PROVE  /\ \A r \in Trainers : Deploying(r)' => r = q
                      /\ Small' => /\ \A n \in Models : \A w \in OnDisk(n)' : w <= version'[q]
                                   /\ Historian \notin tosave'[q] =>
                                         file'[Historian][version'[q]] = memory'[q][Historian]
    BY DEF AloneInv
  <2>1. q \in alone /\ q \in Trainers /\ Deploying(q) BY <1>1, <1>5, <1>t DEF ModelDeployTypeOK
  <2>2. \A r \in Trainers : Deploying(r) => r = q BY <1>t, <2>1 DEF AloneInv
  <2>3. q = p BY <1>2, <2>2
  <2>4. Small => /\ \A n \in Models : \A w \in OnDisk(n) : w <= v
                 /\ Historian \notin tosave[p] => file[Historian][v] = memory[p][Historian]
    BY <1>t, <2>1, <2>3 DEF AloneInv
  <2>5. Small' => \A n \in Models : \A w \in OnDisk(n)' : w <= v
    BY <1>2, <1>3, <2>4
  <2>6. Small' /\ Historian \notin tosave[p] => file'[Historian][v] = memory[p][Historian]
    BY <1>3, <1>6, <2>4
  <2> QED BY <1>1, <1>5, <2>2, <2>3, <2>5, <2>6
<1>10. WholeInv' BY <1>2, <1>5 DEF WholeInv
<1> QED BY <1>4, <1>7, <1>8, <1>9, <1>10 DEF DeployInv

LEMMA FillFileStep == ASSUME DeployInv, NEW p \in Trainers, FillFile(p) PROVE DeployInv'
<1>t. ModelDeployTypeOK /\ DiskInv /\ DeployingInv /\ AloneInv /\ WholeInv BY DEF DeployInv
<1> PICK m \in Models : m = Saving(p) BY DEF Saving, Models
<1> PICK v \in Nat : v = version[p] BY <1>t DEF ModelDeployTypeOK
<1> PICK x : x = memory[p][m] OBVIOUS
<1>1. /\ step[p] = "writing"
      /\ file' = [file EXCEPT ![m][v] = x]
      /\ tosave' = [tosave EXCEPT ![p] = @ \ {m}]
      /\ UNCHANGED <<memory, version, trainings, alone>>
      /\ IF tosave'[p] # {}
         THEN step' = [step EXCEPT ![p] = "deploy"] /\ UNCHANGED <<last, whole>>
         ELSE /\ step' = [step EXCEPT ![p] = "ready"]
              /\ last' = x /\ whole' = (p \in alone)
  BY DEF FillFile
<1>s. /\ m = IF Historian \in tosave[p] THEN Historian ELSE Predictor
      /\ Historian \in Models /\ Predictor \in Models /\ Historian # Predictor
      /\ Models = {Historian, Predictor}
  BY DEF Saving, Historian, Predictor, Models
<1>2. /\ Deploying(p) /\ v \in 1..Newest /\ v \in FileVersions
      /\ tosave[p] \in {Models, {Predictor}}
      /\ x = memory[p][Historian] /\ x \in 1..MaxTrainings + 1
      /\ Historian \notin tosave[p] => v \in OnDisk(Historian) /\ m = Predictor
      /\ Historian \in tosave[p] => m = Historian
  <2>1. Deploying(p) BY <1>1 DEF Deploying
  <2>2. /\ tosave[p] \in {Models, {Predictor}} /\ v \in 1..Newest
        /\ memory[p][Historian] = memory[p][Predictor] /\ memory[p][Historian] # None
        /\ Historian \notin tosave[p] => v \in OnDisk(Historian)
    BY <1>t, <2>1 DEF DeployingInv
  <2>3. memory[p][Historian] \in 0..MaxTrainings + 1 BY <1>s, <1>t DEF ModelDeployTypeOK
  <2>4. memory[p][Historian] \in 1..MaxTrainings + 1
    BY <2>2, <2>3, ModelDeployAssumption DEF None
  <2> QED BY <1>s, <1>t, <2>1, <2>2, <2>4, DeployNumbers
<1>3. /\ file' \in [Models -> [FileVersions -> {None, Torn} \cup 1..MaxTrainings + 1]]
      /\ OnDisk(m)' = OnDisk(m) \cup {v} /\ file'[m][v] = x
      /\ \A n \in Models \ {m} : OnDisk(n)' = OnDisk(n) /\ file'[n] = file[n]
      /\ Small' => Small
  <2>1. ModelDeployTypeOK BY <1>t
  <2>2. m \in Models BY <1>s
  <2>3. v \in FileVersions BY <1>2
  <2>4. x \in {Torn} \cup 1..MaxTrainings + 1 BY <1>2
  <2>5. Written(m, v, x) BY <1>1 DEF Written
  <2> QED BY <2>1, <2>2, <2>3, <2>4, <2>5, OneFile
<1>4. /\ tosave' \in [Trainers -> SUBSET Models] /\ tosave'[p] = tosave[p] \ {m}
      /\ \A q \in Trainers \ {p} : tosave'[q] = tosave[q]
  BY <1>1, <1>t DEF ModelDeployTypeOK
<1>5. DiskInv'
  <2>1. Newest' = Newest BY <1>1 DEF Newest
  <2>2. \A n \in Models : OnDisk(n)' \subseteq 1..Newest'
    BY <1>2, <1>3, <1>t, <2>1 DEF DiskInv
  <2>3. OnDisk(Predictor)' \subseteq OnDisk(Historian)'
    BY <1>s, <1>2, <1>3, <1>t DEF DiskInv
  <2> QED BY <2>2, <2>3 DEF DiskInv
<1>6. \A q \in alone : Deploying(q) =>
         /\ \A r \in Trainers : Deploying(r) => r = q
         /\ q = p
         /\ Small => /\ \A n \in Models : \A w \in OnDisk(n) : w <= v
                     /\ Historian \notin tosave[p] => file[Historian][v] = x
  BY <1>2, <1>t DEF AloneInv
<1>7. CASE tosave'[p] # {}
  <2>1. step' = [step EXCEPT ![p] = "deploy"] /\ UNCHANGED <<last, whole>>
    BY <1>1, <1>7
  <2>2. m = Historian /\ tosave'[p] = {Predictor}
    BY <1>s, <1>2, <1>4, <1>7
  <2>3. ModelDeployTypeOK' BY <1>1, <1>3, <1>4, <1>t, <2>1 DEF ModelDeployTypeOK
  <2>4. \A q \in Trainers : Deploying(q)' <=> Deploying(q)
    BY <1>2, <1>t, <2>1 DEF Deploying, ModelDeployTypeOK
  <2>5. DeployingInv'
    <3>1. OnDisk(Historian) \subseteq OnDisk(Historian)' /\ v \in OnDisk(Historian)'
      BY <1>3, <2>2
    <3> QED BY <1>1, <1>2, <1>4, <1>t, <2>2, <2>4, <3>1 DEF DeployingInv, Newest
  <2>6. AloneInv'
    <3> SUFFICES ASSUME NEW q \in alone', Deploying(q)'
                 PROVE  /\ \A r \in Trainers : Deploying(r)' => r = q
                        /\ Small' => /\ \A n \in Models : \A w \in OnDisk(n)' : w <= version'[q]
                                     /\ Historian \notin tosave'[q] =>
                                           file'[Historian][version'[q]] = memory'[q][Historian]
      BY DEF AloneInv
    <3>1. q \in alone /\ q \in Trainers /\ Deploying(q) BY <1>1, <1>t, <2>4 DEF ModelDeployTypeOK
    <3>2. q = p /\ \A r \in Trainers : Deploying(r) => r = q BY <1>6, <3>1
    <3>3. Small' => \A n \in Models : \A w \in OnDisk(n)' : w <= v
      BY <1>2, <1>3, <1>6, <3>1
    <3>4. file'[Historian][v] = x BY <1>3, <2>2
    <3> QED BY <1>1, <1>2, <2>4, <3>2, <3>3, <3>4
  <2>7. WholeInv' BY <1>2, <2>4 DEF WholeInv
  <2> QED BY <1>5, <2>3, <2>5, <2>6, <2>7 DEF DeployInv
<1>8. CASE tosave'[p] = {}
  <2>1. /\ step' = [step EXCEPT ![p] = "ready"]
        /\ last' = x /\ whole' = (p \in alone)
    BY <1>1, <1>8
  <2>2. m = Predictor /\ Historian \notin tosave[p]
    BY <1>s, <1>2, <1>4, <1>8
  <2>3. ModelDeployTypeOK'
    <3>1. whole' \in BOOLEAN /\ last' \in 0..MaxTrainings + 1 BY <1>2, <2>1
    <3> QED BY <1>1, <1>3, <1>4, <1>t, <2>1, <3>1 DEF ModelDeployTypeOK
  <2>4. ~Deploying(p)' /\ \A q \in Trainers \ {p} : Deploying(q)' <=> Deploying(q)
    BY <1>t, <2>1 DEF Deploying, ModelDeployTypeOK
  <2>5. DeployingInv'
    <3>1. OnDisk(Historian)' = OnDisk(Historian) BY <1>s, <1>3, <2>2
    <3> QED BY <1>1, <1>4, <1>t, <2>4, <3>1 DEF DeployingInv, Newest
  <2>6. AloneInv' BY <1>1, <1>6, <1>t, <2>4 DEF AloneInv, ModelDeployTypeOK
  <2>7. WholeInv'
    <3> SUFFICES ASSUME whole', Small', NEW n \in Models PROVE Loaded(n)' = last'
      BY DEF WholeInv
    <3>1. p \in alone /\ Small BY <1>3, <2>1
    <3>2. /\ \A k \in Models : \A w \in OnDisk(k) : w <= v
          /\ file[Historian][v] = x
      BY <1>2, <1>6, <2>2, <3>1
    <3>3. file'[n][v] = x /\ v \in OnDisk(n)'
      BY <1>s, <1>2, <1>3, <2>2, <3>2
    <3>4. \A w \in OnDisk(n)' : w <= v BY <1>2, <1>3, <3>2
    <3>5. LatestVersion(n)' = v
      <4>1. \A w \in OnDisk(n)' : w \in Nat /\ w < 10 BY DEF Small, OnDisk, FileVersions
      <4>2. LatestVersion(n)' = LastName(OnDisk(n)') BY DEF LatestVersion, LastName
      <4> QED BY <3>3, <3>4, <4>1, <4>2, NewestSortsLast
    <3>6. v # 0 /\ x # Torn BY <1>2, ModelDeployAssumption DEF Torn
    <3> QED BY <2>1, <3>3, <3>5, <3>6 DEF Loaded
  <2> QED BY <1>5, <2>3, <2>5, <2>6, <2>7 DEF DeployInv
<1> QED BY <1>7, <1>8

LEMMA InitDeploy == ModelDeployInit => DeployInv
<1> SUFFICES ASSUME ModelDeployInit PROVE DeployInv
  OBVIOUS
<1>1. /\ file = [m \in Models |-> [v \in FileVersions |-> IF v = FirstVersion THEN 1 ELSE None]]
      /\ trainings = 1 /\ alone = {} /\ whole = TRUE
      /\ last = IF FirstVersion = 0 THEN None ELSE 1
      /\ \A p \in Trainers : step[p] = "down"
  BY DEF ModelDeployInit
<1>2. ModelDeployTypeOK
  <2>1. /\ file \in [Models -> [FileVersions -> {None, Torn} \cup 1..MaxTrainings + 1]]
        /\ last \in 0..MaxTrainings + 1 /\ trainings \in 1..MaxTrainings + 1
    BY <1>1, ModelDeployAssumption DEF None
  <2>2. /\ step \in [Trainers -> {"down", "ready", "deploy", "writing"}]
        /\ memory \in [Trainers -> [Models -> 0..MaxTrainings + 1]]
        /\ tosave \in [Trainers -> SUBSET Models]
        /\ version \in [Trainers -> 0..FirstVersion + MaxTrainings]
    BY ModelDeployAssumption DEF ModelDeployInit, None
  <2>3. alone \subseteq Trainers /\ whole \in BOOLEAN BY <1>1
  <2> QED BY <2>1, <2>2, <2>3 DEF ModelDeployTypeOK
<1>3. Newest = FirstVersion BY <1>1, ModelDeployAssumption DEF Newest
<1>4. \A m \in Models : OnDisk(m) = {v \in FileVersions : v = FirstVersion}
  BY <1>1 DEF OnDisk, None
<1>5. DiskInv
  <2>1. Historian \in Models /\ Predictor \in Models BY DEF Historian, Predictor, Models
  <2> QED BY <1>3, <1>4, <2>1, ModelDeployAssumption DEF DiskInv, FileVersions
<1>6. \A p \in Trainers : ~Deploying(p) BY <1>1 DEF Deploying
<1>7. DeployingInv /\ AloneInv BY <1>1, <1>6 DEF DeployingInv, AloneInv
<1>8. ASSUME Small, NEW m \in Models PROVE Loaded(m) = last
  <2>1. CASE FirstVersion = 0
    <3>1. OnDisk(m) = {} BY <1>4, <2>1 DEF FileVersions
    <3> QED BY <1>1, <2>1, <3>1 DEF Loaded, LatestVersion
  <2>2. CASE FirstVersion # 0
    <3>1. FirstVersion \in FileVersions BY <2>2, ModelDeployAssumption DEF FileVersions
    <3>2. OnDisk(m) = {FirstVersion} BY <1>4, <3>1
    <3>3. LatestVersion(m) = FirstVersion
      BY <1>8, <3>2, NewestIsLatest, ModelDeployAssumption
    <3>4. file[m][FirstVersion] = 1 BY <1>1, <3>1
    <3> QED BY <1>1, <2>2, <3>3, <3>4 DEF Loaded, Torn
  <2> QED BY <2>1, <2>2
<1>9. WholeInv BY <1>8 DEF WholeInv
<1> QED BY <1>2, <1>5, <1>7, <1>9 DEF DeployInv

LEMMA NextDeploy == DeployInv /\ [ModelDeployNext]_deployVars => DeployInv'
<1> SUFFICES ASSUME DeployInv, [ModelDeployNext]_deployVars PROVE DeployInv'
  OBVIOUS
<1>1. CASE UNCHANGED deployVars
  <2>1. UNCHANGED <<file, step, memory, tosave, version, trainings, last, alone, whole>>
    BY <1>1 DEF deployVars
  <2> QED BY <2>1, SameFiles
       DEF DeployInv, ModelDeployTypeOK, DiskInv, DeployingInv, AloneInv, WholeInv, Newest, Deploying
<1> QED
  BY <1>1, StartTrainerStep, StopTrainerStep, TrainStep, OpenFileStep, FillFileStep
  DEF ModelDeployNext

LEMMA DeployAlways == ModelDeploySpec => []DeployInv
  BY InitDeploy, NextDeploy, PTL DEF ModelDeploySpec

(* While nobody deploys and the last deployment was neither cut nor        *)
(* overlapped, a start loads both of its models, for any number of         *)
(* processes that train, and of versions as long as they have one digit.   *)
THEOREM PairsLoadTogether == ModelDeploySpec => []NewestPairLoads
<1>1. DeployInv => NewestPairLoads BY DEF DeployInv, WholeInv, NewestPairLoads, Small
<1> QED BY <1>1, DeployAlways, PTL

-----------------------------------------------------------------------------
(* CandleStore.  A backfill that fails nowhere has everything behind its   *)
(* cursor; what is counted was there, and nothing is ever removed.         *)
CandleTypes ==
    /\ clock \in Nat /\ clock >= DaysBack
    /\ stored \subseteq Int /\ IsFiniteSet(stored)
    /\ counted \in Nat /\ total \in Nat
    /\ phase \in [Fillers -> {"off", "paging", "refresh", "counting", "writing"}]
    /\ cursor \in [Fillers -> Int] /\ nowAtStart \in [Fillers -> Int]
    /\ clean \in [Fillers -> BOOLEAN]

CoveredInv ==
    \A f \in Fillers :
        /\ nowAtStart[f] <= clock
        /\ clean[f] /\ phase[f] = "paging" => StartOf(f)..(cursor[f] - 1) \subseteq stored
        /\ clean[f] /\ phase[f] # "paging" => StartOf(f)..(nowAtStart[f] - 1) \subseteq stored

CountInv == counted <= Cardinality(stored) /\ total <= Cardinality(stored)

CandleInv == CandleTypes /\ CoveredInv /\ CountInv

(* More candles never hurt.                                                *)
LEMMA StoredGrows ==
    ASSUME CandleInv, stored \subseteq stored', IsFiniteSet(stored'), stored' \subseteq Int
    PROVE  /\ Cardinality(stored) \in Nat /\ Cardinality(stored') \in Nat
           /\ Cardinality(stored) <= Cardinality(stored')
  BY FS_Subset, FS_CardinalityType DEF CandleInv, CandleTypes

LEMMA PageBounds ==
    ASSUME CandleTypes, NEW f \in Fillers, PageOf(f) # {}
    PROVE  \E n \in Int :
              /\ n = Max(PageOf(f)) /\ PageOf(f) = cursor[f]..n /\ cursor[f] <= n /\ n <= clock
              /\ IsFiniteSet(PageOf(f))
              /\ Cardinality(PageOf(f)) < PageSize => n = clock
<1>1. cursor[f] \in Int /\ clock \in Int /\ PageSize \in Nat /\ PageSize > 0
  BY CandleStoreAssumption DEF CandleTypes
<1>2. cursor[f] <= clock BY <1>1 DEF PageOf
<1> PICK c \in Int : c = cursor[f] BY <1>1
<1> PICK n \in Int : n = IF clock < c + PageSize THEN clock ELSE c + PageSize - 1
  BY <1>1
<1>3. PageOf(f) = c..n /\ c <= n /\ n <= clock BY <1>1, <1>2 DEF PageOf
<1>4. IsFiniteSet(c..n) /\ Cardinality(c..n) = n - c + 1
  <2>1. c <= n BY <1>3
  <2>2. \A a, b \in Int : a <= b => IsFiniteSet(a..b) /\ Cardinality(a..b) = b - a + 1
    BY SizeOfInterval, Zenon
  <2> QED BY <2>1, <2>2, Zenon
<1>5. n = Max(c..n)
  <2>1. n \in c..n /\ c..n \subseteq Int /\ \A y \in c..n : y <= n BY <1>3
  <2> QED BY <2>1, MaxIsLargest, Zenon
<1>6. n - c + 1 < PageSize => n = clock BY <1>1
<1> QED BY <1>3, <1>4, <1>5, <1>6

LEMMA BeginPagingStep == ASSUME CandleInv, NEW f \in Fillers, BeginPaging(f) PROVE CandleInv'
<1>t. CandleTypes /\ CoveredInv /\ CountInv BY DEF CandleInv
<1>1. /\ phase' = [phase EXCEPT ![f] = "paging"]
      /\ nowAtStart' = [nowAtStart EXCEPT ![f] = clock]
      /\ cursor' = [cursor EXCEPT ![f] = clock - DaysBack]
      /\ clean' = [clean EXCEPT ![f] = TRUE]
      /\ UNCHANGED <<clock, stored, counted, total>>
  BY DEF BeginPaging
<1>2. CandleTypes'
  <2>1. clock \in Int /\ clock - DaysBack \in Int /\ TRUE \in BOOLEAN
    BY <1>t, CandleStoreAssumption DEF CandleTypes
  <2> QED BY <1>1, <1>t, <2>1 DEF CandleTypes
<1>3. CoveredInv'
  <2>1. /\ nowAtStart'[f] = clock /\ cursor'[f] = clock - DaysBack /\ phase'[f] = "paging"
        /\ \A g \in Fillers \ {f} : /\ phase'[g] = phase[g] /\ cursor'[g] = cursor[g]
                                    /\ nowAtStart'[g] = nowAtStart[g] /\ clean'[g] = clean[g]
    BY <1>1, <1>t DEF CandleTypes
  <2>2. StartOf(f)'..(cursor'[f] - 1) = {} /\ clock <= clock
    BY <1>1, <1>t, <2>1, CandleStoreAssumption DEF StartOf, CandleTypes
  <2>3. \A g \in Fillers \ {f} : StartOf(g)' = StartOf(g) BY <2>1 DEF StartOf
  <2> QED BY <1>1, <1>t, <2>1, <2>2, <2>3 DEF CoveredInv
<1>4. CountInv' BY <1>1, <1>t DEF CountInv
<1> QED BY <1>2, <1>3, <1>4 DEF CandleInv

(* A page, stored or not, and where the loop goes from there.              *)
LEMMA PageArrivesStep == ASSUME CandleInv, NEW f \in Fillers, PageArrives(f) PROVE CandleInv'
<1>t. CandleTypes /\ CoveredInv /\ CountInv BY DEF CandleInv
<1>1. /\ phase[f] = "paging" /\ PageOf(f) # {}
      /\ \/ stored' = stored \cup PageOf(f) /\ UNCHANGED clean
         \/ clean' = [clean EXCEPT ![f] = FALSE] /\ UNCHANGED stored
      /\ cursor' = [cursor EXCEPT ![f] = NextStart(f)]
      /\ phase' = [phase EXCEPT ![f] = IF LastPage(f) THEN AfterPaging(f) ELSE @]
      /\ UNCHANGED <<clock, counted, nowAtStart, total>>
  BY DEF PageArrives
<1>2. PICK n \in Int :
         /\ n = Max(PageOf(f)) /\ PageOf(f) = cursor[f]..n /\ cursor[f] <= n /\ n <= clock
         /\ IsFiniteSet(PageOf(f))
         /\ Cardinality(PageOf(f)) < PageSize => n = clock
  BY <1>1, <1>t, PageBounds
<1>3. NextStart(f) = n + 1 /\ (LastPage(f) => nowAtStart[f] <= n + 1)
  <2>1. nowAtStart[f] \in Int /\ nowAtStart[f] <= clock /\ clock \in Int
    BY <1>t DEF CandleTypes, CoveredInv
  <2> QED BY <1>2, <2>1 DEF NextStart, LastPage
<1>4. /\ stored \subseteq stored' /\ IsFiniteSet(stored') /\ stored' \subseteq Int
      /\ clean' \in [Fillers -> BOOLEAN]
  <2>1. CASE stored' = stored \cup PageOf(f) /\ UNCHANGED clean
    <3>1. IsFiniteSet(stored) /\ IsFiniteSet(PageOf(f)) BY <1>2, <1>t DEF CandleTypes
    <3>2. IsFiniteSet(stored \cup PageOf(f)) BY <3>1, FS_Union
    <3>3. PageOf(f) \subseteq Int BY <1>2, <1>t DEF CandleTypes
    <3> QED BY <1>t, <2>1, <3>2, <3>3 DEF CandleTypes
  <2>2. CASE clean' = [clean EXCEPT ![f] = FALSE] /\ UNCHANGED stored
    <3>1. FALSE \in BOOLEAN OBVIOUS
    <3> QED BY <1>t, <2>2, <3>1 DEF CandleTypes
  <2> QED BY <1>1, <2>1, <2>2
<1>5. CandleTypes'
  <2>1. AfterPaging(f) \in {"refresh", "counting"} BY DEF AfterPaging
  <2>2. phase' \in [Fillers -> {"off", "paging", "refresh", "counting", "writing"}]
    BY <1>1, <1>t, <2>1 DEF CandleTypes
  <2>3. cursor' \in [Fillers -> Int]
    <3>1. n + 1 \in Int OBVIOUS
    <3>2. cursor' = [cursor EXCEPT ![f] = n + 1] BY <1>1, <1>3
    <3>3. cursor \in [Fillers -> Int] BY <1>t DEF CandleTypes
    <3> QED BY <3>1, <3>2, <3>3
  <2> QED BY <1>1, <1>4, <1>t, <2>2, <2>3 DEF CandleTypes
<1>6. \A g \in Fillers \ {f} : /\ phase'[g] = phase[g] /\ cursor'[g] = cursor[g]
                               /\ clean'[g] = clean[g]
  BY <1>1, <1>t DEF CandleTypes
<1>7. ASSUME clean'[f]
      PROVE  StartOf(f)..n \subseteq stored' /\ cursor'[f] = n + 1
             /\ (phase'[f] # "paging" => nowAtStart[f] <= n + 1)
  <2>1. stored' = stored \cup PageOf(f) /\ clean[f]
    <3>1. ~(clean' = [clean EXCEPT ![f] = FALSE]) BY <1>7, <1>t DEF CandleTypes
    <3> QED BY <1>1, <1>7, <3>1
  <2>2. StartOf(f)..(cursor[f] - 1) \subseteq stored BY <1>1, <1>t, <2>1 DEF CoveredInv
  <2>3. StartOf(f)..n \subseteq stored'
    <3>1. StartOf(f) \in Int /\ cursor[f] \in Int
      BY <1>t, CandleStoreAssumption DEF StartOf, CandleTypes
    <3>2. \A t \in StartOf(f)..n : t \in StartOf(f)..(cursor[f] - 1) \/ t \in cursor[f]..n
      BY <3>1
    <3> QED BY <1>2, <2>1, <2>2, <3>2
  <2>4. cursor'[f] = n + 1 BY <1>1, <1>3, <1>t DEF CandleTypes
  <2>5. phase'[f] # "paging" => LastPage(f) BY <1>1, <1>t DEF CandleTypes
  <2> QED BY <1>3, <2>3, <2>4, <2>5
<1>8. CoveredInv'
  <2>1. \A g \in Fillers : StartOf(g)' = StartOf(g) BY <1>1 DEF StartOf
  <2>2. ASSUME NEW g \in Fillers \ {f}
        PROVE  /\ nowAtStart'[g] <= clock'
               /\ clean'[g] /\ phase'[g] = "paging" => StartOf(g)..(cursor'[g] - 1) \subseteq stored'
               /\ clean'[g] /\ phase'[g] # "paging" => StartOf(g)..(nowAtStart'[g] - 1) \subseteq stored'
    BY <1>1, <1>4, <1>6, <1>t DEF CoveredInv
  <2>3. /\ nowAtStart'[f] <= clock'
        /\ clean'[f] /\ phase'[f] = "paging" => StartOf(f)..(cursor'[f] - 1) \subseteq stored'
        /\ clean'[f] /\ phase'[f] # "paging" => StartOf(f)..(nowAtStart'[f] - 1) \subseteq stored'
    <3>1. nowAtStart[f] \in Int /\ StartOf(f) \in Int /\ n \in Int
      BY <1>t, CandleStoreAssumption DEF CandleTypes, StartOf
    <3>2. (n + 1) - 1 = n /\ (nowAtStart[f] <= n + 1
             => StartOf(f)..(nowAtStart[f] - 1) \subseteq StartOf(f)..n)
      BY <3>1
    <3>3. nowAtStart'[f] = nowAtStart[f] /\ nowAtStart[f] <= clock /\ clock' = clock
      BY <1>1, <1>t DEF CoveredInv
    <3> QED BY <1>7, <3>2, <3>3
  <2> QED BY <2>1, <2>2, <2>3 DEF CoveredInv
<1>9. CountInv'
  <2>1. /\ Cardinality(stored) \in Nat /\ Cardinality(stored') \in Nat
        /\ Cardinality(stored) <= Cardinality(stored')
    BY <1>4, StoredGrows
  <2> QED BY <1>1, <1>t, <2>1 DEF CountInv, CandleTypes
<1> QED BY <1>5, <1>8, <1>9 DEF CandleInv
(* A process goes on to something else than paging.                        *)
LEMMA PhaseStep ==
    ASSUME CandleInv, NEW f \in Fillers,
           NEW ph \in {"off", "refresh", "counting", "writing"},
           phase' = [phase EXCEPT ![f] = ph],
           UNCHANGED <<clock, stored, cursor, nowAtStart>>,
           clean' \in [Fillers -> BOOLEAN],
           clean'[f] => clean[f] /\ phase[f] # "paging",
           \A g \in Fillers \ {f} : clean'[g] = clean[g],
           counted' \in Nat, counted' <= Cardinality(stored),
           total' \in Nat, total' <= Cardinality(stored)
    PROVE  CandleInv'
<1>t. CandleTypes /\ CoveredInv /\ CountInv BY DEF CandleInv
<1>1. CandleTypes' BY <1>t DEF CandleTypes
<1>2. /\ phase'[f] = ph /\ ph # "paging" /\ \A g \in Fillers \ {f} : phase'[g] = phase[g]
  BY <1>t DEF CandleTypes
<1>3. CoveredInv'
  <2>1. \A g \in Fillers : StartOf(g)' = StartOf(g) BY DEF StartOf
  <2>2. ASSUME NEW g \in Fillers
        PROVE  /\ nowAtStart[g] <= clock
               /\ clean'[g] /\ phase'[g] = "paging" => StartOf(g)..(cursor[g] - 1) \subseteq stored
               /\ clean'[g] /\ phase'[g] # "paging" => StartOf(g)..(nowAtStart[g] - 1) \subseteq stored
    <3>1. CASE g = f BY <1>2, <1>t, <3>1 DEF CoveredInv
    <3>2. CASE g # f BY <1>2, <1>t, <3>2 DEF CoveredInv
    <3> QED BY <3>1, <3>2
  <2> QED BY <2>1, <2>2 DEF CoveredInv
<1>4. CountInv' BY DEF CountInv
<1> QED BY <1>1, <1>3, <1>4 DEF CandleInv

(* The clock moves on, or candles are stored.                              *)
LEMMA GrowStep ==
    ASSUME CandleInv, clock' \in Nat, clock <= clock',
           stored \subseteq stored', IsFiniteSet(stored'), stored' \subseteq Int,
           UNCHANGED <<counted, phase, cursor, nowAtStart, total, clean>>
    PROVE  CandleInv'
<1>t. CandleTypes /\ CoveredInv /\ CountInv BY DEF CandleInv
<1>1. CandleTypes' BY <1>t, CandleStoreAssumption DEF CandleTypes
<1>2. CoveredInv'
  <2>1. \A g \in Fillers : StartOf(g)' = StartOf(g) BY DEF StartOf
  <2>2. \A g \in Fillers : nowAtStart[g] <= clock'
    BY <1>t DEF CandleTypes, CoveredInv
  <2> QED BY <1>t, <2>1, <2>2 DEF CoveredInv
<1>3. CountInv'
  <2>1. /\ Cardinality(stored) \in Nat /\ Cardinality(stored') \in Nat
        /\ Cardinality(stored) <= Cardinality(stored')
    BY StoredGrows
  <2> QED BY <1>t, <2>1 DEF CountInv, CandleTypes
<1> QED BY <1>1, <1>2, <1>3 DEF CandleInv

LEMMA NextCandle == CandleInv /\ [CandleStoreNext]_candleVars => CandleInv'
<1> SUFFICES ASSUME CandleInv, [CandleStoreNext]_candleVars PROVE CandleInv'
  OBVIOUS
<1>t. CandleTypes /\ CoveredInv /\ CountInv BY DEF CandleInv
<1>f. "runner" \in Fillers /\ "backfill" \in Fillers BY DEF Fillers
<1>c. /\ counted \in Nat /\ total \in Nat /\ Cardinality(stored) \in Nat
      /\ counted <= Cardinality(stored) /\ total <= Cardinality(stored)
  BY <1>t, FS_CardinalityType DEF CountInv, CandleTypes
<1>1. CASE CandleOpens
  <2>1. clock' = clock + 1 /\ stored' = stored
        /\ UNCHANGED <<counted, phase, cursor, nowAtStart, total, clean>>
    BY <1>1 DEF CandleOpens
  <2>2. clock' \in Nat /\ clock <= clock' BY <1>t, <2>1 DEF CandleTypes
  <2> QED BY <1>t, <2>1, <2>2, GrowStep DEF CandleTypes
<1>2. CASE Refresh
  <2>1. clock' = clock /\ stored' = stored \cup RecentCandles
        /\ UNCHANGED <<counted, phase, cursor, nowAtStart, total, clean>>
    BY <1>2 DEF Refresh
  <2>2. RecentCandles \subseteq Int /\ IsFiniteSet(RecentCandles)
    <3>1. clock - Recent + 1 \in Int /\ clock \in Int
      BY <1>t, CandleStoreAssumption DEF CandleTypes
    <3> QED BY <3>1, FS_Interval DEF RecentCandles
  <2>3. IsFiniteSet(stored \cup RecentCandles) BY <1>t, <2>2, FS_Union DEF CandleTypes
  <2>4. clock' \in Nat /\ clock <= clock' BY <1>t, <2>1 DEF CandleTypes
  <2> QED BY <1>t, <2>1, <2>2, <2>3, <2>4, GrowStep DEF CandleTypes
<1>3. CASE RunnerSkipsBackfill
  <2>1. /\ phase' = [phase EXCEPT !["runner"] = "refresh"] /\ phase["runner"] = "off"
        /\ UNCHANGED <<clock, stored, counted, cursor, nowAtStart, total, clean>>
    BY <1>3 DEF RunnerSkipsBackfill
  <2> QED BY <1>c, <1>f, <1>t, <2>1, PhaseStep DEF CandleTypes
<1>4. CASE Count
  <2>1. /\ phase' = [phase EXCEPT !["backfill"] = "writing"] /\ phase["backfill"] = "counting"
        /\ total' \in {Cardinality(stored), 0}
        /\ UNCHANGED <<clock, stored, counted, cursor, nowAtStart, clean>>
    BY <1>4 DEF Count
  <2>2. total' \in Nat /\ total' <= Cardinality(stored) BY <1>c, <2>1
  <2> QED BY <1>c, <1>f, <1>t, <2>1, <2>2, PhaseStep DEF CandleTypes
<1>5. CASE UpdateCandleStats
  <2>1. /\ phase' = [phase EXCEPT !["backfill"] = "off"] /\ phase["backfill"] = "writing"
        /\ counted' = total
        /\ UNCHANGED <<clock, stored, cursor, nowAtStart, total, clean>>
    BY <1>5 DEF UpdateCandleStats, CountWritten
  <2> QED BY <1>c, <1>f, <1>t, <2>1, PhaseStep DEF CandleTypes
<1>6. ASSUME NEW f \in Fillers, PageFails(f) PROVE CandleInv'
  <2>1. /\ clean' = [clean EXCEPT ![f] = FALSE]
        /\ phase' = [phase EXCEPT ![f] = AfterPaging(f)]
        /\ AfterPaging(f) \in {"refresh", "counting"}
        /\ UNCHANGED <<clock, stored, counted, cursor, nowAtStart, total>>
    BY <1>6 DEF PageFails, AfterPaging
  <2>2. FALSE \in BOOLEAN /\ clean \in [Fillers -> BOOLEAN] BY <1>t DEF CandleTypes
  <2>3. /\ clean' \in [Fillers -> BOOLEAN] /\ clean'[f] = FALSE
        /\ \A g \in Fillers \ {f} : clean'[g] = clean[g]
    BY <2>1, <2>2
  <2> QED BY <1>c, <2>1, <2>3, PhaseStep
<1>7. ASSUME NEW f \in Fillers, FillerStops(f) PROVE CandleInv'
  <2>1. /\ clean' = [clean EXCEPT ![f] = clean[f] /\ phase[f] # "paging"]
        /\ phase' = [phase EXCEPT ![f] = "off"]
        /\ UNCHANGED <<clock, stored, counted, cursor, nowAtStart, total>>
    BY <1>7 DEF FillerStops
  <2>2. (clean[f] /\ phase[f] # "paging") \in BOOLEAN /\ clean \in [Fillers -> BOOLEAN]
    BY <1>t DEF CandleTypes
  <2>3. /\ clean' \in [Fillers -> BOOLEAN]
        /\ clean'[f] = (clean[f] /\ phase[f] # "paging")
        /\ \A g \in Fillers \ {f} : clean'[g] = clean[g]
    <3> DEFINE b == clean[f] /\ phase[f] # "paging"
    <3>1. b \in BOOLEAN /\ clean' = [clean EXCEPT ![f] = b] BY <2>1, <2>2
    <3> HIDE DEF b
    <3>2. /\ clean' \in [Fillers -> BOOLEAN] /\ clean'[f] = b
          /\ \A g \in Fillers \ {f} : clean'[g] = clean[g]
      BY <2>2, <3>1
    <3> QED BY <3>2 DEF b
  <2>4. clean'[f] => clean[f] /\ phase[f] # "paging" BY <2>3
  <2>5. "off" \in {"off", "refresh", "counting", "writing"} OBVIOUS
  <2> QED BY <1>c, <2>1, <2>3, <2>4, <2>5, PhaseStep
<1>8. CASE UNCHANGED candleVars
  <2>1. UNCHANGED <<clock, stored, counted, phase, cursor, nowAtStart, total, clean>>
    BY <1>8 DEF candleVars
  <2>2. clock' \in Nat /\ clock <= clock' BY <1>t, <2>1 DEF CandleTypes
  <2> QED BY <1>t, <2>1, <2>2, GrowStep DEF CandleTypes
<1> QED
  BY <1>1, <1>2, <1>3, <1>4, <1>5, <1>6, <1>7, <1>8, <1>f, BeginPagingStep, PageArrivesStep
  DEF CandleStoreNext, RunnerBackfills, BackfillStarts

LEMMA InitCandle == CandleStoreInit => CandleInv
<1> SUFFICES ASSUME CandleStoreInit PROVE CandleInv
  OBVIOUS
<1>1. /\ clock = FirstNow /\ stored = {} /\ counted = 0 /\ total = 0
      /\ phase = [f \in Fillers |-> "off"] /\ cursor = [f \in Fillers |-> 0]
      /\ nowAtStart = [f \in Fillers |-> DaysBack]
  BY DEF CandleStoreInit
<1>2. clean \in [Fillers -> BOOLEAN] /\ \A f \in Fillers : clean[f] = FALSE
  BY DEF CandleStoreInit
<1>3. IsFiniteSet(stored) /\ Cardinality(stored) = 0 BY <1>1, FS_EmptySet
<1>4. CandleTypes BY <1>1, <1>2, <1>3, CandleStoreAssumption DEF CandleTypes
<1>5. CoveredInv BY <1>1, <1>2, CandleStoreAssumption DEF CoveredInv
<1>6. CountInv BY <1>1, <1>3 DEF CountInv
<1> QED BY <1>4, <1>5, <1>6 DEF CandleInv

LEMMA CandleAlways == CandleStoreSpec => []CandleInv
  BY InitCandle, NextCandle, PTL DEF CandleStoreSpec

(* What is asked for and stored is of the time there is.                   *)
TimesInv ==
    /\ clock \in FirstNow..LastNow /\ stored \subseteq Times
    /\ cursor \in [Fillers -> Nat] /\ nowAtStart \in [Fillers -> Nat]

LEMMA NextTimes == CandleInv /\ TimesInv /\ [CandleStoreNext]_candleVars => TimesInv'
<1> SUFFICES ASSUME CandleInv, TimesInv, [CandleStoreNext]_candleVars PROVE TimesInv'
  OBVIOUS
<1> USE CandleStoreAssumption
<1>n. /\ clock \in Nat /\ FirstNow <= clock /\ clock <= LastNow
      /\ PageSize \in Nat /\ DaysBack \in Nat /\ Recent \in Nat
  BY DEF TimesInv
<1>1. CASE CandleOpens
  <2>1. clock' \in FirstNow..LastNow BY <1>1, <1>n DEF CandleOpens
  <2> QED BY <1>1, <2>1 DEF CandleOpens, TimesInv
<1>2. ASSUME NEW f \in Fillers, BeginPaging(f) PROVE TimesInv'
  <2>1. clock - DaysBack \in Nat BY <1>n
  <2> QED BY <1>2, <1>n, <2>1 DEF BeginPaging, TimesInv
<1>3. CASE Refresh
  <2>1. RecentCandles \subseteq Times BY <1>n DEF RecentCandles, Times
  <2> QED BY <1>3, <2>1 DEF Refresh, TimesInv
<1>4. ASSUME NEW f \in Fillers, PageArrives(f) PROVE TimesInv'
  <2>1. /\ PageOf(f) # {} /\ cursor' = [cursor EXCEPT ![f] = NextStart(f)]
        /\ stored' = stored \cup PageOf(f) \/ stored' = stored
        /\ UNCHANGED <<clock, nowAtStart>>
    BY <1>4 DEF PageArrives
  <2>2. cursor[f] \in Nat BY DEF TimesInv
  <2>3. PageOf(f) \subseteq Times BY <1>n, <2>2 DEF PageOf, Times
  <2>4. NextStart(f) \in Nat
    <3>1. PICK n \in Int : n = Max(PageOf(f)) /\ cursor[f] <= n
      BY <2>1, PageBounds DEF CandleInv
    <3> QED BY <2>2, <3>1 DEF NextStart
  <2> QED BY <2>1, <2>3, <2>4 DEF TimesInv
<1>5. CASE UNCHANGED <<clock, stored, cursor, nowAtStart>>
  BY <1>5 DEF TimesInv
<1> QED
  BY <1>1, <1>2, <1>3, <1>4, <1>5
  DEF CandleStoreNext, RunnerBackfills, BackfillStarts, RunnerSkipsBackfill, Count,
      UpdateCandleStats, PageFails, FillerStops, candleVars, Fillers

LEMMA CandleTypesAlways == CandleStoreSpec => []CandleStoreTypeOK
<1>1. CandleStoreInit => TimesInv
  BY CandleStoreAssumption DEF CandleStoreInit, TimesInv
<1>2. CandleInv /\ TimesInv => CandleStoreTypeOK
  BY DEF CandleInv, CandleTypes, TimesInv, CandleStoreTypeOK
<1> QED BY <1>1, <1>2, NextTimes, CandleAlways, PTL DEF CandleStoreSpec

(* A backfill in which nothing failed leaves no gap, and the registry      *)
(* claims no candle that is not there: for any page size, any history and  *)
(* two processes that fill the table at once.                              *)
THEOREM BackfillsLeaveNoGap == CandleStoreSpec => []CleanBackfillIsWhole
<1>1. CandleInv => CleanBackfillIsWhole
  BY DEF CandleInv, CoveredInv, CountInv, CleanBackfillIsWhole
<1> QED BY <1>1, CandleAlways, PTL
=============================================================================
