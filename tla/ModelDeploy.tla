----------------------------- MODULE ModelDeploy -----------------------------
(***************************************************************************)
(* Training and deployment of one scope's pair of models, historian and    *)
(* predictor.  Every trading runner has a ModelTrainer that refits them    *)
(* while it trades, and the data runner has one for its bootstrap; each is *)
(* a process of its own.  A deployment writes two files of the same        *)
(* version, one after the other, without a temporary file; a start loads   *)
(* of each model the file whose NAME sorts last.  A model is the number of *)
(* the training that produced it.                                          *)
(***************************************************************************)
EXTENDS Integers, FiniteSets

CONSTANTS Trainers,       \* the processes that own a ModelTrainer
          FirstVersion,   \* the version on disk at the start, or 0
          MaxTrainings    \* bound: trainings

ASSUME ModelDeployAssumption ==
  /\ Trainers # {} /\ FirstVersion \in Nat /\ MaxTrainings \in Nat
  /\ FirstVersion + MaxTrainings < 100

VARIABLES file,       \* the model files: training number, Torn or None
          step,       \* per process: "down", "ready", or deploying
          memory,     \* the two models a process holds
          tosave,     \* what its deployment has still to save
          version,    \* the version it saves as
          trainings,  \* trainings so far
          last,       \* the training deployed last
          alone,      \* processes whose deployment met no other one
          whole       \* FALSE while the last deployment was cut or overlapped

deployVars == <<file, step, memory, tosave, version, trainings, last, alone, whole>>

None == 0
Torn == -1
Models == {"historian", "predictor"}
FileVersions == 1..FirstVersion + MaxTrainings
Deploying(p) == step[p] \in {"deploy", "writing"}

ModelDeployTypeOK ==
  /\ file \in [Models -> [FileVersions -> {None, Torn} \cup 1..MaxTrainings + 1]]
  /\ step \in [Trainers -> {"down", "ready", "deploy", "writing"}]
  /\ memory \in [Trainers -> [Models -> 0..MaxTrainings + 1]]
  /\ tosave \in [Trainers -> SUBSET Models]
  /\ version \in [Trainers -> 0..FirstVersion + MaxTrainings]
  /\ trainings \in 1..MaxTrainings + 1 /\ last \in 0..MaxTrainings + 1
  /\ alone \subseteq Trainers /\ whole \in BOOLEAN

ModelDeployInit ==
  /\ file = [m \in Models |-> [v \in FileVersions |-> IF v = FirstVersion THEN 1 ELSE None]]
  /\ step = [p \in Trainers |-> "down"]
  /\ memory = [p \in Trainers |-> [m \in Models |-> None]]
  /\ tosave = [p \in Trainers |-> {}] /\ version = [p \in Trainers |-> 0]
  /\ trainings = 1 /\ alone = {} /\ whole = TRUE
  /\ last = IF FirstVersion = 0 THEN None ELSE 1

(* sorted(glob("<scope>_<name>_v*.joblib")): names are compared, not       *)
(* numbers, so that v10 comes before v9.  Versions have at most two digits.*)
Digits(v) == IF v < 10 THEN <<v, -1>> ELSE <<v \div 10, v % 10>>
SortsBefore(v, w) ==
  \/ Digits(v)[1] < Digits(w)[1]
  \/ Digits(v)[1] = Digits(w)[1] /\ Digits(v)[2] < Digits(w)[2]
OnDisk(m) == {v \in FileVersions : file[m][v] # None}
LatestVersion(m) ==
  IF OnDisk(m) = {} THEN 0
  ELSE CHOOSE v \in OnDisk(m) : \A w \in OnDisk(m) \ {v} : SortsBefore(w, v)

(* ModelRegistry.load: a file that cannot be read is no model.             *)
Loaded(m) == LET v == LatestVersion(m)
             IN IF v = 0 \/ file[m][v] = Torn THEN None ELSE file[m][v]

(* A process starts: ModelTrainer.__init__ and _try_load_models.           *)
StartTrainer(p) ==
  /\ step[p] = "down"
  /\ step' = [step EXCEPT ![p] = "ready"]
  /\ memory' = [memory EXCEPT ![p] = [m \in Models |-> Loaded(m)]]
  /\ UNCHANGED <<file, tosave, version, trainings, last, alone, whole>>

\* Mutant: each accurate model is saved.
AcceptedEach(good) == good

(* _maybe_deploy: both models are saved when both are accurate enough.     *)
Accepted(good) == IF good = Models THEN Models ELSE {}

(* bootstrap or incremental: the models are refitted in place, those with  *)
(* enough samples, and a predict_fn handed out before uses them at once;   *)
(* next_version of the historian is the version of both files.             *)
Train(p, fitted, good) ==
  /\ step[p] = "ready" /\ trainings <= MaxTrainings
  /\ good \subseteq fitted
  /\ trainings' = trainings + 1
  /\ memory' = [memory EXCEPT ![p] = [m \in Models |-> IF m \in fitted THEN trainings' ELSE @[m]]]
  /\ tosave' = [tosave EXCEPT ![p] = Accepted(good)]
  /\ IF Accepted(good) = {}
     THEN UNCHANGED <<step, version, alone>>
     ELSE /\ alone' = IF \E q \in Trainers : Deploying(q) THEN {} ELSE {p}
          /\ step' = [step EXCEPT ![p] = "deploy"]
          /\ version' = [version EXCEPT ![p] = LatestVersion("historian") + 1]
  /\ UNCHANGED <<file, last, whole>>

(* The historian is saved first; joblib.dump empties the file, then fills  *)
(* it, then a row is added to ml_training_runs and model_stats.            *)
Saving(p) == IF "historian" \in tosave[p] THEN "historian" ELSE "predictor"

OpenFile(p) ==
  /\ step[p] = "deploy"
  /\ file' = [file EXCEPT ![Saving(p)][version[p]] = Torn]
  /\ step' = [step EXCEPT ![p] = "writing"]
  /\ UNCHANGED <<memory, tosave, version, trainings, last, alone, whole>>

FillFile(p) ==
  /\ step[p] = "writing"
  /\ file' = [file EXCEPT ![Saving(p)][version[p]] = memory[p][Saving(p)]]
  /\ tosave' = [tosave EXCEPT ![p] = @ \ {Saving(p)}]
  /\ IF tosave'[p] # {}
     THEN step' = [step EXCEPT ![p] = "deploy"] /\ UNCHANGED <<last, whole>>
     ELSE /\ step' = [step EXCEPT ![p] = "ready"]
          /\ last' = memory[p][Saving(p)]
          /\ whole' = (p \in alone)
  /\ UNCHANGED <<memory, version, trainings, alone>>

(* The process is stopped or dies, maybe in the middle of a file.          *)
StopTrainer(p) ==
  /\ step[p] # "down"
  /\ step' = [step EXCEPT ![p] = "down"]
  /\ tosave' = [tosave EXCEPT ![p] = {}]
  /\ memory' = [memory EXCEPT ![p] = [m \in Models |-> None]]
  /\ version' = [version EXCEPT ![p] = 0]
  /\ whole' = (whole /\ ~Deploying(p))
  /\ UNCHANGED <<file, trainings, last, alone>>

ModelDeployNext ==
  \E p \in Trainers :
    \/ StartTrainer(p) \/ OpenFile(p) \/ FillFile(p) \/ StopTrainer(p)
    \/ \E fitted, good \in SUBSET Models : Train(p, fitted, good)

ModelDeploySpec == ModelDeployInit /\ [][ModelDeployNext]_deployVars

(* While nobody deploys and the last deployment was neither cut nor        *)
(* overlapped by another, a start loads the historian and the predictor of *)
(* that deployment, also when earlier ones left a lone or an unreadable    *)
(* file behind - as long as all versions have one digit.                   *)
NewestPairLoads ==
  /\ whole /\ (\A p \in Trainers : ~Deploying(p))
  /\ \A m \in Models : \A v \in OnDisk(m) : v < 10
  => \A m \in Models : Loaded(m) = last
=============================================================================
