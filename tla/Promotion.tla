----------------------------- MODULE Promotion ------------------------------
(***************************************************************************)
(* ml/pipelines/retrain_and_promote.py as a client of the model registry:  *)
(* a run trains a candidate, registers it, reads the accuracy of the       *)
(* version in production and deploys the candidate if it is better.  Each  *)
(* of its HTTP requests is a step, so runs interleave with each other and  *)
(* with whoever else registers, deploys and rolls back.                    *)
(***************************************************************************)
EXTENDS ModelRegistry

CONSTANTS
    Pipelines,       \* runs of the script
    Accuracies,      \* accuracies an evaluation comes to
    MinImprovement,  \* --min-improvement
    Unmeasured,      \* metrics without an accuracy
    NoMetrics,       \* a null metrics column: registered without metrics
    NoRequest        \* no deploy request open

ASSUME AccuraciesAssumption == Accuracies \subseteq Int
ASSUME MinImprovementAssumption == MinImprovement \in Int
ASSUME NoRequestAssumption == NoRequest \notin Txs

VARIABLES
    accuracy,   \* accuracy[v]: what the metrics column of v says
    job,        \* job[p]: where run p is and what it has read
    overtaken   \* runs during which another client wrote to the registry (history)

promotionVars == <<accuracy, job, overtaken>>
allVars == <<vars, promotionVars>>

Metrics == Accuracies \cup {Unmeasured, NoMetrics}
Job == [pc: {"start", "compare", "promote", "deploying",
             "promoted", "rejected", "raised"},
        version: Versions \cup {NoVersion}, accuracy: Metrics, base: Metrics,
        tx: Txs \cup {NoRequest}]
NoJob == [pc |-> "start", version |-> NoVersion, accuracy |-> Unmeasured,
          base |-> Unmeasured, tx |-> NoRequest]

PromotionTypeOK ==
    /\ TypeOK
    /\ accuracy \in [Versions -> Metrics]
    /\ job \in [Pipelines -> Job]
    /\ overtaken \subseteq Pipelines

PromotionInit ==
    /\ Init
    /\ accuracy = [v \in Versions |-> NoMetrics]
    /\ job = [p \in Pipelines |-> NoJob]
    /\ overtaken = {}

----------------------------------------------------------------------------
Goto(p, label) == job' = [job EXCEPT ![p].pc = label]

(* A write of the registry overtakes those of the runs ps that are past    *)
(* registering their candidate and not at their end.                       *)
Overtake(ps) ==
    overtaken' = overtaken \cup {p \in ps : job[p].pc \in {"compare", "promote", "deploying"}}

(* Steps 1 to 3: the subprocesses train version v and find accuracy a, and *)
(* the candidate is upserted with these metrics, in staging.               *)
RegisterCandidate(p, v, a) ==
    /\ job[p].pc = "start"
    /\ Register(v)
    /\ accuracy' = [accuracy EXCEPT ![v] = a]
    /\ job' = [job EXCEPT ![p] = [pc |-> "compare", version |-> v, accuracy |-> a,
                                   base |-> Unmeasured, tx |-> NoRequest]]
    /\ Overtake(Pipelines \ {p})

(* Mutant of Clears: the difference taken the wrong way round.             *)
ClearsBackwards(candidate, base) ==
    base \in Accuracies => base - candidate >= MinImprovement

(* No accuracy to compare with: promoted unconditionally.                  *)
Clears(candidate, base) ==
    base \in Accuracies => candidate - base >= MinImprovement

Compared(p, base) ==
    /\ job' = [job EXCEPT ![p].base = base,
                          ![p].pc = IF Clears(job[p].accuracy, base) THEN "promote" ELSE "rejected"]
    /\ UNCHANGED <<vars, accuracy, overtaken>>

(* Step 4: GET .../production answers 404, so there is nothing to beat.    *)
CompareWithNone(p) ==
    /\ job[p].pc = "compare"
    /\ InProduction = {}
    /\ Compared(p, Unmeasured)

(* It answers with a version in production; null metrics have no get().    *)
CompareWith(p, v) ==
    /\ job[p].pc = "compare"
    /\ v \in InProduction
    /\ accuracy[v] # NoMetrics
    /\ Compared(p, accuracy[v])

(* POST .../deploy arrives at the registry.                                *)
Promote(p, t) ==
    /\ job[p].pc = "promote"
    /\ BeginDeploy(t, job[p].version)
    /\ job' = [job EXCEPT ![p].pc = "deploying", ![p].tx = t]
    /\ UNCHANGED <<accuracy, overtaken>>

(* A subprocess or a request fails, 5 seconds pass without an answer, or   *)
(* the run is killed: no step catches it.  The registry works on.          *)
Raise(p) ==
    /\ job[p].pc \in {"start", "compare", "promote", "deploying"}
    /\ job' = [job EXCEPT ![p] = [NoJob EXCEPT !.pc = "raised"]]
    /\ UNCHANGED <<vars, accuracy, overtaken>>

(* Mutant of Outcome: raise_for_status is not called.                      *)
OutcomeUnchecked(committed) == "promoted"

(* raise_for_status on the answer to the deploy request.                   *)
Outcome(committed) == IF committed THEN "promoted" ELSE "raised"

(* A transaction goes on; at its end the run that waits for it is told.    *)
RegistryMove(t) ==
    LET committed == Len(events') > Len(events)
    IN /\ TxMove(t)
       /\ job' = [p \in Pipelines |->
                    IF job[p].tx = t /\ tx'[t].pc = "idle"
                      THEN [job[p] EXCEPT !.pc = Outcome(committed), !.tx = NoRequest]
                      ELSE job[p]]
       /\ IF committed THEN Overtake({p \in Pipelines : job[p].tx # t})
                       ELSE UNCHANGED overtaken
       /\ UNCHANGED accuracy

(* Another client of the registry registers a version with some metrics.   *)
OthersRegister(v, m) ==
    /\ Register(v)
    /\ accuracy' = [accuracy EXCEPT ![v] = m]
    /\ Overtake(Pipelines)
    /\ UNCHANGED job

OthersRequest ==
    /\ Request
    /\ UNCHANGED promotionVars

PipelineStep(p) ==
    \/ \E v \in Versions, a \in Accuracies : RegisterCandidate(p, v, a)
    \/ CompareWithNone(p)
    \/ \E v \in Versions : CompareWith(p, v)
    \/ \E t \in Txs : Promote(p, t)
    \/ Raise(p)

PromotionNext ==
    \/ \E p \in Pipelines : PipelineStep(p)
    \/ \E v \in Versions, m \in Metrics : OthersRegister(v, m)
    \/ OthersRequest
    \/ \E t \in Txs : RegistryMove(t)

PromotionSpec == PromotionInit /\ [][PromotionNext]_allVars

----------------------------------------------------------------------------
(* A run that exits with 0 has deployed: its event is in the audit log,    *)
(* whatever failed or timed out after its request.                         *)
ExitZeroIsDeployed ==
    \A p \in Pipelines : job[p].pc = "promoted" =>
        \E i \in 1..Len(events) : events[i] = [version |-> job[p].version, action |-> "deploy"]

(* The transaction run p waits for commits.                                *)
Promotes(p) == job[p].pc = "deploying" /\ job'[p].pc = "promoted"

(* retrain_and_promote.py: "Promotes it to production ONLY if it beats the *)
(* current production version's accuracy by --min-improvement".            *)
(* Registration, comparison and deploy are requests of their own, so this  *)
(* is kept only when nobody else wrote to the registry between them.       *)
PromotesOnlyBetter ==
    [][ \A p \in Pipelines \ overtaken : \A old \in InProduction :
          Promotes(p) /\ accuracy[old] \in Accuracies =>
            accuracy[job[p].version] - accuracy[old] >= MinImprovement ]_allVars
=============================================================================
