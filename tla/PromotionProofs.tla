--------------------------- MODULE PromotionProofs --------------------------
(***************************************************************************)
(* Proofs about the retrain and promote pipeline beside any other clients  *)
(* of the registry, for any number of runs, versions, accuracies and       *)
(* requests at the same time.                                              *)
(***************************************************************************)
EXTENDS Promotion, RegistryProofs

Underway(p) == job[p].pc \in {"compare", "promote", "deploying"}

(* What a run carries from one of its requests to the next.                *)
JobInv ==
    /\ accuracy \in [Versions -> Metrics]
    /\ job \in [Pipelines -> Job]
    /\ overtaken \subseteq Pipelines
    /\ \A p \in Pipelines :
          /\ Underway(p) => job[p].version \in Versions
          /\ IF job[p].pc = "deploying" THEN job[p].tx \in Txs ELSE job[p].tx = NoRequest

(* The transaction a run waits for is open and deploys its candidate.      *)
AnswerInv ==
    \A p \in Pipelines : job[p].pc = "deploying" =>
        LET t == job[p].tx
        IN tx[t].pc # "idle" /\ tx[t].kind = "deploy" /\ tx[t].version = job[p].version

(* What a run has read is still so, unless somebody overtook it.           *)
BeatInv ==
    \A p \in Pipelines \ overtaken :
        /\ Underway(p) => accuracy[job[p].version] = job[p].accuracy
        /\ job[p].pc \in {"promote", "deploying"} =>
              \A v \in InProduction : Clears(job[p].accuracy, accuracy[v])

----------------------------------------------------------------------------
(* A run reads the accuracy to beat, and is rejected or goes on.           *)
LEMMA ComparedJob ==
    ASSUME NEW r \in Job, NEW label \in {"promote", "rejected"}, NEW base \in Metrics
    PROVE  [r EXCEPT !.base = base, !.pc = label] \in Job
BY DEF Job

(* A run sends its request, or gets the answer.                            *)
Requesting(r, label, t) == [r EXCEPT !.pc = label, !.tx = t]

(* What a run keeps while its request is made and answered.                *)
LEMMA RequestingJob ==
    ASSUME NEW r \in Job, NEW label \in {"deploying", "promoted", "raised"},
           NEW t \in Txs \cup {NoRequest}
    PROVE  /\ Requesting(r, label, t) \in Job
           /\ Requesting(r, label, t).pc = label
           /\ Requesting(r, label, t).tx = t
           /\ Requesting(r, label, t).version = r.version
           /\ Requesting(r, label, t).accuracy = r.accuracy
BY DEF Job, Requesting

(* Every step keeps the runs' states and versions in their types.          *)
LEMMA JobStep ==
    ASSUME JobInv, [PromotionNext]_allVars
    PROVE  JobInv'
<1> USE DEF JobInv
<1>1. ASSUME NEW p \in Pipelines, NEW r \in Job, job' = [job EXCEPT ![p] = r],
             r.pc \in {"compare", "promote", "deploying"} => r.version \in Versions,
             IF r.pc = "deploying" THEN r.tx \in Txs ELSE r.tx = NoRequest
      PROVE  /\ job' \in [Pipelines -> Job]
             /\ \A q \in Pipelines :
                  /\ Underway(q)' => job'[q].version \in Versions
                  /\ IF job'[q].pc = "deploying" THEN job'[q].tx \in Txs
                                                 ELSE job'[q].tx = NoRequest
  BY <1>1 DEF Underway
<1>2. ASSUME NEW p \in Pipelines, NEW v \in Versions, NEW a \in Accuracies,
             RegisterCandidate(p, v, a)
      PROVE  JobInv'
  <2> DEFINE r == [pc |-> "compare", version |-> v, accuracy |-> a, base |-> Unmeasured,
                   tx |-> NoRequest]
  <2>1. r \in Job
    BY DEF Job, Metrics
  <2>2. job' = [job EXCEPT ![p] = r]
    BY <1>2 DEF RegisterCandidate
  <2>3. accuracy' \in [Versions -> Metrics] /\ overtaken' \subseteq Pipelines
    BY <1>2 DEF RegisterCandidate, Overtake, Metrics
  <2>4. r.version \in Versions /\ r.pc = "compare" /\ r.tx = NoRequest
    OBVIOUS
  <2> HIDE DEF r
  <2> QED
    BY <1>1, <2>1, <2>2, <2>3, <2>4
<1>3. ASSUME NEW p \in Pipelines, NEW base \in Metrics, Compared(p, base), job[p].pc = "compare"
      PROVE  JobInv'
  <2> DEFINE label == IF Clears(job[p].accuracy, base) THEN "promote" ELSE "rejected"
             r == [job[p] EXCEPT !.base = base, !.pc = label]
  <2>1. job' = [job EXCEPT ![p] = r]
    BY <1>3 DEF Compared
  <2>2. label \in {"promote", "rejected"}
    OBVIOUS
  <2> HIDE DEF label
  <2>3. r \in Job
    BY <2>2, ComparedJob
  <2>4. r.pc = label /\ r.version = job[p].version /\ r.tx = job[p].tx
    BY DEF Job
  <2>5. job[p].version \in Versions /\ job[p].tx = NoRequest
    BY <1>3 DEF Underway
  <2>6. accuracy' = accuracy /\ overtaken' = overtaken
    BY <1>3 DEF Compared
  <2> HIDE DEF r
  <2> QED
    BY <1>1, <2>1, <2>2, <2>3, <2>4, <2>5, <2>6
<1>4. ASSUME NEW p \in Pipelines, NEW t \in Txs, Promote(p, t)
      PROVE  JobInv'
  <2> DEFINE r == Requesting(job[p], "deploying", t)
  <2>1. /\ job' = [job EXCEPT ![p] = r]
        /\ accuracy' = accuracy /\ overtaken' = overtaken
    BY <1>4 DEF Promote, Requesting
  <2>2. r \in Job /\ r.pc = "deploying" /\ r.version = job[p].version /\ r.tx = t
    <3>1. job[p] \in Job
      OBVIOUS
    <3> HIDE DEF JobInv
    <3> QED
      BY <3>1, RequestingJob
  <2>3. job[p].version \in Versions
    BY <1>4 DEF Promote, Underway
  <2> HIDE DEF r
  <2> QED
    BY <1>1, <2>1, <2>2, <2>3
<1>5. ASSUME NEW p \in Pipelines, Raise(p)
      PROVE  JobInv'
  <2> DEFINE r == [pc |-> "raised", version |-> NoVersion, accuracy |-> Unmeasured,
                   base |-> Unmeasured, tx |-> NoRequest]
  <2>1. /\ job' = [job EXCEPT ![p] = r]
        /\ accuracy' = accuracy /\ overtaken' = overtaken
    <3>1. r = [NoJob EXCEPT !.pc = "raised"]
      BY DEF NoJob
    <3> QED
      BY <1>5, <3>1 DEF Raise
  <2>2. r \in Job
    BY DEF Job, Metrics
  <2> QED
    BY <1>1, <2>1, <2>2
<1>6. ASSUME NEW t \in Txs, RegistryMove(t)
      PROVE  JobInv'
  <2> DEFINE label == Outcome(Len(events') > Len(events))
  <2>1. label \in {"deploying", "promoted", "raised"} /\ label # "deploying"
    BY DEF Outcome
  <2> HIDE DEF label
  <2>2. job' = [p \in Pipelines |-> IF job[p].tx = t /\ tx'[t].pc = "idle"
                                      THEN Requesting(job[p], label, NoRequest)
                                      ELSE job[p]]
    BY <1>6 DEF RegistryMove, Requesting, label
  <2>3. ASSUME NEW p \in Pipelines
        PROVE  /\ Requesting(job[p], label, NoRequest) \in Job
               /\ Requesting(job[p], label, NoRequest).pc = label
               /\ Requesting(job[p], label, NoRequest).tx = NoRequest
    <3> DEFINE r == job[p]
    <3>1. r \in Job
      OBVIOUS
    <3> HIDE DEF r, JobInv
    <3>2. label \in {"deploying", "promoted", "raised"} /\ NoRequest \in Txs \cup {NoRequest}
      BY <2>1
    <3>3. /\ Requesting(r, label, NoRequest) \in Job
          /\ Requesting(r, label, NoRequest).pc = label
          /\ Requesting(r, label, NoRequest).tx = NoRequest
      BY <3>1, <3>2, RequestingJob, SMTT(40)
    <3> QED
      BY <3>3 DEF r
  <2>4. accuracy' = accuracy /\ overtaken' \subseteq Pipelines
    BY <1>6 DEF RegistryMove, Overtake
  <2>5. \A p \in Pipelines : \/ job'[p] = job[p]
                             \/ job'[p] \in Job /\ job'[p].pc = label /\ job'[p].tx = NoRequest
    BY <2>2, <2>3
  <2>6. DOMAIN job' = Pipelines /\ job' = [p \in Pipelines |-> job'[p]]
    BY <2>2
  <2> QED
    BY <2>1, <2>4, <2>5, <2>6 DEF Underway
<1>7. ASSUME NEW v \in Versions, NEW m \in Metrics, OthersRegister(v, m)
      PROVE  JobInv'
  BY <1>7 DEF OthersRegister, Overtake, Underway
<1>8. CASE OthersRequest \/ UNCHANGED allVars
  BY <1>8 DEF OthersRequest, allVars, promotionVars, Underway
<1>9. ASSUME NEW p \in Pipelines, PipelineStep(p)
      PROVE  JobInv'
  <2>1. ASSUME NEW v \in Versions, CompareWith(p, v)
        PROVE  Compared(p, accuracy[v]) /\ job[p].pc = "compare" /\ accuracy[v] \in Metrics
    BY <2>1 DEF CompareWith
  <2>2. CompareWithNone(p) => Compared(p, Unmeasured) /\ job[p].pc = "compare"
    BY DEF CompareWithNone
  <2>3. Unmeasured \in Metrics
    BY DEF Metrics
  <2> QED
    BY <1>2, <1>3, <1>4, <1>5, <1>9, <2>1, <2>2, <2>3 DEF PipelineStep
<1> QED
  BY <1>6, <1>7, <1>8, <1>9 DEF PromotionNext

(* To the registry the pipelines are clients like any other.               *)
LEMMA RegistryView ==
    ASSUME JobInv, [PromotionNext]_allVars
    PROVE  [Next]_vars
<1>1. ASSUME NEW p \in Pipelines, PipelineStep(p)
      PROVE  [Next]_vars
  <2>1. ASSUME NEW v \in Versions, NEW a \in Accuracies, RegisterCandidate(p, v, a)
        PROVE  Next
    BY <2>1 DEF RegisterCandidate, Next
  <2>2. ASSUME NEW t \in Txs, Promote(p, t)
        PROVE  Next
    BY <2>2 DEF Promote, JobInv, Underway, Next, Request
  <2>3. CompareWithNone(p) \/ (\E v \in Versions : CompareWith(p, v)) \/ Raise(p) => UNCHANGED vars
    BY DEF CompareWithNone, CompareWith, Compared, Raise
  <2> QED
    BY <1>1, <2>1, <2>2, <2>3 DEF PipelineStep
<1>2. ASSUME NEW v \in Versions, NEW m \in Metrics, OthersRegister(v, m)
      PROVE  Next
  BY <1>2 DEF OthersRegister, Next
<1>3. OthersRequest => Next
  BY DEF OthersRequest, Next
<1>4. ASSUME NEW t \in Txs, RegistryMove(t)
      PROVE  Next
  BY <1>4 DEF RegistryMove, Next
<1>5. UNCHANGED allVars => UNCHANGED vars
  BY DEF allVars
<1> QED
  BY <1>1, <1>2, <1>3, <1>4, <1>5 DEF PromotionNext

(* Every behaviour of the composition is one of the registry.              *)
LEMMA JobInvariance ==
    PromotionSpec => Init /\ [][Next]_vars /\ []JobInv
<1>1. PromotionInit => Init /\ JobInv
  BY DEF PromotionInit, JobInv, NoJob, Job, Metrics, Underway
<1>2. JobInv /\ [PromotionNext]_allVars => JobInv' /\ [Next]_vars
  BY JobStep, RegistryView
<1> QED
  BY <1>1, <1>2, PTL DEF PromotionSpec

(* The registry under the pipeline is the registry: its invariant holds.   *)
LEMMA RegistryInvariance == PromotionSpec => []IInv
BY JobInvariance, Invariance, PTL

----------------------------------------------------------------------------
(* A move of the registry commits, or changes neither table nor log; the   *)
(* other transactions keep their place.                                    *)
LEMMA MoveKinds ==
    ASSUME IInv, NEW t \in Txs, TxMove(t)
    PROVE  /\ \/ Commit(t) /\ Len(events') > Len(events)
              \/ UNCHANGED <<rows, events>> /\ ~(Len(events') > Len(events))
           /\ \A u \in Txs \ {t} : tx'[u] = tx[u]
<1>1. Len(events) \in Nat
  BY LastEvent DEF IInv
<1>2. ASSUME Commit(t)
      PROVE  Len(events') > Len(events)
  <2>1. Len(events') = Len(events) + 1
    BY <1>2, CommitEffect DEF IInv
  <2> QED
    BY <1>1, <2>1
<1> USE DEF TxMove, TxStep, Select, SelectNotFound, DemoteRow, StartPromote, PromoteNotFound,
            PromoteRow, Fail, DeadlockAbort, Abort
<1>3. ~Commit(t) => UNCHANGED <<rows, events>>
  OBVIOUS
<1>4. \A u \in Txs \ {t} : tx'[u] = tx[u]
  BY DEF Commit, IInv, TypeOK
<1> QED
  BY <1>1, <1>2, <1>3, <1>4

(* A transaction that deploys keeps its version until its end.             *)
LEMMA DeployKeeps ==
    ASSUME IInv, NEW t \in Txs, TxMove(t), tx[t].kind = "deploy", tx[t].pc # "idle"
    PROVE  \/ tx'[t].pc = "idle"
           \/ tx'[t].pc # "idle" /\ tx'[t].kind = "deploy" /\ tx'[t].version = tx[t].version
<1> USE DEF IInv
<1>1. ~Select(t)
  BY DEF Select, TxInv
<1>2. Commit(t) \/ Abort(t) => tx'[t].pc = "idle"
  BY DEF Commit, Abort, NoTx, TypeOK
<1>3. ASSUME NEW v \in Versions, DemoteRow(t, v)
      PROVE  tx'[t].pc = "demote" /\ tx'[t].kind = tx[t].kind /\ tx'[t].version = tx[t].version
  BY <1>3 DEF DemoteRow, TypeOK, Tx
<1>4. StartPromote(t) =>
        tx'[t].pc = "promote" /\ tx'[t].kind = tx[t].kind /\ tx'[t].version = tx[t].version
  BY DEF StartPromote, TypeOK, Tx
<1>5. PromoteRow(t) =>
        tx'[t].pc = "commit" /\ tx'[t].kind = tx[t].kind /\ tx'[t].version = tx[t].version
  BY DEF PromoteRow, TypeOK, Tx
<1> QED
  BY <1>1, <1>2, <1>3, <1>4, <1>5
     DEF TxMove, TxStep, SelectNotFound, PromoteNotFound, Fail, DeadlockAbort

(* What a step does to a run.                                              *)
LEMMA JobKinds ==
    ASSUME JobInv, [PromotionNext]_allVars, NEW p \in Pipelines
    PROVE  \/ job'[p] = job[p]
           \/ \E v \in Versions, a \in Accuracies : RegisterCandidate(p, v, a)
           \/ \E v \in Versions : CompareWith(p, v)
           \/ CompareWithNone(p)
           \/ \E t \in Txs : Promote(p, t)
           \/ Raise(p)
           \/ \E t \in Txs : RegistryMove(t) /\ job[p].tx = t /\ tx'[t].pc = "idle"
<1>1. ASSUME NEW q \in Pipelines, q # p, PipelineStep(q)
      PROVE  job'[p] = job[p]
  BY <1>1 DEF PipelineStep, RegisterCandidate, CompareWith, CompareWithNone, Compared, Promote, Raise,
              JobInv
<1>2. ASSUME NEW t \in Txs, RegistryMove(t), ~(job[p].tx = t /\ tx'[t].pc = "idle")
      PROVE  job'[p] = job[p]
  BY <1>2 DEF RegistryMove
<1>3. ASSUME \/ \E v \in Versions, m \in Metrics : OthersRegister(v, m)
             \/ OthersRequest \/ UNCHANGED allVars
      PROVE  job'[p] = job[p]
  BY <1>3 DEF OthersRegister, OthersRequest, allVars, promotionVars
<1> QED
  BY <1>1, <1>2, <1>3 DEF PromotionNext, PipelineStep

(* Only a move of the registry ends a transaction.                         *)
LEMMA EndsByMove ==
    ASSUME IInv, [PromotionNext]_allVars, NEW t \in Txs, tx[t].pc # "idle", tx'[t].pc = "idle"
    PROVE  RegistryMove(t)
<1>1. ASSUME NEW u \in Txs, RegistryMove(u)
      PROVE  u = t
  <2>1. TxMove(u)
    BY <1>1 DEF RegistryMove
  <2> QED
    BY <2>1, MoveKinds
<1>2. ASSUME NEW u \in Txs, NEW v, BeginDeploy(u, v)
      PROVE  FALSE
  BY <1>2 DEF BeginDeploy, IInv, TypeOK
<1>3. ASSUME NEW u \in Txs, BeginRollback(u)
      PROVE  FALSE
  BY <1>3 DEF BeginRollback, IInv, TypeOK
<1>4. ASSUME tx' = tx
      PROVE  FALSE
  BY <1>4
<1>5. ASSUME OthersRequest
      PROVE  FALSE
  BY <1>2, <1>3, <1>4, <1>5 DEF OthersRequest, Request, SetTraffic
<1>6. ASSUME NEW v \in Versions, NEW m \in Metrics, OthersRegister(v, m)
      PROVE  FALSE
  BY <1>4, <1>6 DEF OthersRegister, Register
<1>7. ASSUME NEW p \in Pipelines, PipelineStep(p)
      PROVE  FALSE
  BY <1>2, <1>4, <1>7 DEF PipelineStep, RegisterCandidate, Register, CompareWith, CompareWithNone,
                          Compared, Promote, Raise, vars
<1>8. CASE UNCHANGED allVars
  BY <1>4, <1>8 DEF allVars, vars
<1> QED
  BY <1>1, <1>5, <1>6, <1>7, <1>8 DEF PromotionNext

(* The log only grows.                                                     *)
LEMMA LogGrows ==
    ASSUME IInv, [Next]_vars
    PROVE  \A i \in 1..Len(events) : i \in 1..Len(events') /\ events'[i] = events[i]
<1>1. ASSUME NEW t \in Txs, Commit(t), NEW i \in 1..Len(events)
      PROVE  i \in 1..Len(events') /\ events'[i] = events[i]
  <2>1. Len(events') = Len(events) + 1 /\ events'[i] = events[i]
    BY <1>1, CommitEffect DEF IInv
  <2>2. Len(events) \in Nat
    BY LastEvent DEF IInv
  <2> QED
    BY <2>1, <2>2
<1>2. ASSUME events' = events, NEW i \in 1..Len(events)
      PROVE  i \in 1..Len(events') /\ events'[i] = events[i]
  BY <1>2
<1>3. (\E t \in Txs : Commit(t)) \/ events' = events
  BY StepKinds DEF Register, SetTraffic, BeginDeploy, DemoteRow, BeginRollback, Select, StartPromote,
                   PromoteRow, Abort, vars
<1> QED
  BY <1>1, <1>2, <1>3

(* The answer of the registry ends a run: with success if it committed.    *)
LEMMA AnsweredJob ==
    ASSUME JobInv, NEW p \in Pipelines, NEW t \in Txs, RegistryMove(t), job[p].tx = t,
           tx'[t].pc = "idle"
    PROVE  /\ job[p].pc = "deploying"
           /\ job'[p].pc = Outcome(Len(events') > Len(events))
           /\ job'[p].version = job[p].version
           /\ job'[p].accuracy = job[p].accuracy
<1>1. job'[p] = [job[p] EXCEPT !.pc = Outcome(Len(events') > Len(events)), !.tx = NoRequest]
  BY DEF RegistryMove
<1>2. job[p].pc = "deploying"
  BY NoRequestAssumption DEF JobInv
<1>3. job[p] \in Job
  BY DEF JobInv
<1> QED
  BY <1>1, <1>2, <1>3 DEF Job

(* A run sends its request.                                                *)
LEMMA PromotingJob ==
    ASSUME JobInv, NEW p \in Pipelines, NEW t \in Txs, Promote(p, t)
    PROVE  /\ job'[p].pc = "deploying" /\ job'[p].tx = t
           /\ job'[p].version = job[p].version
           /\ job'[p].accuracy = job[p].accuracy
           /\ job[p].pc = "promote"
<1>1. job' = [job EXCEPT ![p] = Requesting(job[p], "deploying", t)]
  BY DEF Promote, Requesting
<1>2. job[p] \in Job /\ job'[p] = Requesting(job[p], "deploying", t)
  BY <1>1 DEF JobInv
<1>3. job[p].pc = "promote"
  BY DEF Promote
<1> QED
  BY <1>2, <1>3, RequestingJob

(* A run has compared.                                                     *)
LEMMA ComparingJob ==
    ASSUME JobInv, NEW p \in Pipelines, NEW base, Compared(p, base)
    PROVE  /\ job'[p].pc = IF Clears(job[p].accuracy, base) THEN "promote" ELSE "rejected"
           /\ job'[p].version = job[p].version
           /\ job'[p].accuracy = job[p].accuracy
<1>1. job'[p] = [job[p] EXCEPT !.base = base,
                    !.pc = IF Clears(job[p].accuracy, base) THEN "promote" ELSE "rejected"]
  BY DEF Compared, JobInv
<1>2. job[p] \in Job
  BY DEF JobInv
<1> QED
  BY <1>1, <1>2 DEF Job

----------------------------------------------------------------------------
(* The transaction of a run that waits deploys its candidate to the end.   *)
LEMMA AnswerStep ==
    ASSUME JobInv, JobInv', IInv, AnswerInv, [PromotionNext]_allVars
    PROVE  AnswerInv'
<1> SUFFICES ASSUME NEW p \in Pipelines, job'[p].pc = "deploying"
             PROVE  LET t == job'[p].tx
                    IN  tx'[t].pc # "idle" /\ tx'[t].kind = "deploy" /\ tx'[t].version = job'[p].version
  BY DEF AnswerInv
<1>1. ASSUME NEW t \in Txs, Promote(p, t)
      PROVE  /\ job'[p].tx = t
             /\ tx'[t].pc # "idle" /\ tx'[t].kind = "deploy" /\ tx'[t].version = job'[p].version
  <2>1. job'[p].tx = t /\ job'[p].version = job[p].version
    BY <1>1, PromotingJob
  <2>2. tx'[t] = [kind |-> "deploy", version |-> job[p].version, pc |-> "demote",
                  todo |-> InStage(t, "production")]
    BY <1>1 DEF Promote, BeginDeploy, IInv, TypeOK
  <2> QED
    BY <2>1, <2>2
<1>2. ASSUME job'[p] = job[p]
      PROVE  LET t == job'[p].tx
             IN  tx'[t].pc # "idle" /\ tx'[t].kind = "deploy" /\ tx'[t].version = job'[p].version
  <2> DEFINE t == job[p].tx
  <2>1. t \in Txs
    BY <1>2 DEF JobInv
  <2>2. tx[t].pc # "idle" /\ tx[t].kind = "deploy" /\ tx[t].version = job[p].version
    BY <1>2 DEF AnswerInv
  <2> HIDE DEF t
  <2>3. ASSUME tx'[t].pc = "idle"
        PROVE  FALSE
    <3>1. RegistryMove(t)
      BY <2>1, <2>2, <2>3, EndsByMove
    <3>2. job'[p].pc = Outcome(Len(events') > Len(events))
      BY <2>1, <2>3, <3>1, AnsweredJob DEF t
    <3> QED
      BY <3>2 DEF Outcome
  <2>4. tx'[t] # tx[t] => TxMove(t)
    <3>1. [Next]_vars
      BY RegistryView
    <3>2. ~BeginRollback(t) /\ \A v \in Versions : ~BeginDeploy(t, v)
      BY <2>2 DEF BeginRollback, BeginDeploy
    <3>3. tx'[t] # NoTx
      BY <2>3 DEF NoTx
    <3> QED
      BY <2>1, <3>1, <3>2, <3>3, OthersKeep DEF IInv, TxMove, TxStep
  <2>5. tx'[t].kind = "deploy" /\ tx'[t].version = tx[t].version
    BY <2>1, <2>2, <2>3, <2>4, DeployKeeps
  <2> QED
    BY <1>2, <2>2, <2>3, <2>5 DEF t
<1>3. ASSUME NEW t \in Txs, RegistryMove(t), job[p].tx = t, tx'[t].pc = "idle"
      PROVE  FALSE
  BY <1>3, AnsweredJob DEF Outcome
<1>4. ASSUME NEW base, Compared(p, base)
      PROVE  FALSE
  BY <1>4, ComparingJob
<1>5. ASSUME \/ \E v \in Versions, a \in Accuracies : RegisterCandidate(p, v, a)
             \/ Raise(p)
      PROVE  FALSE
  BY <1>5 DEF RegisterCandidate, Raise, NoJob, JobInv
<1> QED
  BY <1>1, <1>2, <1>3, <1>4, <1>5, JobKinds DEF CompareWith, CompareWithNone

(* A run that ends with success has its event in the log.                  *)
LEMMA ExitStep ==
    ASSUME JobInv, IInv, AnswerInv, ExitZeroIsDeployed, [PromotionNext]_allVars
    PROVE  ExitZeroIsDeployed'
<1> SUFFICES ASSUME NEW p \in Pipelines, job'[p].pc = "promoted"
             PROVE  \E i \in 1..Len(events') :
                       events'[i] = [version |-> job'[p].version, action |-> "deploy"]
  BY DEF ExitZeroIsDeployed
<1>1. CASE job'[p] = job[p]
  <2>1. PICK i \in 1..Len(events) : events[i] = [version |-> job[p].version, action |-> "deploy"]
    BY <1>1 DEF ExitZeroIsDeployed
  <2>2. i \in 1..Len(events') /\ events'[i] = events[i]
    BY RegistryView, LogGrows
  <2> QED
    BY <1>1, <2>1, <2>2
<1>2. ASSUME NEW t \in Txs, RegistryMove(t), job[p].tx = t, tx'[t].pc = "idle"
      PROVE  \E i \in 1..Len(events') :
                events'[i] = [version |-> job'[p].version, action |-> "deploy"]
  <2>1. /\ job[p].pc = "deploying" /\ job'[p].version = job[p].version
        /\ job'[p].pc = Outcome(Len(events') > Len(events))
    BY <1>2, AnsweredJob
  <2>2. Len(events') > Len(events)
    BY <2>1 DEF Outcome
  <2>3. TxMove(t)
    BY <1>2 DEF RegistryMove
  <2>4. Commit(t)
    BY <2>2, <2>3, MoveKinds
  <2>5. tx[t].kind = "deploy" /\ tx[t].version = job[p].version
    BY <1>2, <2>1 DEF AnswerInv
  <2>6. /\ events'[Len(events')] = [version |-> tx[t].version, action |-> tx[t].kind]
        /\ Len(events') = Len(events) + 1
    BY <2>4, CommitEffect DEF IInv
  <2>7. Len(events) \in Nat
    BY LastEvent DEF IInv
  <2>8. Len(events') \in 1..Len(events')
    BY <2>6, <2>7
  <2> QED
    BY <2>1, <2>5, <2>6, <2>8
<1>3. ASSUME NEW t \in Txs, Promote(p, t)
      PROVE  FALSE
  BY <1>3, PromotingJob
<1>4. ASSUME NEW base, Compared(p, base)
      PROVE  FALSE
  BY <1>4, ComparingJob
<1>5. ASSUME \/ \E v \in Versions, a \in Accuracies : RegisterCandidate(p, v, a)
             \/ Raise(p)
      PROVE  FALSE
  BY <1>5 DEF RegisterCandidate, Raise, NoJob, JobInv
<1> QED
  BY <1>1, <1>2, <1>3, <1>4, <1>5, JobKinds DEF CompareWith, CompareWithNone

----------------------------------------------------------------------------
(* What a run has read changes by somebody's write, which overtakes it.    *)
LEMMA Undisturbed ==
    ASSUME JobInv, IInv, [PromotionNext]_allVars,
           NEW p \in Pipelines \ overtaken', Underway(p), job'[p] = job[p]
    PROVE  accuracy' = accuracy /\ InProduction' \subseteq InProduction
<1>1. ASSUME NEW ps, p \in ps, Overtake(ps)
      PROVE  FALSE
  BY <1>1 DEF Overtake, Underway
<1>2. ASSUME NEW v \in Versions, NEW m \in Metrics, OthersRegister(v, m)
      PROVE  FALSE
  BY <1>1, <1>2 DEF OthersRegister
<1>3. ASSUME NEW t \in Txs, RegistryMove(t)
      PROVE  accuracy' = accuracy /\ InProduction' \subseteq InProduction
  <2>1. TxMove(t) /\ accuracy' = accuracy
    BY <1>3 DEF RegistryMove
  <2>2. CASE Commit(t) /\ Len(events') > Len(events)
    <3>1. job[p].tx = t
      BY <1>1, <1>3, <2>2 DEF RegistryMove
    <3>2. tx'[t].pc = "idle"
      BY <2>2 DEF Commit, NoTx, IInv, TypeOK
    <3>3. job'[p].pc = Outcome(Len(events') > Len(events)) /\ job[p].pc = "deploying"
      BY <1>3, <3>1, <3>2, AnsweredJob
    <3> QED
      BY <3>3 DEF Outcome
  <2>3. CASE UNCHANGED <<rows, events>>
    BY <2>1, <2>3 DEF InProduction
  <2> QED
    BY <2>1, <2>2, <2>3, MoveKinds
<1>4. ASSUME NEW q \in Pipelines, PipelineStep(q)
      PROVE  accuracy' = accuracy /\ InProduction' \subseteq InProduction
  <2>1. ASSUME NEW v \in Versions, NEW a \in Accuracies, RegisterCandidate(q, v, a)
        PROVE  FALSE
    <3>1. q # p
      BY <2>1 DEF RegisterCandidate, JobInv
    <3> QED
      BY <1>1, <2>1, <3>1 DEF RegisterCandidate
  <2>2. ASSUME NEW t \in Txs, Promote(q, t)
        PROVE  accuracy' = accuracy /\ rows' = rows
    BY <2>2 DEF Promote, BeginDeploy
  <2>3. CompareWithNone(q) \/ (\E v \in Versions : CompareWith(q, v)) \/ Raise(q) =>
          accuracy' = accuracy /\ rows' = rows
    BY DEF CompareWithNone, CompareWith, Compared, Raise, vars
  <2> QED
    BY <1>4, <2>1, <2>2, <2>3 DEF PipelineStep, InProduction
<1>5. ASSUME OthersRequest
      PROVE  accuracy' = accuracy /\ InProduction' \subseteq InProduction
  <2>1. accuracy' = accuracy
    BY <1>5 DEF OthersRequest, promotionVars
  <2>2. ASSUME NEW v \in Versions, NEW pct \in Percentages, SetTraffic(v, pct)
        PROVE  InProduction' \subseteq InProduction
    BY <2>2 DEF SetTraffic, InProduction, IInv, TypeOK, Row
  <2>3. (\E t \in Txs, v \in Versions : BeginDeploy(t, v)) \/ (\E t \in Txs : BeginRollback(t)) =>
          InProduction' \subseteq InProduction
    BY DEF BeginDeploy, BeginRollback, InProduction
  <2> QED
    BY <1>5, <2>1, <2>2, <2>3 DEF OthersRequest, Request
<1>6. CASE UNCHANGED allVars
  BY <1>6 DEF allVars, vars, promotionVars, InProduction
<1> QED
  BY <1>2, <1>3, <1>4, <1>5, <1>6 DEF PromotionNext

(* A run compares with the version in production, its only one.            *)
LEMMA BeatStep ==
    ASSUME JobInv, IInv, SoleInv, BeatInv, [PromotionNext]_allVars
    PROVE  BeatInv'
<1> DEFINE Goal(p) == /\ Underway(p)' => accuracy'[job'[p].version] = job'[p].accuracy
                      /\ job'[p].pc \in {"promote", "deploying"} =>
                            \A v \in InProduction' : Clears(job'[p].accuracy, accuracy'[v])
<1> SUFFICES ASSUME NEW p \in Pipelines \ overtaken'
             PROVE  Goal(p)
  BY DEF BeatInv
<1>1. p \in Pipelines \ overtaken
  BY DEF PromotionNext, PipelineStep, RegisterCandidate, CompareWith, CompareWithNone, Compared,
         Promote, Raise, OthersRegister, OthersRequest, RegistryMove, Overtake, allVars, promotionVars
<1>2. CASE job'[p] = job[p] /\ Underway(p)
  <2>1. accuracy' = accuracy /\ InProduction' \subseteq InProduction
    BY <1>2, Undisturbed
  <2> QED
    BY <1>1, <1>2, <2>1 DEF BeatInv, Underway
<1>3. CASE job'[p] = job[p] /\ ~Underway(p)
  BY <1>3 DEF Underway
<1>4. ASSUME NEW v \in Versions, NEW a \in Accuracies, RegisterCandidate(p, v, a)
      PROVE  Goal(p)
  <2>1. job'[p] = [pc |-> "compare", version |-> v, accuracy |-> a, base |-> Unmeasured,
                   tx |-> NoRequest]
    BY <1>4 DEF RegisterCandidate, JobInv
  <2>2. accuracy'[v] = a
    BY <1>4 DEF RegisterCandidate, JobInv
  <2> QED
    BY <2>1, <2>2
<1>5. ASSUME NEW base, Compared(p, base), job[p].pc = "compare",
             \A v \in InProduction : accuracy[v] = base
      PROVE  Goal(p)
  <2>1. /\ job'[p].pc = IF Clears(job[p].accuracy, base) THEN "promote" ELSE "rejected"
        /\ job'[p].version = job[p].version /\ job'[p].accuracy = job[p].accuracy
    BY <1>5, ComparingJob
  <2>2. accuracy' = accuracy /\ InProduction' = InProduction
    BY <1>5 DEF Compared, vars, InProduction
  <2>3. accuracy[job[p].version] = job[p].accuracy
    BY <1>1, <1>5 DEF BeatInv, Underway
  <2> QED
    BY <1>5, <2>1, <2>2, <2>3
<1>6. ASSUME NEW v \in Versions, CompareWith(p, v)
      PROVE  Goal(p)
  <2>1. \A w \in InProduction : accuracy[w] = accuracy[v]
    BY <1>6 DEF CompareWith, SoleInv
  <2> QED
    BY <1>5, <1>6, <2>1 DEF CompareWith
<1>7. ASSUME CompareWithNone(p)
      PROVE  Goal(p)
  BY <1>5, <1>7 DEF CompareWithNone
<1>8. ASSUME NEW t \in Txs, Promote(p, t)
      PROVE  Goal(p)
  <2>1. /\ job'[p].version = job[p].version /\ job'[p].accuracy = job[p].accuracy
        /\ job[p].pc = "promote"
    BY <1>8, PromotingJob
  <2>2. accuracy' = accuracy /\ InProduction' = InProduction
    BY <1>8 DEF Promote, BeginDeploy, InProduction
  <2> QED
    BY <1>1, <2>1, <2>2 DEF BeatInv, Underway
<1>9. ASSUME Raise(p)
      PROVE  Goal(p)
  BY <1>9 DEF Raise, NoJob, JobInv, Underway
<1>10. ASSUME NEW t \in Txs, RegistryMove(t), job[p].tx = t, tx'[t].pc = "idle"
       PROVE  Goal(p)
  BY <1>10, AnsweredJob DEF Outcome, Underway
<1> QED
  BY <1>2, <1>3, <1>4, <1>6, <1>7, <1>8, <1>9, <1>10, JobKinds

----------------------------------------------------------------------------
(* What a run was answered, and what it exits with, is on record.          *)
LEMMA AnswerInvariance == PromotionSpec => [](AnswerInv /\ ExitZeroIsDeployed)
<1>1. PromotionInit => AnswerInv /\ ExitZeroIsDeployed
  BY DEF PromotionInit, NoJob, AnswerInv, ExitZeroIsDeployed
<1>2. JobInv /\ JobInv' /\ IInv /\ AnswerInv /\ ExitZeroIsDeployed /\ [PromotionNext]_allVars =>
        AnswerInv' /\ ExitZeroIsDeployed'
  BY AnswerStep, ExitStep
<1> QED
  BY <1>1, <1>2, JobInvariance, RegistryInvariance, PTL DEF PromotionSpec

(* The registry's rows, the runs and their requests have their types.      *)
THEOREM PromotionTypeCorrect == PromotionSpec => []PromotionTypeOK
<1>1. JobInv /\ IInv => PromotionTypeOK
  BY DEF JobInv, IInv, PromotionTypeOK
<1> QED
  BY <1>1, JobInvariance, RegistryInvariance, PTL

(* A run that exits with 0 has deployed its candidate, whatever failed or  *)
(* timed out, whoever else uses the registry: raise_for_status on the      *)
(* answer of the transaction that deploys it.                              *)
THEOREM ExitZeroHasEvent == PromotionSpec => []ExitZeroIsDeployed
BY AnswerInvariance, PTL

(* To all its clients together, runs included, the registry keeps the      *)
(* promise of one version in production while requests do not overlap.     *)
THEOREM OneServesRuns ==
    PromotionSpec /\ []OneAtATime => []AtMostOneProduction /\ SwitchesAtomically
<1>1. SoleInv => AtMostOneProduction
  BY SoleIsAtMostOne
<1>2. IInv /\ SoleInv /\ SoleInv' /\ [Next]_vars => [Promise!Next]_<<Serving, events>>
  BY RegistrySwitches
<1> QED
  BY <1>1, <1>2, JobInvariance, RegistryInvariance, SoleInvariance, RegistryStartsWithdrawn, PTL
     DEF SwitchesAtomically, Promise!Spec

(* "Promotes it to production ONLY if it beats the current production      *)
(* version's accuracy": so it is for a run nobody overtook, as long as     *)
(* requests do not overlap.                                                *)
THEOREM BetterPromoted == PromotionSpec /\ []OneAtATime => PromotesOnlyBetter
<1> DEFINE A == \A p \in Pipelines \ overtaken : \A old \in InProduction :
                  Promotes(p) /\ accuracy[old] \in Accuracies =>
                    accuracy[job[p].version] - accuracy[old] >= MinImprovement
<1>1. PromotionInit => BeatInv
  BY DEF PromotionInit, NoJob, BeatInv, Underway
<1>2. JobInv /\ IInv /\ SoleInv /\ BeatInv /\ [PromotionNext]_allVars => BeatInv'
  BY BeatStep
<1>3. BeatInv => A
  BY DEF BeatInv, Promotes, Underway, Clears
<1> HIDE DEF A
<1>4. PromotionSpec /\ []OneAtATime => [][A]_allVars
  BY <1>1, <1>2, <1>3, JobInvariance, RegistryInvariance, SoleInvariance, PTL DEF PromotionSpec
<1> QED
  BY <1>4 DEF PromotesOnlyBetter, A
=============================================================================
