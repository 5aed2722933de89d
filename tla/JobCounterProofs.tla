-------------------------- MODULE JobCounterProofs --------------------------
(***************************************************************************)
(* Proofs about the scheduler counters of JobPipeline, for every set of    *)
(* jobs and replicas: none of the sets is assumed finite.                  *)
(***************************************************************************)
EXTENDS JobPipelineProofs, FiniteSetTheorems

USE ReadCountAssumption, MalformedAssumption, MaxAttemptsAssumption, BoundsAssumption

At(label) == {r \in Replicas : pc[r] = label}
Completed == {j \in Jobs : results[j] > 0}
DeadLettered == {j \in Jobs : dlq[j] > 0}
Retries == {e \in 1..Len(stream) : stream[e].attempt > 0}

(* A counter covers what is on a topic and, as it is incremented first,    *)
(* what the replicas that are about to write there will add.               *)
Covers(n, there, writers) ==
    /\ IsFiniteSet(there)
    /\ IsFiniteSet(writers)
    /\ Cardinality(there) + Cardinality(writers) <= n

(* What one step does to such a set.                                       *)
Gains(S, S1) == \E x : S1 \subseteq S \cup {x}
Loses(S, S1) == \E x \in S : S1 \subseteq S \ {x}

(* CountersCoverTopics is not inductive: nothing in it says that a replica *)
(* at its XADD has been counted.                                           *)
CounterInv ==
    /\ Covers(metrics["processed"], Completed, At("publish"))
    /\ Covers(metrics["deadLetter"], DeadLettered, At("deadletter"))
    /\ doubled = {} => Covers(metrics["retried"], Retries, At("requeue"))

----------------------------------------------------------------------------
(* The three things a step can do to one counter: leave its topic and its  *)
(* writers alone, count a new writer, or let a counted writer write.       *)
LEMMA Kept ==
    ASSUME NEW n \in Nat, NEW n1 \in Nat, NEW A, NEW B, Covers(n, A, B),
           NEW A1, NEW B1, A1 \subseteq A, B1 \subseteq B, n <= n1
    PROVE  Covers(n1, A1, B1)
<1>1. IsFiniteSet(A) /\ IsFiniteSet(B) /\ Cardinality(A) + Cardinality(B) <= n
  BY DEF Covers
<1>2. /\ IsFiniteSet(A1) /\ Cardinality(A1) \in Nat /\ Cardinality(A) \in Nat
      /\ Cardinality(A1) <= Cardinality(A)
  BY <1>1, FS_Subset, FS_CardinalityType
<1>3. /\ IsFiniteSet(B1) /\ Cardinality(B1) \in Nat /\ Cardinality(B) \in Nat
      /\ Cardinality(B1) <= Cardinality(B)
  BY <1>1, FS_Subset, FS_CardinalityType
<1> QED
  BY <1>1, <1>2, <1>3 DEF Covers

(* An element added to a finite set counts for at most one.                *)
LEMMA OneAdded ==
    ASSUME NEW S, IsFiniteSet(S), NEW x
    PROVE  /\ IsFiniteSet(S \cup {x}) /\ Cardinality(S) \in Nat
           /\ Cardinality(S \cup {x}) \in Nat
           /\ Cardinality(S \cup {x}) <= Cardinality(S) + 1
<1>1. /\ IsFiniteSet(S \cup {x})
      /\ Cardinality(S \cup {x}) = IF x \in S THEN Cardinality(S) ELSE Cardinality(S) + 1
  BY FS_AddElement
<1>2. Cardinality(S) \in Nat
  BY FS_CardinalityType
<1> QED
  BY <1>1, <1>2

(* A replica that is counted may become a writer.                          *)
LEMMA Counted ==
    ASSUME NEW n \in Nat, NEW n1 \in Nat, n1 = n + 1, NEW A, NEW B, Covers(n, A, B),
           NEW A1, NEW B1, A1 \subseteq A, Gains(B, B1)
    PROVE  Covers(n1, A1, B1)
<1>1. IsFiniteSet(A) /\ IsFiniteSet(B) /\ Cardinality(A) + Cardinality(B) <= n
  BY DEF Covers
<1> PICK x : B1 \subseteq B \cup {x}
  BY DEF Gains
<1>2. /\ IsFiniteSet(B \cup {x}) /\ Cardinality(B) \in Nat /\ Cardinality(B \cup {x}) \in Nat
      /\ Cardinality(B \cup {x}) <= Cardinality(B) + 1
  BY <1>1, OneAdded
<1>3. Cardinality(A) \in Nat
  BY <1>1, FS_CardinalityType
<1>4. Covers(n1, A, B \cup {x})
  BY <1>1, <1>2, <1>3 DEF Covers
<1> QED
  BY <1>4, Kept

(* A writer that leaves may put one thing on its topic.                    *)
LEMMA Spent ==
    ASSUME NEW n \in Nat, NEW n1 \in Nat, n1 = n, NEW A, NEW B, Covers(n, A, B),
           NEW A1, NEW B1, Gains(A, A1), Loses(B, B1)
    PROVE  Covers(n, A1, B1)
<1>1. IsFiniteSet(A) /\ IsFiniteSet(B) /\ Cardinality(A) + Cardinality(B) <= n
  BY DEF Covers
<1> PICK x \in B : B1 \subseteq B \ {x}
  BY DEF Loses
<1> PICK y : A1 \subseteq A \cup {y}
  BY DEF Gains
<1>2. /\ IsFiniteSet(A \cup {y}) /\ Cardinality(A) \in Nat /\ Cardinality(A \cup {y}) \in Nat
      /\ Cardinality(A \cup {y}) <= Cardinality(A) + 1
  BY <1>1, OneAdded
<1>3. /\ IsFiniteSet(B \ {x}) /\ Cardinality(B) \in Nat
      /\ Cardinality(B \ {x}) = Cardinality(B) - 1
  BY <1>1, FS_RemoveElement, FS_CardinalityType
<1>4. Covers(n, A \cup {y}, B \ {x})
  BY <1>1, <1>2, <1>3 DEF Covers
<1> QED
  BY <1>4, Kept

----------------------------------------------------------------------------
(* Counters only go up.                                                    *)
LEMMA CountersGrow ==
    ASSUME TypeOK, [Next]_vars
    PROVE  \A m \in Metrics : metrics[m] \in Nat /\ metrics'[m] \in Nat /\ metrics[m] <= metrics'[m]
<1>1. metrics \in [Metrics -> Nat]
  BY DEF TypeOK
<1>2. ASSUME NEW names, Count(names)
      PROVE  \A m \in Metrics : metrics'[m] \in Nat /\ metrics[m] <= metrics'[m]
  BY <1>1, <1>2 DEF Count
<1>3. metrics' = metrics \/ \E names : Count(names)
  BY DEF Next, Step, Failure, SubmitJob, ForeignEnqueue, Start, StartUngrouped, Stop, Read, ReadLost,
     Handle, PredictSucceeds, PredictFails, Requeue, Publish, DeadLetter, Ack, AckLost,
     vars, pipelineVars
<1> QED
  BY <1>1, <1>2, <1>3

(* A replica comes to its XADD from the answer of its router call.         *)
LEMMA NewWriter ==
    ASSUME TypeOK, BatchInv, [Next]_vars, NEW r \in Replicas, pc'[r] # pc[r]
    PROVE  /\ pc'[r] = "publish" => PredictSucceeds(r)
           /\ pc'[r] = "deadletter" => PredictFails(r) /\ AttemptOf(r) >= MaxAttempts
           /\ pc'[r] = "requeue" => PredictFails(r) /\ ~(AttemptOf(r) >= MaxAttempts)
  BY Arrivals DEF Called

(* A step of r changes the writers by r at most.                           *)
LEMMA WritersMove ==
    ASSUME TypeOK, NEW r \in Replicas, Step(r) \/ Failure(r), NEW label
    PROVE  /\ At(label)' \subseteq At(label) \cup {r}
           /\ pc'[r] # label => At(label)' \subseteq At(label) \ {r}
  BY OneMoves DEF Alone, At

(* The results topic and the processed counter.                            *)
LEMMA ProcessedStep ==
    ASSUME TypeOK, BatchInv, CounterInv, [Next]_vars
    PROVE  Covers(metrics["processed"], Completed, At("publish"))'
<1> DEFINE n == metrics["processed"]
           n1 == metrics'["processed"]
           T == Completed
           W == At("publish")
           T1 == Completed'
           W1 == At("publish")'
<1> SUFFICES Covers(n1, T1, W1)
  OBVIOUS
<1>1. n \in Nat /\ n1 \in Nat /\ n <= n1
  BY CountersGrow DEF Metrics
<1>2. Covers(n, T, W)
  BY DEF CounterInv
<1>3. ASSUME NEW r \in Replicas, NEW rep \in XAddReply, Publish(r, rep)
      PROVE  Covers(n1, T1, W1)
  <2>1. r \in W /\ pc'[r] = "ack" /\ n1 = n
    BY <1>3 DEF Publish, Goto, At, TypeOK
  <2>2. Loses(W, W1)
    BY <1>3, <2>1, WritersMove DEF Step, Loses
  <2>3. Gains(T, T1)
    BY <1>3 DEF Publish, Completed, TypeOK, Gains
  <2> HIDE DEF n, n1, T, W, T1, W1
  <2> QED
    BY <1>1, <1>2, <2>1, <2>2, <2>3, Spent
<1>4. ASSUME NEW r \in Replicas, PredictSucceeds(r)
      PROVE  Covers(n1, T1, W1)
  <2>1. n1 = n + 1
    BY <1>4 DEF PredictSucceeds, Count, Metrics
  <2>2. Gains(W, W1)
    BY <1>4, WritersMove DEF Step, Gains
  <2>3. T1 \subseteq T
    BY <1>4 DEF PredictSucceeds, Completed
  <2> HIDE DEF n, n1, T, W, T1, W1
  <2> QED
    BY <1>1, <1>2, <2>1, <2>2, <2>3, Counted
<1>5. ASSUME \A r \in Replicas : ~PredictSucceeds(r),
             \A r \in Replicas, rep \in XAddReply : ~Publish(r, rep)
      PROVE  Covers(n1, T1, W1)
  <2>1. W1 \subseteq W
    BY <1>5, NewWriter DEF At
  <2>2. T1 \subseteq T
    BY <1>5, JobChanges DEF Completed
  <2> HIDE DEF n, n1, T, W, T1, W1
  <2> QED
    BY <1>1, <1>2, <2>1, <2>2, Kept
<1> QED
  BY <1>3, <1>4, <1>5

(* The dead-letter topic and its counter: a failed XADD leaves the writers *)
(* too.                                                                    *)
LEMMA DeadLetterStep ==
    ASSUME TypeOK, BatchInv, CounterInv, [Next]_vars
    PROVE  Covers(metrics["deadLetter"], DeadLettered, At("deadletter"))'
<1> DEFINE n == metrics["deadLetter"]
           n1 == metrics'["deadLetter"]
           T == DeadLettered
           W == At("deadletter")
           T1 == DeadLettered'
           W1 == At("deadletter")'
<1> SUFFICES Covers(n1, T1, W1)
  OBVIOUS
<1>1. n \in Nat /\ n1 \in Nat /\ n <= n1
  BY CountersGrow DEF Metrics
<1>2. Covers(n, T, W)
  BY DEF CounterInv
<1>3. ASSUME NEW r \in Replicas, NEW rep \in XAddReply, DeadLetter(r, rep)
      PROVE  Covers(n1, T1, W1)
  <2>1. r \in W /\ n1 = n
    BY <1>3 DEF DeadLetter, At
  <2>2. pc'[r] # "deadletter"
    BY <1>3 DEF DeadLetter, NextMessage, Goto, TypeOK
  <2>3. Loses(W, W1)
    BY <1>3, <2>1, <2>2, WritersMove DEF Step, Loses
  <2>4. Gains(T, T1)
    BY <1>3 DEF DeadLetter, DeadLettered, TypeOK, Gains
  <2> HIDE DEF n, n1, T, W, T1, W1
  <2> QED
    BY <1>1, <1>2, <2>1, <2>3, <2>4, Spent
<1>4. ASSUME NEW r \in Replicas, PredictFails(r), AttemptOf(r) >= MaxAttempts
      PROVE  Covers(n1, T1, W1)
  <2>1. n1 = n + 1
    BY <1>4 DEF PredictFails, Count, Metrics
  <2>2. Gains(W, W1)
    BY <1>4, WritersMove DEF Step, Gains
  <2>3. T1 \subseteq T
    BY <1>4 DEF PredictFails, DeadLettered
  <2> HIDE DEF n, n1, T, W, T1, W1
  <2> QED
    BY <1>1, <1>2, <2>1, <2>2, <2>3, Counted
<1>5. ASSUME \A r \in Replicas : ~(PredictFails(r) /\ AttemptOf(r) >= MaxAttempts),
             \A r \in Replicas, rep \in XAddReply : ~DeadLetter(r, rep)
      PROVE  Covers(n1, T1, W1)
  <2>1. W1 \subseteq W
    BY <1>5, NewWriter DEF At
  <2>2. T1 \subseteq T
    BY <1>5, JobChanges DEF DeadLettered
  <2> HIDE DEF n, n1, T, W, T1, W1
  <2> QED
    BY <1>1, <1>2, <2>1, <2>2, Kept
<1> QED
  BY <1>3, <1>4, <1>5

(* The entries put back on the stream and their counter: the one XADD that *)
(* may append two entries has then doubled the job.                        *)
LEMMA RetriedStep ==
    ASSUME TypeOK, BatchInv, CounterInv, [Next]_vars, doubled' = {}
    PROVE  Covers(metrics["retried"], Retries, At("requeue"))'
<1> DEFINE n == metrics["retried"]
           n1 == metrics'["retried"]
           T == Retries
           W == At("requeue")
           T1 == Retries'
           W1 == At("requeue")'
<1> SUFFICES Covers(n1, T1, W1)
  OBVIOUS
<1>1. n \in Nat /\ n1 \in Nat /\ n <= n1
  BY CountersGrow DEF Metrics
<1>2. Covers(n, T, W)
  BY Grows DEF CounterInv
<1>3. ASSUME NEW r \in Replicas, NEW rep \in XAddReply, Requeue(r, rep)
      PROVE  Covers(n1, T1, W1)
  <2>1. r \in W /\ pc'[r] = "ack" /\ n1 = n
    BY <1>3 DEF Requeue, Goto, At, TypeOK
  <2>2. Loses(W, W1)
    BY <1>3, <2>1, WritersMove DEF Step, Loses
  <2>3. [job |-> JobOf(r), attempt |-> AttemptOf(r)] \in Payload /\ QueueTypeOK
    BY <2>1, CurrentFacts DEF At, Busy, Payload, TypeOK
  <2>4. Len(stream) \in Nat /\ Len(stream') = Len(stream) + rep.copies
    BY <1>3, <2>3, EnqueueFacts DEF Requeue
  <2>5. rep.copies # 2
    BY <1>3 DEF Requeue, NoteDoubled
  <2>6. rep.copies \in {0, 1, 2}
    BY XAddReplyFacts
  <2>7. 1..Len(stream') \subseteq 1..Len(stream) \cup {Len(stream) + 1}
    BY <2>4, <2>5, <2>6
  <2>8. Gains(T, T1)
    BY <2>7, Grows DEF Retries, Gains
  <2> HIDE DEF n, n1, T, W, T1, W1
  <2> QED
    BY <1>1, <1>2, <2>1, <2>2, <2>8, Spent
<1>4. ASSUME NEW r \in Replicas, PredictFails(r), ~(AttemptOf(r) >= MaxAttempts)
      PROVE  Covers(n1, T1, W1)
  <2>1. n1 = n + 1
    BY <1>4 DEF PredictFails, Count, Metrics
  <2>2. Gains(W, W1)
    BY <1>4, WritersMove DEF Step, Gains
  <2>3. T1 \subseteq T
    BY <1>4 DEF PredictFails, Retries, queueVars
  <2> HIDE DEF n, n1, T, W, T1, W1
  <2> QED
    BY <1>1, <1>2, <2>1, <2>2, <2>3, Counted
<1>5. ASSUME \A r \in Replicas : ~(PredictFails(r) /\ ~(AttemptOf(r) >= MaxAttempts)),
             \A r \in Replicas, rep \in XAddReply : ~Requeue(r, rep)
      PROVE  Covers(n1, T1, W1)
  <2>1. W1 \subseteq W
    BY <1>5, NewWriter DEF At
  <2>2. ASSUME NEW e \in 1..Len(stream'), e \notin 1..Len(stream)
        PROVE  stream'[e].attempt = 0
    <3>1. \E p \in {[job |-> j, attempt |-> 0] : j \in Jobs \cup {Malformed}} : stream'[e] = p
      BY <1>5, <2>2, NewEntries
    <3> QED
      BY <3>1
  <2>3. T1 \subseteq T
    BY <2>2, Grows DEF Retries
  <2> HIDE DEF n, n1, T, W, T1, W1
  <2> QED
    BY <1>1, <1>2, <2>1, <2>3, Kept
<1> QED
  BY <1>3, <1>4, <1>5

----------------------------------------------------------------------------
(* Every counter covers its topic and its writers, always.                 *)
LEMMA CounterInvariance == Spec => []CounterInv
<1>1. Init => CounterInv
  <2> SUFFICES ASSUME Init PROVE CounterInv
    OBVIOUS
  <2>1. /\ \A m \in Metrics : metrics[m] = 0
        /\ Completed = {} /\ DeadLettered = {} /\ Retries = {}
    BY DEF Init, QueueInit, Completed, DeadLettered, Retries
  <2>2. At("publish") = {} /\ At("deadletter") = {} /\ At("requeue") = {}
    BY DEF Init, At
  <2>3. Covers(0, {}, {})
    BY FS_EmptySet DEF Covers
  <2> QED
    BY <2>1, <2>2, <2>3 DEF CounterInv, Metrics
<1>2. IInv /\ CounterInv /\ [Next]_vars => CounterInv'
  BY ProcessedStep, DeadLetterStep, RetriedStep DEF IInv, CounterInv
<1> QED
  BY <1>1, <1>2, Invariance, PTL DEF Spec

(* The scheduler's counters never report fewer results, dead letters or    *)
(* retries than the topics hold, whichever replicas stop between counting  *)
(* and writing and whichever writes fail, while no XADD is doubled.        *)
THEOREM CountersAreAhead == Spec => []CountersCoverTopics
<1>1. TypeOK /\ CounterInv => CountersCoverTopics
  <2>1. ASSUME NEW n \in Nat, NEW A, NEW B, Covers(n, A, B)
        PROVE  n >= Cardinality(A)
    BY <2>1, FS_CardinalityType DEF Covers
  <2>2. TypeOK => \A m \in Metrics : metrics[m] \in Nat
    BY DEF TypeOK
  <2> QED
    BY <2>1, <2>2 DEF CounterInv, CountersCoverTopics, Completed, DeadLettered, Retries, Metrics
<1> QED
  BY <1>1, TypeCorrect, CounterInvariance, PTL
=============================================================================
