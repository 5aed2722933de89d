---------------------------- MODULE JobPipeline -----------------------------
(***************************************************************************)
(* The asynchronous path of the platform: the gateway's POST /v1/jobs, the *)
(* Redis jobs stream, and the scheduler replicas that consume it.          *)
(*                                                                         *)
(* Each replica runs the loop of Redis.Consume with Dispatcher.handle as   *)
(* its handler.  One action is one interaction of that loop with the       *)
(* outside (a Redis command, the start or the end of the router call), so  *)
(* replicas, submissions, stops and failed commands interleave between     *)
(* them.                                                                   *)
(***************************************************************************)
EXTENDS RedisQueue, FiniteSets

CONSTANTS
    Replicas,      \* scheduler processes
    MaxAttempts,   \* InferenceJob.MaxAttempts (the gateway writes 3)
    MaxFaults,     \* bound: Redis commands that go wrong
    MaxStops,      \* bound: replicas killed or terminated
    MaxMalformed   \* bound: undecodable payloads put on the stream

ASSUME MaxAttemptsAssumption == MaxAttempts \in Nat \ {0}
ASSUME BoundsAssumption == /\ MaxFaults \in Nat
                           /\ MaxStops \in Nat
                           /\ MaxMalformed \in Nat

VARIABLES
    response,   \* response[j]: what the client of POST /v1/jobs was told
    results,    \* results[j]: messages for j on the results topic
    dlq,        \* dlq[j]: messages for j on the dead-letter topic
    pc,         \* pc[r]: where replica r is in Consume/handle
    batch,      \* batch[r]: entries r took and has not finished, cur..last
    metrics,    \* the four scheduler counters, summed over replicas and restarts
    calls,      \* calls[j]: router calls started for j (history)
    logged,     \* jobs with a logged requeue or publish error (history)
    doubled,    \* jobs with an XADD the client executed twice (history)
    budget      \* what is left of the three bounds

pipelineVars == <<response, results, dlq, pc, batch, metrics, calls, logged, doubled>>
vars == <<queueVars, pipelineVars, budget>>

PCs == {"down", "read", "handle", "calling", "requeue", "publish", "deadletter", "ack"}
Metrics == {"processed", "failed", "retried", "deadLetter"}
EmptyBatch == [cur |-> 1, last |-> 0]

TypeOK ==
    /\ QueueTypeOK
    /\ response \in [Jobs -> {"none", "accepted", "unavailable"}]
    /\ results \in [Jobs -> Nat]
    /\ dlq \in [Jobs -> Nat]
    /\ pc \in [Replicas -> PCs]
    /\ batch \in [Replicas -> [cur: Nat, last: Nat]]
    /\ metrics \in [Metrics -> Nat]
    /\ calls \in [Jobs -> Nat]
    /\ logged \subseteq Jobs
    /\ doubled \subseteq Jobs
    /\ budget \in [faults: Nat, stops: Nat, malformed: Nat]

Init ==
    /\ QueueInit
    /\ response = [j \in Jobs |-> "none"]
    /\ results = [j \in Jobs |-> 0]
    /\ dlq = [j \in Jobs |-> 0]
    /\ pc = [r \in Replicas |-> "down"]
    /\ batch = [r \in Replicas |-> EmptyBatch]
    /\ metrics = [m \in Metrics |-> 0]
    /\ calls = [j \in Jobs |-> 0]
    /\ logged = {}
    /\ doubled = {}
    /\ budget = [faults |-> MaxFaults, stops |-> MaxStops, malformed |-> MaxMalformed]

----------------------------------------------------------------------------
(* Failures are environment steps drawn from a budget.                     *)
Spend(k) ==
    /\ budget[k] > 0
    /\ budget' = [budget EXCEPT ![k] = @ - 1]

Charge(rep) == IF rep = Clean THEN UNCHANGED budget ELSE Spend("faults")

NoteDoubled(j, rep) == doubled' = IF rep.copies = 2 THEN doubled \cup {j} ELSE doubled

NoteLogged(j, rep) == logged' = IF rep.err THEN logged \cup {j} ELSE logged

(* The entries replica r holds: the rest of the batch it read.             *)
Held(r) == batch[r].cur .. batch[r].last

(* Mutant of AttemptOf: the increment at the top of handle is missing.     *)
AttemptOfNotIncremented(r) == stream[batch[r].cur].attempt

(* The entry r works on, its job, and the attempt number of this delivery  *)
(* (the stored Attempt plus the increment at the top of handle).           *)
Current(r) == stream[batch[r].cur]
JobOf(r) == Current(r).job
AttemptOf(r) == Current(r).attempt + 1

Goto(r, label) == pc' = [pc EXCEPT ![r] = label]

(* Mutant of NextMessage: "break" where the loop says "continue".          *)
NextMessageBreak(r) ==
    /\ batch' = [batch EXCEPT ![r].cur = @ + 1]
    /\ Goto(r, "read")

(* The next iteration of the loop over the batch, or back to XREADGROUP.   *)
NextMessage(r) ==
    /\ batch' = [batch EXCEPT ![r].cur = @ + 1]
    /\ Goto(r, IF batch[r].cur < batch[r].last THEN "handle" ELSE "read")

Count(names) == metrics' = [m \in Metrics |-> IF m \in names THEN metrics[m] + 1 ELSE metrics[m]]

----------------------------------------------------------------------------
(* Handler.SubmitJob after validation: a fresh job is put on the stream    *)
(* with Attempt 0; the client sees 202, or 503 when Enqueue failed.        *)
SubmitJob(j, rep) ==
    /\ response[j] = "none"
    /\ Enqueue([job |-> j, attempt |-> 0], rep)
    /\ response' = [response EXCEPT ![j] = IF rep.err THEN "unavailable" ELSE "accepted"]
    /\ NoteDoubled(j, rep)
    /\ Charge(rep)
    /\ UNCHANGED <<results, dlq, pc, batch, metrics, calls, logged>>

(* Another writer of the topic puts a payload that is not a job on it.     *)
ForeignEnqueue ==
    /\ Spend("malformed")
    /\ Enqueue([job |-> Malformed, attempt |-> 0], Clean)
    /\ UNCHANGED pipelineVars

----------------------------------------------------------------------------
(* A replica starts, or starts again: Consume creates the group unless it  *)
(* exists, and only entries that were never delivered are read.            *)
Start(r) ==
    /\ pc[r] = "down"
    /\ XGroupCreate
    /\ Goto(r, "read")
    /\ UNCHANGED <<response, results, dlq, batch, metrics, calls, logged, doubled, budget>>

(* The error of XGROUP CREATE is ignored, whatever it is.                  *)
StartUngrouped(r) ==
    /\ pc[r] = "down"
    /\ Spend("faults")
    /\ Goto(r, "read")
    /\ UNCHANGED <<queueVars, response, results, dlq, batch, metrics, calls, logged, doubled>>

(* A replica is killed, or gets SIGTERM: main cancels the context and does *)
(* not wait for the dispatch loop, and every Redis command under the       *)
(* cancelled context fails, so what it held stays pending.                 *)
Stop(r) ==
    /\ pc[r] # "down"
    /\ Spend("stops")
    /\ Goto(r, "down")
    /\ batch' = [batch EXCEPT ![r] = EmptyBatch]
    /\ UNCHANGED <<queueVars, response, results, dlq, metrics, calls, logged, doubled>>

(* XREADGROUP returns a batch.                                             *)
Read(r) ==
    /\ pc[r] = "read"
    /\ XReadGroup
    /\ batch' = [batch EXCEPT ![r] = [cur |-> cursor + 1, last |-> BatchEnd]]
    /\ Goto(r, "handle")
    /\ UNCHANGED <<response, results, dlq, metrics, calls, logged, doubled, budget>>

(* XREADGROUP is executed and its reply is lost: the loop just goes on.    *)
ReadLost(r) ==
    /\ pc[r] = "read"
    /\ Spend("faults")
    /\ XReadGroup
    /\ UNCHANGED pipelineVars

(* The handler is called: a malformed payload is dropped, a job's Attempt  *)
(* is incremented and the router is called with it.                        *)
Handle(r) ==
    /\ pc[r] = "handle"
    /\ IF JobOf(r) = Malformed
         THEN /\ Goto(r, "ack")
              /\ UNCHANGED calls
         ELSE /\ Goto(r, "calling")
              /\ calls' = [calls EXCEPT ![JobOf(r)] = @ + 1]
    /\ UNCHANGED <<queueVars, response, results, dlq, batch, metrics, logged, doubled, budget>>

(* Router.Predict answers.                                                 *)
PredictSucceeds(r) ==
    /\ pc[r] = "calling"
    /\ Count({"processed"})
    /\ Goto(r, "publish")
    /\ UNCHANGED <<queueVars, response, results, dlq, batch, calls, logged, doubled, budget>>

(* Mutant of PredictFails: one attempt too few before the dead letter.     *)
PredictFailsEarly(r) ==
    /\ pc[r] = "calling"
    /\ Count({"failed"})
    /\ Goto(r, IF AttemptOf(r) + 1 >= MaxAttempts THEN "deadletter" ELSE "requeue")
    /\ UNCHANGED <<queueVars, response, results, dlq, batch, calls, logged, doubled, budget>>

(* Mutant of PredictFails: an exhausted job is counted and dropped.        *)
PredictFailsDropped(r) ==
    /\ pc[r] = "calling"
    /\ Count({"failed"})
    /\ Goto(r, IF AttemptOf(r) >= MaxAttempts THEN "ack" ELSE "requeue")
    /\ UNCHANGED <<queueVars, response, results, dlq, batch, calls, logged, doubled, budget>>

(* Mutant of PredictFails: the Retried and DeadLetter counters swapped.    *)
PredictFailsMiscounted(r) ==
    /\ pc[r] = "calling"
    /\ IF AttemptOf(r) >= MaxAttempts
         THEN /\ Count({"failed", "retried"})
              /\ Goto(r, "deadletter")
         ELSE /\ Count({"failed", "deadLetter"})
              /\ Goto(r, "requeue")
    /\ UNCHANGED <<queueVars, response, results, dlq, batch, calls, logged, doubled, budget>>

(* Router.Predict returns an error or runs into CallTimeout: the last      *)
(* attempt goes to the dead-letter topic, an earlier one sleeps and is     *)
(* put back on the stream.                                                 *)
PredictFails(r) ==
    /\ pc[r] = "calling"
    /\ IF AttemptOf(r) >= MaxAttempts
         THEN /\ Count({"failed", "deadLetter"})
              /\ Goto(r, "deadletter")
         ELSE /\ Count({"failed", "retried"})
              /\ Goto(r, "requeue")
    /\ UNCHANGED <<queueVars, response, results, dlq, batch, calls, logged, doubled, budget>>

(* After the back-off the job, with its new Attempt, becomes a new entry;  *)
(* an error is only logged, and the old delivery is acknowledged anyway.   *)
Requeue(r, rep) ==
    /\ pc[r] = "requeue"
    /\ Enqueue([job |-> JobOf(r), attempt |-> AttemptOf(r)], rep)
    /\ NoteLogged(JobOf(r), rep)
    /\ NoteDoubled(JobOf(r), rep)
    /\ Charge(rep)
    /\ Goto(r, "ack")
    /\ UNCHANGED <<response, results, dlq, batch, metrics, calls>>

(* The result goes to the results topic; an error is only logged.          *)
Publish(r, rep) ==
    /\ pc[r] = "publish"
    /\ results' = [results EXCEPT ![JobOf(r)] = @ + rep.copies]
    /\ NoteLogged(JobOf(r), rep)
    /\ NoteDoubled(JobOf(r), rep)
    /\ Charge(rep)
    /\ Goto(r, "ack")
    /\ UNCHANGED <<queueVars, response, dlq, batch, metrics, calls>>

(* Mutant of DeadLetter: no return after it, the job is requeued as well.  *)
DeadLetterFallsThrough(r, rep) ==
    /\ pc[r] = "deadletter"
    /\ dlq' = [dlq EXCEPT ![JobOf(r)] = @ + rep.copies]
    /\ NoteDoubled(JobOf(r), rep)
    /\ Charge(rep)
    /\ Goto(r, "requeue")
    /\ UNCHANGED <<queueVars, response, results, batch, metrics, calls, logged>>

(* Mutant of DeadLetter: its error is ignored and the entry acknowledged.  *)
DeadLetterErrorIgnored(r, rep) ==
    /\ pc[r] = "deadletter"
    /\ dlq' = [dlq EXCEPT ![JobOf(r)] = @ + rep.copies]
    /\ NoteDoubled(JobOf(r), rep)
    /\ Charge(rep)
    /\ Goto(r, "ack")
    /\ UNCHANGED <<queueVars, response, results, batch, metrics, calls, logged>>

(* Queue.DeadLetter; its error is handle's result, and then the entry is   *)
(* left pending and the loop takes the next message.                       *)
DeadLetter(r, rep) ==
    /\ pc[r] = "deadletter"
    /\ dlq' = [dlq EXCEPT ![JobOf(r)] = @ + rep.copies]
    /\ NoteDoubled(JobOf(r), rep)
    /\ Charge(rep)
    /\ IF rep.err THEN NextMessage(r)
                  ELSE Goto(r, "ack") /\ UNCHANGED batch
    /\ UNCHANGED <<queueVars, response, results, metrics, calls, logged>>

(* XACK, whose result is ignored.                                          *)
Ack(r) ==
    /\ pc[r] = "ack"
    /\ XAck(batch[r].cur)
    /\ NextMessage(r)
    /\ UNCHANGED <<response, results, dlq, metrics, calls, logged, doubled, budget>>

AckLost(r) ==
    /\ pc[r] = "ack"
    /\ Spend("faults")
    /\ NextMessage(r)
    /\ UNCHANGED <<queueVars, response, results, dlq, metrics, calls, logged, doubled>>

----------------------------------------------------------------------------
(* One step of the dispatch loop that does not wait for anybody's mistake. *)
Step(r) ==
    \/ Start(r)
    \/ Read(r)
    \/ Handle(r)
    \/ PredictSucceeds(r)
    \/ PredictFails(r)
    \/ \E rep \in XAddReply : Requeue(r, rep) \/ Publish(r, rep) \/ DeadLetter(r, rep)
    \/ Ack(r)

Failure(r) == StartUngrouped(r) \/ Stop(r) \/ ReadLost(r) \/ AckLost(r)

Next ==
    \/ \E j \in Jobs, rep \in XAddReply : SubmitJob(j, rep)
    \/ ForeignEnqueue
    \/ \E r \in Replicas : Step(r) \/ Failure(r)

(* A goroutine that can run does run, Kubernetes restarts a stopped        *)
(* replica, and CallTimeout ends every router call: each replica keeps     *)
(* stepping.  Nothing is assumed of submissions or failures.               *)
Fairness == \A r \in Replicas : WF_vars(Step(r))

Spec == Init /\ [][Next]_vars /\ Fairness

----------------------------------------------------------------------------
EntriesOf(j) == {e \in 1..Len(stream) : stream[e].job = j}

HeldBySomeone(e) == \E r \in Replicas : e \in Held(r)

Settled(j) == results[j] > 0 \/ dlq[j] > 0 \/ j \in logged

(* An entry nobody will work on again: delivered, unacknowledged, and in   *)
(* no replica's batch.                                                     *)
Stranded(e) == e \in pending /\ ~HeldBySomeone(e)

(* A job the client was told is accepted is never forgotten silently: it   *)
(* has a result, a dead letter or a logged error, or some entry of it is   *)
(* still unread or unacknowledged in Redis.  This is what the order        *)
(* "publish or requeue, then XACK" in handle and Consume is for, whatever  *)
(* stops or fails in between.                                              *)
NoSilentLoss ==
    \A j \in Jobs : response[j] = "accepted" =>
        Settled(j) \/ \E e \in EntriesOf(j) : e > cursor \/ e \in pending

(* No entry is worked on by two replicas, although all of them read under  *)
(* one consumer name and share one pending list.                           *)
ExclusiveEntries ==
    \A r, s \in Replicas : r # s => Held(r) \cap Held(s) = {}

(* The router is called at most MaxAttempts times for a job, over all      *)
(* replicas, restarts and failed commands, unless the Redis client         *)
(* executed one of the job's XADDs twice.                                  *)
AttemptBudget ==
    \A j \in Jobs \ doubled : calls[j] <= MaxAttempts

(* A job ends once: at most one message for it over the results topic and  *)
(* the dead-letter topic, and none while an entry of it is still to be     *)
(* worked on, unless the client executed one of its XADDs twice.           *)
SingleOutcome ==
    \A j \in Jobs \ doubled :
        /\ results[j] + dlq[j] <= 1
        /\ results[j] + dlq[j] = 1 => \A e \in EntriesOf(j) : e <= cursor

(* A job is dead-lettered only after the router failed MaxAttempts times   *)
(* for it: no attempt is skipped by a restart or a requeue.                *)
DeadLetterOnlyExhausted ==
    \A j \in Jobs : dlq[j] > 0 => calls[j] >= MaxAttempts

(* The scheduler's counters never report fewer outcomes than the topics    *)
(* hold, although they are incremented before the XADD they are about.     *)
CountersCoverTopics ==
    doubled = {} =>
        /\ metrics["processed"] >= Cardinality({j \in Jobs : results[j] > 0})
        /\ metrics["deadLetter"] >= Cardinality({j \in Jobs : dlq[j] > 0})
        /\ metrics["retried"] >= Cardinality({e \in 1..Len(stream) : stream[e].attempt > 0})

(* What became of entry e is on record: the payload was malformed, the job *)
(* is settled, or the next attempt of the job is on the stream.            *)
Recorded(e) ==
    \/ stream[e].job = Malformed
    \/ Settled(stream[e].job)
    \/ \E f \in EntriesOf(stream[e].job) : stream[f].attempt = stream[e].attempt + 1

AcksRecorded == \A e \in pending \ pending' : Recorded(e)

(* Consume acknowledges an entry only once its outcome is on record.       *)
AckAfterOutcome == [][AcksRecorded]_vars

(* No replica will work on j again.                                        *)
Idle(j) == \A e \in EntriesOf(j) : e <= cursor /\ ~HeldBySomeone(e)

(* Once the group exists every accepted job comes to an end: a result, a   *)
(* dead letter or a logged error, or a stop or a failed command, of which  *)
(* there was one, left it pending for good.                                *)
EveryJobSettles ==
    \A j \in Jobs : group /\ response[j] = "accepted" ~>
        \/ Settled(j)
        \/ /\ budget.faults < MaxFaults \/ budget.stops < MaxStops
           /\ Idle(j)
           /\ \E e \in EntriesOf(j) : Stranded(e)

(* While no command fails and no replica stops, an accepted job gets its   *)
(* result or its dead letter: retries, back-off and a malformed neighbour  *)
(* in the batch never keep it from one.                                    *)
AcceptedJobCompletes ==
    \A j \in Jobs : response[j] = "accepted" ~>
        \/ results[j] + dlq[j] > 0
        \/ budget.faults < MaxFaults
        \/ budget.stops < MaxStops

(* A job whose last attempt failed and whose dead letter was not written:  *)
(* handle returned the error and Consume left the entry pending.           *)
Nacked(j) ==
    /\ calls[j] = MaxAttempts
    /\ ~Settled(j)
    /\ \E e \in EntriesOf(j) : Stranded(e)

(* queue.go on the handler: "returning an error nacks (the backend         *)
(* redelivers or the caller dead-letters after MaxAttempts)".              *)
NackedIsRedelivered == \A j \in Jobs : Nacked(j) ~> ~Nacked(j)

(* redis.go on the start of Consume: "Best-effort group creation; ignore   *)
(* already exists".  With every other error of it ignored no less, an      *)
(* accepted job is still read once some replica stays up.                  *)
AcceptedJobIsRead ==
    \A j \in Jobs : response[j] = "accepted" ~> \E e \in EntriesOf(j) : e <= cursor
=============================================================================
