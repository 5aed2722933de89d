------------------------- MODULE JobPipelineProofs --------------------------
(***************************************************************************)
(* Proofs about JobPipeline for every set of jobs and replicas, every      *)
(* batch size, attempt limit and failure budget.                           *)
(***************************************************************************)
EXTENDS JobPipeline, SequenceTheorems, TLAPS

USE ReadCountAssumption, MalformedAssumption, MaxAttemptsAssumption, BoundsAssumption

(* What AppendN, the effect of an XADD, does to a stream.                  *)
LEMMA AppendNFacts ==
    ASSUME NEW s \in Seq(Payload), NEW p \in Payload, NEW n \in Nat
    PROVE  /\ AppendN(s, p, n) \in Seq(Payload)
           /\ Len(AppendN(s, p, n)) = Len(s) + n
           /\ \A i \in 1..Len(s) : AppendN(s, p, n)[i] = s[i]
           /\ \A i \in (Len(s) + 1)..(Len(s) + n) : AppendN(s, p, n)[i] = p
<1> DEFINE t == [i \in 1..n |-> p]
<1>1. t \in Seq(Payload) /\ Len(t) = n /\ \A i \in 1..n : t[i] = p
  OBVIOUS
<1> HIDE DEF t
<1>2. AppendN(s, p, n) = s \o t
  BY DEF AppendN, t
<1>3. /\ s \o t \in Seq(Payload)
      /\ Len(s \o t) = Len(s) + n
      /\ \A i \in 1..(Len(s) + n) : (s \o t)[i] = IF i <= Len(s) THEN s[i] ELSE t[i - Len(s)]
  BY <1>1, ConcatProperties
<1>4. Len(s) \in Nat
  OBVIOUS
<1> QED
  BY <1>1, <1>2, <1>3, <1>4

(* The members of XAddReply have these fields.                             *)
LEMMA XAddReplyFacts ==
    ASSUME NEW rep \in XAddReply
    PROVE  /\ rep.copies \in {0, 1, 2}
           /\ rep.err => rep.copies \in {0, 1}
           /\ ~rep.err => rep.copies \in {1, 2}
           /\ rep.err \in BOOLEAN
<1>1. CASE rep = [copies |-> 1, err |-> FALSE]
  BY <1>1
<1>2. CASE rep = [copies |-> 0, err |-> TRUE]
  BY <1>2
<1>3. CASE rep = [copies |-> 1, err |-> TRUE]
  BY <1>3
<1>4. CASE rep = [copies |-> 2, err |-> FALSE]
  BY <1>4
<1> QED
  BY <1>1, <1>2, <1>3, <1>4 DEF XAddReply, Clean

(* The batch XREADGROUP returns is not empty and ends within the stream.   *)
LEMMA BatchEndFacts ==
    ASSUME QueueTypeOK
    PROVE  /\ BatchEnd \in Nat /\ BatchEnd <= Len(stream)
           /\ cursor < Len(stream) => cursor < BatchEnd
<1>1. Len(stream) \in Nat /\ cursor \in Nat /\ cursor <= Len(stream)
  BY DEF QueueTypeOK
<1> QED
  BY <1>1 DEF BatchEnd

----------------------------------------------------------------------------
(* A budget that is drawn from stays a budget.                             *)
LEMMA SpendType ==
    ASSUME budget \in [faults: Nat, stops: Nat, malformed: Nat],
           NEW k \in {"faults", "stops", "malformed"}, Spend(k)
    PROVE  budget' \in [faults: Nat, stops: Nat, malformed: Nat]
  BY DEF Spend

(* The same for the charge of an XADD's reply.                             *)
LEMMA ChargeType ==
    ASSUME budget \in [faults: Nat, stops: Nat, malformed: Nat],
           NEW rep \in XAddReply, Charge(rep)
    PROVE  budget' \in [faults: Nat, stops: Nat, malformed: Nat]
  BY SpendType DEF Charge

(* What an XADD to the jobs stream leaves: the old entries where they      *)
(* were, the new ones behind them.                                         *)
LEMMA EnqueueFacts ==
    ASSUME QueueTypeOK, NEW p \in Payload, NEW rep \in XAddReply, Enqueue(p, rep)
    PROVE  /\ QueueTypeOK'
           /\ Len(stream) \in Nat /\ Len(stream') = Len(stream) + rep.copies
           /\ \A i \in 1..Len(stream) : stream'[i] = stream[i]
           /\ \A i \in (Len(stream) + 1)..Len(stream') : stream'[i] = p
           /\ cursor' = cursor /\ pending' = pending
<1>1. rep.copies \in Nat
  BY XAddReplyFacts
<1>2. stream \in Seq(Payload) /\ Len(stream) \in Nat
  BY DEF QueueTypeOK
<1>3. /\ stream' = AppendN(stream, p, rep.copies) /\ cursor' = cursor /\ pending' = pending
      /\ group' = group
  BY DEF Enqueue
<1>4. /\ stream' \in Seq(Payload)
      /\ Len(stream') = Len(stream) + rep.copies
      /\ \A i \in 1..Len(stream) : stream'[i] = stream[i]
      /\ \A i \in (Len(stream) + 1)..(Len(stream) + rep.copies) : stream'[i] = p
  <2> DEFINE n == rep.copies
             t == AppendN(stream, p, n)
  <2>1. n \in Nat
    BY <1>1
  <2> HIDE DEF n
  <2>2. /\ t \in Seq(Payload)
        /\ Len(t) = Len(stream) + n
        /\ \A i \in 1..Len(stream) : t[i] = stream[i]
        /\ \A i \in (Len(stream) + 1)..(Len(stream) + n) : t[i] = p
    BY <2>1, <1>2, AppendNFacts
  <2>3. stream' = t
    BY <1>3 DEF n
  <2> HIDE DEF t
  <2> QED
    BY <2>2, <2>3 DEF n
<1>5. QueueTypeOK'
  BY <1>1, <1>2, <1>3, <1>4 DEF QueueTypeOK
<1> QED
  BY <1>2, <1>3, <1>4, <1>5

(* What XREADGROUP leaves: the same stream, the cursor further on, and the *)
(* batch in the pending list.                                              *)
LEMMA ReadFacts ==
    ASSUME QueueTypeOK, XReadGroup
    PROVE  /\ QueueTypeOK'
           /\ stream' = stream
           /\ BatchEnd \in Nat /\ cursor < BatchEnd /\ BatchEnd <= Len(stream)
           /\ cursor \in Nat /\ cursor' = BatchEnd
           /\ pending' = pending \cup (cursor + 1)..BatchEnd
<1>1. BatchEnd \in Nat /\ BatchEnd <= Len(stream) /\ cursor < BatchEnd
  BY BatchEndFacts DEF XReadGroup
<1>2. Len(stream) \in Nat /\ cursor \in Nat
  BY DEF QueueTypeOK
<1>3. cursor' = BatchEnd /\ stream' = stream /\ group' = group
      /\ pending' = pending \cup (cursor + 1)..BatchEnd
  BY DEF XReadGroup
<1>4. QueueTypeOK'
  BY <1>1, <1>2, <1>3 DEF QueueTypeOK
<1> QED
  BY <1>1, <1>2, <1>3, <1>4

----------------------------------------------------------------------------
(* The entry a replica works on is an entry of the stream, held by it and  *)
(* pending, and between the call and the ack it carries a job.             *)
Busy == {"handle", "calling", "requeue", "publish", "deadletter", "ack"}
Called == {"calling", "requeue", "publish", "deadletter"}

BatchOK(r) ==
    /\ pc[r] \notin Busy => batch[r].last < batch[r].cur
    /\ pc[r] \in Busy => 1 <= batch[r].cur /\ batch[r].cur <= batch[r].last
                          /\ batch[r].last <= cursor
    /\ pc[r] \in Called => JobOf(r) \in Jobs
    /\ Held(r) \subseteq pending

BatchInv == \A r \in Replicas : BatchOK(r)

(* A busy replica's entry has a payload.                                   *)
LEMMA CurrentFacts ==
    ASSUME TypeOK, BatchInv, NEW r \in Replicas, pc[r] \in Busy
    PROVE  /\ batch[r].cur \in 1..Len(stream)
           /\ batch[r].cur \in 1..cursor
           /\ Current(r) \in Payload
           /\ JobOf(r) \in Jobs \cup {Malformed}
           /\ AttemptOf(r) \in Nat
           /\ batch[r].cur \in Nat /\ batch[r].last \in Nat
           /\ batch[r].cur \in Held(r)
<1>1. stream \in Seq(Payload) /\ Len(stream) \in Nat /\ cursor \in Nat /\ cursor <= Len(stream)
  BY DEF TypeOK, QueueTypeOK
<1>2. batch[r] \in [cur: Nat, last: Nat]
  BY DEF TypeOK
<1>3. batch[r].cur \in Nat /\ batch[r].last \in Nat
  BY <1>2
<1>4. 1 <= batch[r].cur /\ batch[r].cur <= batch[r].last /\ batch[r].last <= cursor
  BY DEF BatchInv, BatchOK
<1>5. batch[r].cur \in 1..Len(stream) /\ batch[r].cur \in 1..cursor
  BY <1>1, <1>3, <1>4
<1>6. Current(r) \in Payload
  BY <1>1, <1>5 DEF Current
<1>7. JobOf(r) \in Jobs \cup {Malformed} /\ AttemptOf(r) \in Nat
  BY <1>6 DEF JobOf, AttemptOf, Payload
<1>8. batch[r].cur \in Held(r)
  BY <1>3, <1>4 DEF Held
<1> QED
  BY <1>3, <1>5, <1>6, <1>7, <1>8

(* NextMessage steps over the current entry.                               *)
LEMMA NextMessageFacts ==
    ASSUME TypeOK, NEW r \in Replicas, NextMessage(r)
    PROVE  /\ batch' \in [Replicas -> [cur: Nat, last: Nat]]
           /\ pc' \in [Replicas -> PCs]
           /\ batch[r].cur \in Nat /\ batch[r].last \in Nat
           /\ batch'[r].cur = batch[r].cur + 1 /\ batch'[r].last = batch[r].last
           /\ pc'[r] = IF batch[r].cur < batch[r].last THEN "handle" ELSE "read"
           /\ \A s \in Replicas \ {r} : batch'[s] = batch[s] /\ pc'[s] = pc[s]
<1>1. batch \in [Replicas -> [cur: Nat, last: Nat]] /\ pc \in [Replicas -> PCs]
  BY DEF TypeOK
<1> QED
  BY <1>1 DEF NextMessage, Goto, PCs

----------------------------------------------------------------------------
(* Attempts on the stream stay below the limit, and no attempt is ahead of *)
(* the router calls made.                                                  *)
AttemptInv ==
    /\ \A e \in 1..Len(stream) :
          /\ stream[e].attempt < MaxAttempts
          /\ stream[e].job \in Jobs => stream[e].attempt <= calls[stream[e].job]
    /\ \A r \in Replicas :
          /\ pc[r] \in Called => AttemptOf(r) <= calls[JobOf(r)]
          /\ pc[r] = "requeue" => AttemptOf(r) < MaxAttempts
          /\ pc[r] = "deadletter" => AttemptOf(r) >= MaxAttempts
    /\ DeadLetterOnlyExhausted

(* A job nobody submitted has left no trace.                               *)
FreshInv ==
    \A j \in Jobs : response[j] = "none" =>
        /\ \A e \in 1..Len(stream) : stream[e].job # j
        /\ calls[j] = 0 /\ results[j] = 0 /\ dlq[j] = 0

(* A replica about to acknowledge has put the outcome on record.           *)
AckInv == \A r \in Replicas : pc[r] = "ack" => Recorded(batch[r].cur)

(* A submitted job is settled or has an entry that is neither acknowledged *)
(* nor about to be.                                                        *)
Acking(e) == \E r \in Replicas : pc[r] = "ack" /\ batch[r].cur = e
Unfinished(e) == e > cursor \/ (e \in pending /\ ~Acking(e))

LossInv ==
    \A j \in Jobs :
        (response[j] = "accepted" \/ \E e \in 1..Len(stream) : stream[e].job = j) =>
            Settled(j) \/ \E e \in 1..Len(stream) : stream[e].job = j /\ Unfinished(e)

(* Replica r will still do something with entry e that is more than the    *)
(* acknowledgement; an entry somebody will still work on.                  *)
Claimed(r, e) == e \in Held(r) /\ ~(pc[r] = "ack" /\ e = batch[r].cur)
Working(e) == e > cursor \/ \E r \in Replicas : Claimed(r, e)

(* The router has been called in this delivery of the entry.               *)
InCall(r, e) == e = batch[r].cur /\ pc[r] \in Called

(* While no XADD of a job was doubled, at most one of its entries is still *)
(* to be worked on; then the job has no outcome yet, and the entry's       *)
(* attempt number says how often the router was called.                    *)
Once(j) ==
    /\ results[j] + dlq[j] <= 1
    /\ calls[j] <= MaxAttempts
    /\ \A e \in 1..Len(stream) : stream[e].job = j /\ Working(e) =>
          /\ results[j] = 0 /\ dlq[j] = 0
          /\ \A f \in 1..Len(stream) : stream[f].job = j /\ Working(f) => f = e
    /\ \A e \in 1..Len(stream) : stream[e].job = j /\ e > cursor =>
          calls[j] = stream[e].attempt
    /\ \A r \in Replicas, e \in 1..Len(stream) : stream[e].job = j /\ Claimed(r, e) =>
          calls[j] = IF InCall(r, e) THEN stream[e].attempt + 1 ELSE stream[e].attempt

OnceInv == \A j \in Jobs \ doubled : Once(j)

IInv ==
    /\ TypeOK
    /\ BatchInv
    /\ ExclusiveEntries
    /\ AttemptInv
    /\ FreshInv
    /\ AckInv
    /\ LossInv
    /\ OnceInv

----------------------------------------------------------------------------
(* Every step keeps the variables in their types.                          *)
LEMMA TypeStep ==
    ASSUME TypeOK, BatchInv, [Next]_vars
    PROVE  TypeOK'
<1> USE DEF TypeOK
<1>1. ASSUME NEW j \in Jobs, NEW rep \in XAddReply, SubmitJob(j, rep)
      PROVE  TypeOK'
  <2>1. [job |-> j, attempt |-> 0] \in Payload
    BY DEF Payload
  <2>2. QueueTypeOK'
    BY <1>1, <2>1, EnqueueFacts DEF SubmitJob
  <2>3. budget' \in [faults: Nat, stops: Nat, malformed: Nat]
    BY <1>1, ChargeType DEF SubmitJob
  <2>4. doubled' \subseteq Jobs
    BY <1>1 DEF SubmitJob, NoteDoubled
  <2>5. response' \in [Jobs -> {"none", "accepted", "unavailable"}]
    BY <1>1 DEF SubmitJob
  <2> QED
    BY <1>1, <2>2, <2>3, <2>4, <2>5 DEF SubmitJob
<1>2. CASE ForeignEnqueue
  <2>1. [job |-> Malformed, attempt |-> 0] \in Payload /\ Clean \in XAddReply
    BY DEF Payload, XAddReply
  <2>2. QueueTypeOK'
    BY <1>2, <2>1, EnqueueFacts DEF ForeignEnqueue
  <2>3. budget' \in [faults: Nat, stops: Nat, malformed: Nat]
    BY <1>2, SpendType DEF ForeignEnqueue
  <2> QED
    BY <1>2, <2>2, <2>3 DEF ForeignEnqueue, pipelineVars
<1>3. ASSUME NEW r \in Replicas, Start(r) \/ StartUngrouped(r)
      PROVE  TypeOK'
  <2>1. QueueTypeOK'
    BY <1>3 DEF Start, StartUngrouped, XGroupCreate, queueVars, QueueTypeOK
  <2>2. budget' \in [faults: Nat, stops: Nat, malformed: Nat]
    BY <1>3, SpendType DEF Start, StartUngrouped
  <2> QED
    BY <1>3, <2>1, <2>2 DEF Start, StartUngrouped, Goto, PCs
<1>4. ASSUME NEW r \in Replicas, Stop(r)
      PROVE  TypeOK'
  <2>1. budget' \in [faults: Nat, stops: Nat, malformed: Nat]
    BY <1>4, SpendType DEF Stop
  <2> QED
    BY <1>4, <2>1 DEF Stop, Goto, PCs, EmptyBatch, queueVars, QueueTypeOK
<1>5. ASSUME NEW r \in Replicas, Read(r)
      PROVE  TypeOK'
  <2>1. QueueTypeOK' /\ cursor \in Nat /\ BatchEnd \in Nat
    BY <1>5, ReadFacts DEF Read
  <2>2. batch' \in [Replicas -> [cur: Nat, last: Nat]]
    BY <1>5, <2>1 DEF Read
  <2> QED
    BY <1>5, <2>1, <2>2 DEF Read, Goto, PCs
<1>6. ASSUME NEW r \in Replicas, ReadLost(r)
      PROVE  TypeOK'
  <2>1. QueueTypeOK'
    BY <1>6, ReadFacts DEF ReadLost
  <2>2. budget' \in [faults: Nat, stops: Nat, malformed: Nat]
    BY <1>6, SpendType DEF ReadLost
  <2> QED
    BY <1>6, <2>1, <2>2 DEF ReadLost, pipelineVars
<1>7. ASSUME NEW r \in Replicas, Handle(r)
      PROVE  TypeOK'
  <2>1. JobOf(r) \in Jobs \cup {Malformed}
    BY <1>7, CurrentFacts DEF Handle, Busy
  <2>2. calls' \in [Jobs -> Nat] /\ pc' \in [Replicas -> PCs]
    BY <1>7, <2>1 DEF Handle, Goto, PCs
  <2> QED
    BY <1>7, <2>2 DEF Handle, queueVars, QueueTypeOK
<1>8. ASSUME NEW r \in Replicas, PredictSucceeds(r)
      PROVE  TypeOK'
  <2>1. metrics' \in [Metrics -> Nat]
    BY <1>8 DEF PredictSucceeds, Count
  <2> QED
    BY <1>8, <2>1 DEF PredictSucceeds, Goto, PCs, queueVars, QueueTypeOK
<1>9. ASSUME NEW r \in Replicas, PredictFails(r)
      PROVE  TypeOK'
  <2>1. metrics' \in [Metrics -> Nat]
    BY <1>9 DEF PredictFails, Count
  <2>2. pc' \in [Replicas -> PCs]
    BY <1>9 DEF PredictFails, Goto, PCs
  <2> QED
    BY <1>9, <2>1, <2>2 DEF PredictFails, queueVars, QueueTypeOK
<1>10. ASSUME NEW r \in Replicas, NEW rep \in XAddReply, Requeue(r, rep)
       PROVE  TypeOK'
  <2>1. JobOf(r) \in Jobs /\ AttemptOf(r) \in Nat
    BY <1>10, CurrentFacts DEF Requeue, Busy, Called, BatchInv, BatchOK
  <2>2. [job |-> JobOf(r), attempt |-> AttemptOf(r)] \in Payload
    BY <2>1 DEF Payload
  <2>3. QueueTypeOK'
    BY <1>10, <2>2, EnqueueFacts DEF Requeue
  <2>4. budget' \in [faults: Nat, stops: Nat, malformed: Nat]
    BY <1>10, ChargeType DEF Requeue
  <2>5. doubled' \subseteq Jobs /\ logged' \subseteq Jobs
    BY <1>10, <2>1 DEF Requeue, NoteDoubled, NoteLogged
  <2> QED
    BY <1>10, <2>3, <2>4, <2>5 DEF Requeue, Goto, PCs
<1>11. ASSUME NEW r \in Replicas, NEW rep \in XAddReply, Publish(r, rep)
       PROVE  TypeOK'
  <2>1. JobOf(r) \in Jobs
    BY <1>11 DEF Publish, Busy, Called, BatchInv, BatchOK
  <2>2. results' \in [Jobs -> Nat]
    BY <1>11, <2>1, XAddReplyFacts DEF Publish
  <2>3. budget' \in [faults: Nat, stops: Nat, malformed: Nat]
    BY <1>11, ChargeType DEF Publish
  <2>4. doubled' \subseteq Jobs /\ logged' \subseteq Jobs
    BY <1>11, <2>1 DEF Publish, NoteDoubled, NoteLogged
  <2> QED
    BY <1>11, <2>2, <2>3, <2>4 DEF Publish, Goto, PCs, queueVars, QueueTypeOK
<1>12. ASSUME NEW r \in Replicas, NEW rep \in XAddReply, DeadLetter(r, rep)
       PROVE  TypeOK'
  <2>1. JobOf(r) \in Jobs
    BY <1>12 DEF DeadLetter, Busy, Called, BatchInv, BatchOK
  <2>2. dlq' \in [Jobs -> Nat]
    BY <1>12, <2>1, XAddReplyFacts DEF DeadLetter
  <2>3. budget' \in [faults: Nat, stops: Nat, malformed: Nat]
    BY <1>12, ChargeType DEF DeadLetter
  <2>4. doubled' \subseteq Jobs
    BY <1>12, <2>1 DEF DeadLetter, NoteDoubled
  <2>5. pc' \in [Replicas -> PCs] /\ batch' \in [Replicas -> [cur: Nat, last: Nat]]
    <3>1. CASE NextMessage(r)
      BY <3>1, NextMessageFacts
    <3>2. CASE Goto(r, "ack") /\ UNCHANGED batch
      BY <3>2 DEF Goto, PCs
    <3> QED
      BY <1>12, <3>1, <3>2 DEF DeadLetter
  <2> QED
    BY <1>12, <2>2, <2>3, <2>4, <2>5 DEF DeadLetter, queueVars, QueueTypeOK
<1>13. ASSUME NEW r \in Replicas, Ack(r)
       PROVE  TypeOK'
  <2>1. pc' \in [Replicas -> PCs] /\ batch' \in [Replicas -> [cur: Nat, last: Nat]]
    BY <1>13, NextMessageFacts DEF Ack
  <2> QED
    BY <1>13, <2>1 DEF Ack, XAck, QueueTypeOK
<1>14. ASSUME NEW r \in Replicas, AckLost(r)
       PROVE  TypeOK'
  <2>1. pc' \in [Replicas -> PCs] /\ batch' \in [Replicas -> [cur: Nat, last: Nat]]
    BY <1>14, NextMessageFacts DEF AckLost
  <2>2. budget' \in [faults: Nat, stops: Nat, malformed: Nat]
    BY <1>14, SpendType DEF AckLost
  <2> QED
    BY <1>14, <2>1, <2>2 DEF AckLost, queueVars, QueueTypeOK
<1>15. CASE UNCHANGED vars
  BY <1>15 DEF vars, queueVars, pipelineVars, QueueTypeOK
<1> QED
  BY <1>1, <1>2, <1>3, <1>4, <1>5, <1>6, <1>7, <1>8, <1>9, <1>10, <1>11, <1>12,
     <1>13, <1>14, <1>15 DEF Next, Step, Failure

----------------------------------------------------------------------------
(* The queue and the outcomes only grow: entries keep their place, the     *)
(* cursor does not go back, and no call or outcome is taken back.          *)
LEMMA Grows ==
    ASSUME TypeOK, BatchInv, [Next]_vars
    PROVE  /\ Len(stream) \in Nat /\ Len(stream') \in Nat /\ Len(stream) <= Len(stream')
           /\ \A e \in 1..Len(stream) : e \in 1..Len(stream') /\ stream'[e] = stream[e]
           /\ cursor \in Nat /\ cursor' \in Nat /\ cursor <= cursor'
           /\ cursor <= Len(stream) /\ cursor' <= Len(stream')
           /\ \A j \in Jobs :
                 /\ calls[j] \in Nat /\ calls'[j] \in Nat /\ calls[j] <= calls'[j]
                 /\ results[j] \in Nat /\ results'[j] \in Nat /\ results[j] <= results'[j]
                 /\ dlq[j] \in Nat /\ dlq'[j] \in Nat /\ dlq[j] <= dlq'[j]
           /\ logged \subseteq logged' /\ doubled \subseteq doubled'
<1>1. TypeOK'
  BY TypeStep
<1>2. /\ Len(stream) \in Nat /\ Len(stream') \in Nat /\ cursor \in Nat /\ cursor' \in Nat
      /\ cursor <= Len(stream) /\ cursor' <= Len(stream')
      /\ \A j \in Jobs : calls[j] \in Nat /\ results[j] \in Nat /\ dlq[j] \in Nat
      /\ \A j \in Jobs : calls'[j] \in Nat /\ results'[j] \in Nat /\ dlq'[j] \in Nat
  BY <1>1 DEF TypeOK, QueueTypeOK
<1>3. Len(stream) <= Len(stream') /\ \A e \in 1..Len(stream) : stream'[e] = stream[e]
  <2>1. ASSUME NEW p \in Payload, NEW rep \in XAddReply, Enqueue(p, rep)
        PROVE  <1>3!:
    <3>1. QueueTypeOK
      BY DEF TypeOK
    <3>2. /\ Len(stream') = Len(stream) + rep.copies
          /\ \A e \in 1..Len(stream) : stream'[e] = stream[e]
      BY <2>1, <3>1, EnqueueFacts
    <3>3. rep.copies \in {0, 1, 2}
      BY XAddReplyFacts
    <3> QED
      BY <1>2, <3>2, <3>3
  <2>2. ASSUME NEW j \in Jobs, NEW rep \in XAddReply, SubmitJob(j, rep)
        PROVE  <1>3!:
    BY <2>1, <2>2 DEF SubmitJob, Payload
  <2>3. CASE ForeignEnqueue
    BY <2>1, <2>3 DEF ForeignEnqueue, Payload, XAddReply
  <2>4. ASSUME NEW r \in Replicas, NEW rep \in XAddReply, Requeue(r, rep)
        PROVE  <1>3!:
    <3>1. JobOf(r) \in Jobs \cup {Malformed} /\ AttemptOf(r) \in Nat
      BY <2>4, CurrentFacts DEF Requeue, Busy
    <3> QED
      BY <2>1, <2>4, <3>1 DEF Requeue, Payload
  <2>5. CASE stream' = stream
    BY <2>5, <1>2
  <2> QED
    BY <2>2, <2>3, <2>4, <2>5 DEF Next, Step, Failure, Start, StartUngrouped, XGroupCreate, Stop,
       Read, ReadLost, Handle,
       PredictSucceeds, PredictFails, Publish, DeadLetter, Ack, AckLost, XReadGroup, XAck,
       vars, queueVars
<1>4. cursor <= cursor'
  <2>1. CASE XReadGroup
    BY <2>1, ReadFacts DEF TypeOK
  <2>2. CASE cursor' = cursor
    BY <2>2, <1>2
  <2> QED
    BY <2>1, <2>2 DEF Next, Step, Failure, SubmitJob, ForeignEnqueue, Enqueue, Start,
       StartUngrouped, XGroupCreate, Stop, Read,
       ReadLost, Handle, PredictSucceeds, PredictFails, Requeue, Publish, DeadLetter, Ack, AckLost,
       XAck, vars, queueVars
<1>5. ASSUME NEW j \in Jobs
      PROVE  calls[j] <= calls'[j]
  <2>1. ASSUME NEW r \in Replicas, Handle(r)
        PROVE  calls[j] <= calls'[j]
    <3>1. calls \in [Jobs -> Nat]
      BY DEF TypeOK
    <3>2. calls' = calls \/ calls' = [calls EXCEPT ![JobOf(r)] = @ + 1]
      BY <2>1 DEF Handle
    <3> QED
      BY <1>2, <3>1, <3>2
  <2>2. CASE calls' = calls
    BY <2>2, <1>2
  <2> QED
    BY <2>1, <2>2 DEF Next, Step, Failure, SubmitJob, ForeignEnqueue, Start, StartUngrouped,
       XGroupCreate, Stop, Read, ReadLost,
       PredictSucceeds, PredictFails, Requeue, Publish, DeadLetter, Ack, AckLost, vars, pipelineVars
<1>6. ASSUME NEW j \in Jobs
      PROVE  results[j] <= results'[j]
  <2>1. ASSUME NEW r \in Replicas, NEW rep \in XAddReply, Publish(r, rep)
        PROVE  results[j] <= results'[j]
    <3>1. results \in [Jobs -> Nat]
      BY DEF TypeOK
    <3>2. results' = [results EXCEPT ![JobOf(r)] = @ + rep.copies]
      BY <2>1 DEF Publish
    <3>3. rep.copies \in {0, 1, 2}
      BY XAddReplyFacts
    <3> QED
      BY <1>2, <3>1, <3>2, <3>3
  <2>2. CASE results' = results
    BY <2>2, <1>2
  <2> QED
    BY <2>1, <2>2 DEF Next, Step, Failure, SubmitJob, ForeignEnqueue, Start, StartUngrouped,
       XGroupCreate, Stop, Read, ReadLost,
       Handle, PredictSucceeds, PredictFails, Requeue, DeadLetter, Ack, AckLost, vars, pipelineVars
<1>7. ASSUME NEW j \in Jobs
      PROVE  dlq[j] <= dlq'[j]
  <2>1. ASSUME NEW r \in Replicas, NEW rep \in XAddReply, DeadLetter(r, rep)
        PROVE  dlq[j] <= dlq'[j]
    <3>1. dlq \in [Jobs -> Nat]
      BY DEF TypeOK
    <3>2. dlq' = [dlq EXCEPT ![JobOf(r)] = @ + rep.copies]
      BY <2>1 DEF DeadLetter
    <3>3. rep.copies \in {0, 1, 2}
      BY XAddReplyFacts
    <3> QED
      BY <1>2, <3>1, <3>2, <3>3
  <2>2. CASE dlq' = dlq
    BY <2>2, <1>2
  <2> QED
    BY <2>1, <2>2 DEF Next, Step, Failure, SubmitJob, ForeignEnqueue, Start, StartUngrouped,
       XGroupCreate, Stop, Read, ReadLost,
       Handle, PredictSucceeds, PredictFails, Requeue, Publish, Ack, AckLost, vars, pipelineVars
<1>8. logged \subseteq logged' /\ doubled \subseteq doubled'
  BY DEF Next, Step, Failure, SubmitJob, ForeignEnqueue, Start, StartUngrouped, XGroupCreate,
     Stop, Read, ReadLost, Handle,
     PredictSucceeds, PredictFails, Requeue, Publish, DeadLetter, Ack, AckLost, vars, pipelineVars,
     NoteLogged, NoteDoubled
<1> QED
  BY <1>2, <1>3, <1>4, <1>5, <1>6, <1>7, <1>8

----------------------------------------------------------------------------
(* A replica whose batch a step leaves alone still holds the same entries  *)
(* and works on the same payload.                                          *)
LEMMA Frame ==
    ASSUME TypeOK, BatchInv, [Next]_vars, NEW s \in Replicas, batch'[s] = batch[s]
    PROVE  /\ Held(s)' = Held(s)
           /\ pc[s] \in Busy => /\ Current(s)' = Current(s)
                                /\ JobOf(s)' = JobOf(s)
                                /\ AttemptOf(s)' = AttemptOf(s)
<1>1. Held(s)' = Held(s)
  BY DEF Held
<1>2. ASSUME pc[s] \in Busy
      PROVE  Current(s)' = Current(s)
  <2>1. batch[s].cur \in 1..Len(stream)
    BY <1>2, CurrentFacts
  <2>2. stream'[batch[s].cur] = stream[batch[s].cur]
    BY <2>1, Grows
  <2> QED
    BY <2>2 DEF Current
<1> QED
  BY <1>1, <1>2 DEF JobOf, AttemptOf

Alone(r) == \A s \in Replicas \ {r} : batch'[s] = batch[s] /\ pc'[s] = pc[s]

(* The replicas other than the one that takes the step keep place and      *)
(* batch.                                                                  *)
LEMMA OneMoves ==
    ASSUME TypeOK, NEW r \in Replicas, Step(r) \/ Failure(r)
    PROVE  Alone(r)
<1>1. batch \in [Replicas -> [cur: Nat, last: Nat]] /\ pc \in [Replicas -> PCs]
  BY DEF TypeOK
<1>2. CASE NextMessage(r)
  BY <1>2, NextMessageFacts DEF Alone
<1>3. ASSUME NEW label, Goto(r, label), batch' = batch
      PROVE  Alone(r)
  BY <1>1, <1>3 DEF Goto, Alone
<1>4. ASSUME NEW label, Goto(r, label), NEW b, batch' = [batch EXCEPT ![r] = b]
      PROVE  Alone(r)
  BY <1>1, <1>4 DEF Goto, Alone
<1>5. CASE batch' = batch /\ pc' = pc
  BY <1>5 DEF Alone
<1> QED
  BY <1>2, <1>3, <1>4, <1>5 DEF Step, Failure, Start, StartUngrouped, XGroupCreate, Stop, Read,
     ReadLost, Handle,
     PredictSucceeds, PredictFails, Requeue, Publish, DeadLetter, Ack, AckLost, pipelineVars

(* BatchOK survives for a replica that does not move, as long as what it   *)
(* holds stays pending.                                                    *)
LEMMA Unaffected ==
    ASSUME TypeOK, BatchInv, [Next]_vars, NEW s \in Replicas,
           batch'[s] = batch[s], pc'[s] = pc[s], Held(s) \subseteq pending'
    PROVE  BatchOK(s)'
<1>1. Held(s)' = Held(s) /\ (pc[s] \in Busy => JobOf(s)' = JobOf(s))
  BY Frame
<1>2. BatchOK(s)
  BY DEF BatchInv
<1>3. cursor \in Nat /\ cursor' \in Nat /\ cursor <= cursor'
  BY Grows
<1>4. batch[s].last \in Nat
  BY DEF TypeOK
<1> QED
  BY <1>1, <1>2, <1>3, <1>4 DEF BatchOK, Busy, Called

(* Only XACK takes entries off the pending list.                           *)
LEMMA PendingGrows ==
    ASSUME TypeOK, [Next]_vars, \A r \in Replicas : ~Ack(r)
    PROVE  pending \subseteq pending'
  BY DEF Next, Step, Failure, SubmitJob, ForeignEnqueue, Enqueue, Start, StartUngrouped,
     XGroupCreate, Stop, Read, ReadLost,
     Handle, PredictSucceeds, PredictFails, Requeue, Publish, DeadLetter, AckLost, XReadGroup,
     vars, queueVars

(* A busy replica that moves within its handler, or on to the next entry.  *)
LEMMA MovesOn ==
    ASSUME TypeOK, BatchInv, [Next]_vars, NEW r \in Replicas, pc[r] \in Busy,
           batch' = batch, pc'[r] \in Busy, pc'[r] \in Called => JobOf(r) \in Jobs,
           pending \subseteq pending'
    PROVE  BatchOK(r)'
<1>1. Held(r)' = Held(r) /\ JobOf(r)' = JobOf(r)
  BY Frame
<1>2. BatchOK(r)
  BY DEF BatchInv
<1>3. cursor \in Nat /\ cursor' \in Nat /\ cursor <= cursor'
  BY Grows
<1>4. batch[r].last \in Nat
  BY DEF TypeOK
<1> QED
  BY <1>1, <1>2, <1>3, <1>4 DEF BatchOK, Busy, Called

(* NextMessage takes exactly the current entry out of the batch.           *)
LEMMA NextMessageBatch ==
    ASSUME TypeOK, BatchInv, NEW r \in Replicas, pc[r] \in Busy, NextMessage(r),
           cursor' = cursor, pending \ {batch[r].cur} \subseteq pending'
    PROVE  /\ BatchOK(r)'
           /\ Held(r)' = Held(r) \ {batch[r].cur}
<1>1. /\ batch[r].cur \in Nat /\ batch[r].last \in Nat
      /\ batch'[r].cur = batch[r].cur + 1 /\ batch'[r].last = batch[r].last
      /\ pc'[r] = IF batch[r].cur < batch[r].last THEN "handle" ELSE "read"
  BY NextMessageFacts
<1>2. BatchOK(r) /\ cursor \in Nat
  BY DEF BatchInv, TypeOK, QueueTypeOK
<1>3. Held(r)' = Held(r) \ {batch[r].cur}
  BY <1>1 DEF Held
<1> QED
  BY <1>1, <1>2, <1>3 DEF BatchOK, Busy, Called

(* Every step keeps each replica's batch inside what was delivered and is  *)
(* pending; that no other replica holds an acknowledged entry is what      *)
(* ExclusiveEntries is needed for.                                         *)
LEMMA BatchStep ==
    ASSUME TypeOK, BatchInv, ExclusiveEntries, [Next]_vars
    PROVE  BatchInv'
<1>1. ASSUME NEW s \in Replicas
      PROVE  Held(s) \subseteq pending /\ BatchOK(s)
  BY DEF BatchInv, BatchOK
<1>2. ASSUME batch' = batch, pc' = pc, pending \subseteq pending'
      PROVE  BatchInv'
  BY <1>1, <1>2, Unaffected DEF BatchInv
<1>3. ASSUME NEW r \in Replicas, Step(r) \/ Failure(r), BatchOK(r)',
             \A s \in Replicas \ {r} : Held(s) \subseteq pending'
      PROVE  BatchInv'
  <2>1. Alone(r)
    BY <1>3, OneMoves
  <2>2. ASSUME NEW s \in Replicas, s # r
        PROVE  BatchOK(s)'
    BY <1>3, <2>1, <2>2, Unaffected DEF Alone
  <2> QED
    BY <1>3, <2>2 DEF BatchInv
<1>4. ASSUME NEW j \in Jobs, NEW rep \in XAddReply, SubmitJob(j, rep)
      PROVE  BatchInv'
  BY <1>2, <1>4 DEF SubmitJob, Enqueue
<1>5. CASE ForeignEnqueue
  BY <1>2, <1>5 DEF ForeignEnqueue, Enqueue, pipelineVars
<1>6. ASSUME NEW r \in Replicas, Start(r) \/ StartUngrouped(r)
      PROVE  BatchInv'
  <2>1. pc'[r] = "read" /\ batch' = batch /\ pending' = pending /\ pc[r] = "down"
    BY <1>6 DEF Start, StartUngrouped, XGroupCreate, Goto, queueVars, TypeOK
  <2>2. BatchOK(r)'
    BY <1>1, <2>1 DEF BatchOK, Busy, Called, Held
  <2> QED
    BY <1>1, <1>3, <1>6, <2>1, <2>2 DEF Step, Failure
<1>7. ASSUME NEW r \in Replicas, Stop(r)
      PROVE  BatchInv'
  <2>1. pc'[r] = "down" /\ batch'[r] = EmptyBatch /\ pending' = pending
    BY <1>7 DEF Stop, Goto, queueVars, TypeOK
  <2>2. BatchOK(r)'
    BY <2>1 DEF BatchOK, Busy, Called, Held, EmptyBatch
  <2> QED
    BY <1>1, <1>3, <1>7, <2>1, <2>2 DEF Failure
<1>8. ASSUME NEW r \in Replicas, Read(r)
      PROVE  BatchInv'
  <2>1. /\ pc'[r] = "handle" /\ batch'[r] = [cur |-> cursor + 1, last |-> BatchEnd]
        /\ QueueTypeOK /\ XReadGroup
    BY <1>8 DEF Read, Goto, TypeOK
  <2>2. /\ BatchEnd \in Nat /\ cursor \in Nat /\ cursor < BatchEnd /\ cursor' = BatchEnd
        /\ pending' = pending \cup (cursor + 1)..BatchEnd
    BY <2>1, ReadFacts
  <2>3. BatchOK(r)'
    BY <2>1, <2>2 DEF BatchOK, Busy, Called, Held
  <2> QED
    BY <1>1, <1>3, <1>8, <2>2, <2>3 DEF Step
<1>9. ASSUME NEW r \in Replicas, ReadLost(r)
      PROVE  BatchInv'
  BY <1>2, <1>9 DEF ReadLost, XReadGroup, pipelineVars
<1>10. ASSUME NEW r \in Replicas, Step(r), pc[r] \in Busy, pc'[r] \in Busy, batch' = batch,
              pc'[r] \in Called => JobOf(r) \in Jobs, pending' = pending
       PROVE  BatchInv'
  <2>1. BatchOK(r)'
    BY <1>10, MovesOn
  <2> QED
    BY <1>1, <1>3, <1>10, <2>1
<1>11. ASSUME NEW r \in Replicas, Handle(r)
       PROVE  BatchInv'
  <2>1. pc[r] = "handle" /\ batch' = batch /\ pending' = pending
    BY <1>11 DEF Handle, queueVars
  <2>2. JobOf(r) \in Jobs \cup {Malformed}
    BY <2>1, CurrentFacts DEF Busy
  <2>3. pc'[r] = (IF JobOf(r) = Malformed THEN "ack" ELSE "calling")
    BY <1>11 DEF Handle, Goto, TypeOK
  <2> QED
    BY <1>10, <1>11, <2>1, <2>2, <2>3 DEF Step, Busy, Called
<1>12. ASSUME NEW r \in Replicas, pc[r] \in Called
       PROVE  JobOf(r) \in Jobs /\ pc[r] \in Busy
  BY <1>1, <1>12 DEF BatchOK, Called, Busy
<1>13. ASSUME NEW r \in Replicas, PredictSucceeds(r) \/ PredictFails(r)
       PROVE  BatchInv'
  <2>1. pc[r] = "calling" /\ batch' = batch /\ pending' = pending
    BY <1>13 DEF PredictSucceeds, PredictFails, queueVars
  <2>2. pc'[r] \in {"publish", "deadletter", "requeue"}
    BY <1>13 DEF PredictSucceeds, PredictFails, Goto, TypeOK
  <2> QED
    BY <1>10, <1>12, <1>13, <2>1, <2>2 DEF Step, Busy, Called
<1>14. ASSUME NEW r \in Replicas, NEW rep \in XAddReply, Requeue(r, rep) \/ Publish(r, rep)
       PROVE  BatchInv'
  <2>1. pc[r] \in Called /\ batch' = batch /\ pending' = pending
    BY <1>14 DEF Requeue, Publish, Enqueue, queueVars, Called
  <2>2. pc'[r] = "ack"
    BY <1>14 DEF Requeue, Publish, Goto, TypeOK
  <2> QED
    BY <1>10, <1>12, <1>14, <2>1, <2>2 DEF Step, Busy, Called
<1>15. ASSUME NEW r \in Replicas, NEW rep \in XAddReply, DeadLetter(r, rep)
       PROVE  BatchInv'
  <2>1. pc[r] = "deadletter" /\ pending' = pending /\ cursor' = cursor
    BY <1>15 DEF DeadLetter, queueVars
  <2>2. CASE NextMessage(r)
    <3>1. BatchOK(r)'
      BY <2>1, <2>2, NextMessageBatch DEF Busy
    <3> QED
      BY <1>1, <1>3, <1>15, <2>1, <3>1 DEF Step
  <2>3. CASE Goto(r, "ack") /\ UNCHANGED batch
    <3>1. pc'[r] = "ack"
      BY <2>3 DEF Goto, TypeOK
    <3> QED
      BY <1>10, <1>12, <1>15, <2>1, <2>3, <3>1 DEF Step, Busy, Called
  <2> QED
    BY <1>15, <2>2, <2>3 DEF DeadLetter
<1>16. ASSUME NEW r \in Replicas, Ack(r)
       PROVE  BatchInv'
  <2>1. pc[r] = "ack" /\ pending' = pending \ {batch[r].cur} /\ cursor' = cursor /\ NextMessage(r)
    BY <1>16 DEF Ack, XAck
  <2>2. BatchOK(r)'
    BY <2>1, NextMessageBatch DEF Busy
  <2>3. batch[r].cur \in Held(r)
    BY <2>1, CurrentFacts DEF Busy
  <2>4. ASSUME NEW s \in Replicas, s # r
        PROVE  Held(s) \subseteq pending'
    BY <1>1, <2>1, <2>3, <2>4 DEF ExclusiveEntries
  <2> QED
    BY <1>3, <1>16, <2>2, <2>4 DEF Step
<1>17. ASSUME NEW r \in Replicas, AckLost(r)
       PROVE  BatchInv'
  <2>1. pc[r] = "ack" /\ pending' = pending /\ cursor' = cursor /\ NextMessage(r)
    BY <1>17 DEF AckLost, queueVars
  <2>2. BatchOK(r)'
    BY <2>1, NextMessageBatch DEF Busy
  <2> QED
    BY <1>1, <1>3, <1>17, <2>1, <2>2 DEF Failure
<1>18. CASE UNCHANGED vars
  BY <1>2, <1>18 DEF vars, queueVars, pipelineVars
<1> QED
  BY <1>4, <1>5, <1>6, <1>7, <1>8, <1>9, <1>11, <1>13, <1>14, <1>15, <1>16, <1>17, <1>18
  DEF Next, Step, Failure

(* No entry gets a second holder: a batch shrinks, or is read from beyond  *)
(* the cursor, where nobody holds anything.                                *)
LEMMA ExclusiveStep ==
    ASSUME TypeOK, BatchInv, ExclusiveEntries, [Next]_vars
    PROVE  ExclusiveEntries'
<1>1. CASE batch' = batch
  BY <1>1 DEF ExclusiveEntries, Held
<1>2. ASSUME NEW r \in Replicas, Step(r) \/ Failure(r),
             \A s \in Replicas \ {r} : Held(r)' \cap Held(s) = {}
      PROVE  ExclusiveEntries'
  <2>1. \A s \in Replicas \ {r} : Held(s)' = Held(s)
    BY <1>2, OneMoves DEF Alone, Held
  <2> QED
    BY <1>2, <2>1 DEF ExclusiveEntries
<1>3. ASSUME NEW r \in Replicas, Stop(r)
      PROVE  ExclusiveEntries'
  <2>1. Held(r)' = {}
    BY <1>3 DEF Stop, Held, EmptyBatch, TypeOK
  <2> QED
    BY <1>2, <1>3, <2>1 DEF Failure
<1>4. ASSUME NEW r \in Replicas, Read(r)
      PROVE  ExclusiveEntries'
  <2>1. QueueTypeOK /\ XReadGroup
    BY <1>4 DEF Read, TypeOK
  <2>2. cursor \in Nat /\ BatchEnd \in Nat
    BY <2>1, ReadFacts
  <2>3. Held(r)' = (cursor + 1)..BatchEnd
    BY <1>4 DEF Read, Held, TypeOK
  <2>4. ASSUME NEW s \in Replicas
        PROVE  Held(s) \subseteq 1..cursor
    BY DEF BatchInv, BatchOK, TypeOK, QueueTypeOK
  <2> QED
    BY <1>2, <1>4, <2>2, <2>3, <2>4 DEF Step
<1>5. ASSUME NEW r \in Replicas, Step(r) \/ Failure(r), pc[r] \in Busy, NextMessage(r),
             cursor' = cursor, pending \ {batch[r].cur} \subseteq pending'
      PROVE  ExclusiveEntries'
  <2>1. Held(r)' \subseteq Held(r)
    BY <1>5, NextMessageBatch
  <2> QED
    BY <1>2, <1>5, <2>1 DEF ExclusiveEntries
<1>6. ASSUME NEW r \in Replicas, NEW rep \in XAddReply, DeadLetter(r, rep)
      PROVE  ExclusiveEntries'
  BY <1>1, <1>5, <1>6 DEF DeadLetter, Step, queueVars, Busy
<1>7. ASSUME NEW r \in Replicas, Ack(r) \/ AckLost(r)
      PROVE  ExclusiveEntries'
  BY <1>5, <1>7 DEF Ack, AckLost, XAck, Step, Failure, queueVars, Busy
<1> QED
  BY <1>1, <1>3, <1>4, <1>6, <1>7 DEF Next, Step, Failure, SubmitJob, ForeignEnqueue, Start,
     StartUngrouped, XGroupCreate,
     ReadLost, Handle, PredictSucceeds, PredictFails, Requeue, Publish, vars, pipelineVars

----------------------------------------------------------------------------
(* Where the entries a step adds to the stream come from.                  *)
LEMMA NewEntries ==
    ASSUME TypeOK, BatchInv, [Next]_vars, NEW e \in 1..Len(stream'), e \notin 1..Len(stream)
    PROVE  /\ cursor' = cursor /\ cursor < e
           /\ \/ \E j \in Jobs, rep \in XAddReply :
                    SubmitJob(j, rep) /\ stream'[e] = [job |-> j, attempt |-> 0]
              \/ ForeignEnqueue /\ stream'[e] = [job |-> Malformed, attempt |-> 0]
              \/ \E r \in Replicas, rep \in XAddReply :
                    Requeue(r, rep) /\ stream'[e] = [job |-> JobOf(r), attempt |-> AttemptOf(r)]
<1> DEFINE Src == \/ \E j \in Jobs, rep \in XAddReply :
                        SubmitJob(j, rep) /\ stream'[e] = [job |-> j, attempt |-> 0]
                  \/ ForeignEnqueue /\ stream'[e] = [job |-> Malformed, attempt |-> 0]
                  \/ \E r \in Replicas, rep \in XAddReply :
                        Requeue(r, rep) /\ stream'[e] = [job |-> JobOf(r), attempt |-> AttemptOf(r)]
<1>1. QueueTypeOK /\ Len(stream) \in Nat /\ Len(stream') \in Nat /\ cursor \in Nat
      /\ cursor <= Len(stream)
  BY Grows DEF TypeOK
<1>2. e \in (Len(stream) + 1)..Len(stream') /\ cursor < e
  BY <1>1
<1>3. ASSUME NEW p \in Payload, NEW rep \in XAddReply, Enqueue(p, rep)
      PROVE  cursor' = cursor /\ stream'[e] = p
  BY <1>1, <1>2, <1>3, EnqueueFacts
<1>4. ASSUME NEW j \in Jobs, NEW rep \in XAddReply, SubmitJob(j, rep)
      PROVE  cursor' = cursor /\ Src
  <2>1. [job |-> j, attempt |-> 0] \in Payload
    BY DEF Payload
  <2> QED
    BY <1>3, <1>4, <2>1 DEF SubmitJob
<1>5. ASSUME ForeignEnqueue
      PROVE  cursor' = cursor /\ Src
  <2>1. [job |-> Malformed, attempt |-> 0] \in Payload /\ Clean \in XAddReply
    BY DEF Payload, XAddReply
  <2> QED
    BY <1>3, <1>5, <2>1 DEF ForeignEnqueue
<1>6. ASSUME NEW r \in Replicas, NEW rep \in XAddReply, Requeue(r, rep)
      PROVE  cursor' = cursor /\ Src
  <2>1. [job |-> JobOf(r), attempt |-> AttemptOf(r)] \in Payload
    BY <1>6, CurrentFacts DEF Requeue, Busy, Payload
  <2> QED
    BY <1>3, <1>6, <2>1 DEF Requeue
<1>7. stream' # stream
  OBVIOUS
<1> QED
  BY <1>2, <1>4, <1>5, <1>6, <1>7 DEF Next, Step, Failure, Start, StartUngrouped, XGroupCreate,
     Stop, Read, ReadLost, Handle,
     PredictSucceeds, PredictFails, Publish, DeadLetter, Ack, AckLost, XReadGroup, XAck,
     vars, queueVars

(* The only steps that change calls, results and dlq, and for which job.   *)
LEMMA JobChanges ==
    ASSUME TypeOK, BatchInv, [Next]_vars, NEW j \in Jobs
    PROVE  /\ calls'[j] # calls[j] =>
                \E r \in Replicas : /\ Handle(r) /\ JobOf(r) = j
                                    /\ calls'[j] = calls[j] + 1
           /\ results'[j] # results[j] =>
                \E r \in Replicas, rep \in XAddReply :
                    Publish(r, rep) /\ JobOf(r) = j /\ results'[j] = results[j] + rep.copies
           /\ dlq'[j] # dlq[j] =>
                \E r \in Replicas, rep \in XAddReply :
                    DeadLetter(r, rep) /\ JobOf(r) = j /\ dlq'[j] = dlq[j] + rep.copies
           /\ response'[j] # response[j] => \E rep \in XAddReply : SubmitJob(j, rep)
<1>1. /\ calls \in [Jobs -> Nat] /\ results \in [Jobs -> Nat] /\ dlq \in [Jobs -> Nat]
      /\ response \in [Jobs -> {"none", "accepted", "unavailable"}]
  BY DEF TypeOK
<1>2. ASSUME calls'[j] # calls[j]
      PROVE  \E r \in Replicas : Handle(r) /\ JobOf(r) = j /\ calls'[j] = calls[j] + 1
  <2>1. PICK r \in Replicas : Handle(r)
    BY <1>2 DEF Next, Step, Failure, SubmitJob, ForeignEnqueue, Start, StartUngrouped,
       XGroupCreate, Stop, Read, ReadLost,
       PredictSucceeds, PredictFails, Requeue, Publish, DeadLetter, Ack, AckLost, vars, pipelineVars
  <2>2. calls' = calls \/ calls' = [calls EXCEPT ![JobOf(r)] = @ + 1]
    BY <2>1 DEF Handle
  <2> QED
    BY <1>1, <1>2, <2>1, <2>2
<1>3. ASSUME results'[j] # results[j]
      PROVE  \E r \in Replicas, rep \in XAddReply :
                 Publish(r, rep) /\ JobOf(r) = j /\ results'[j] = results[j] + rep.copies
  <2>1. PICK r \in Replicas, rep \in XAddReply : Publish(r, rep)
    BY <1>3 DEF Next, Step, Failure, SubmitJob, ForeignEnqueue, Start, StartUngrouped,
       XGroupCreate, Stop, Read, ReadLost,
       Handle, PredictSucceeds, PredictFails, Requeue, DeadLetter, Ack, AckLost, vars, pipelineVars
  <2>2. results' = [results EXCEPT ![JobOf(r)] = @ + rep.copies]
    BY <2>1 DEF Publish
  <2> QED
    BY <1>1, <1>3, <2>1, <2>2
<1>4. ASSUME dlq'[j] # dlq[j]
      PROVE  \E r \in Replicas, rep \in XAddReply :
                 DeadLetter(r, rep) /\ JobOf(r) = j /\ dlq'[j] = dlq[j] + rep.copies
  <2>1. PICK r \in Replicas, rep \in XAddReply : DeadLetter(r, rep)
    BY <1>4 DEF Next, Step, Failure, SubmitJob, ForeignEnqueue, Start, StartUngrouped,
       XGroupCreate, Stop, Read, ReadLost,
       Handle, PredictSucceeds, PredictFails, Requeue, Publish, Ack, AckLost, vars, pipelineVars
  <2>2. dlq' = [dlq EXCEPT ![JobOf(r)] = @ + rep.copies]
    BY <2>1 DEF DeadLetter
  <2> QED
    BY <1>1, <1>4, <2>1, <2>2
<1>5. ASSUME response'[j] # response[j]
      PROVE  \E rep \in XAddReply : SubmitJob(j, rep)
  <2>1. PICK k \in Jobs, rep \in XAddReply : SubmitJob(k, rep)
    BY <1>5 DEF Next, Step, Failure, ForeignEnqueue, Start, StartUngrouped, XGroupCreate, Stop,
       Read, ReadLost,
       Handle, PredictSucceeds, PredictFails, Requeue, Publish, DeadLetter, Ack, AckLost, vars,
       pipelineVars
  <2>2. k = j
    BY <1>1, <1>5, <2>1 DEF SubmitJob
  <2> QED
    BY <2>1, <2>2
<1> QED
  BY <1>2, <1>3, <1>4, <1>5

(* The entry a busy replica works on is an entry of its job.               *)
LEMMA BusyEntry ==
    ASSUME TypeOK, BatchInv, NEW r \in Replicas, pc[r] \in Busy
    PROVE  /\ batch[r].cur \in 1..Len(stream)
           /\ stream[batch[r].cur].job = JobOf(r)
           /\ AttemptOf(r) = stream[batch[r].cur].attempt + 1
  BY CurrentFacts DEF JobOf, AttemptOf, Current

(* A job without a submission stays without a trace.                       *)
LEMMA FreshStep ==
    ASSUME TypeOK, BatchInv, FreshInv, [Next]_vars
    PROVE  FreshInv'
<1> SUFFICES ASSUME NEW j \in Jobs, response'[j] = "none"
             PROVE  /\ \A e \in 1..Len(stream') : stream'[e].job # j
                    /\ calls'[j] = 0 /\ results'[j] = 0 /\ dlq'[j] = 0
  BY DEF FreshInv
<1>1. ASSUME NEW rep \in XAddReply, SubmitJob(j, rep)
      PROVE  FALSE
  BY <1>1 DEF SubmitJob, TypeOK
<1>2. /\ \A e \in 1..Len(stream) : stream[e].job # j
      /\ calls[j] = 0 /\ results[j] = 0 /\ dlq[j] = 0
  BY <1>1, JobChanges DEF FreshInv
<1>3. ASSUME NEW r \in Replicas, pc[r] \in Busy
      PROVE  JobOf(r) # j
  BY <1>2, <1>3, BusyEntry
<1>4. calls'[j] = 0 /\ results'[j] = 0 /\ dlq'[j] = 0
  BY <1>2, <1>3, JobChanges DEF Handle, Publish, DeadLetter, Busy
<1>5. ASSUME NEW e \in 1..Len(stream'), stream'[e].job = j
      PROVE  FALSE
  <2>1. e \notin 1..Len(stream)
    BY <1>2, <1>5, Grows
  <2>2. ASSUME NEW k \in Jobs, NEW rep \in XAddReply, SubmitJob(k, rep),
               stream'[e] = [job |-> k, attempt |-> 0]
        PROVE  FALSE
    <3>1. k = j
      BY <1>5, <2>2
    <3> QED
      BY <1>1, <2>2, <3>1
  <2>3. stream'[e] # [job |-> Malformed, attempt |-> 0]
    BY <1>5
  <2>4. ASSUME NEW r \in Replicas, NEW rep \in XAddReply, Requeue(r, rep),
               stream'[e] = [job |-> JobOf(r), attempt |-> AttemptOf(r)]
        PROVE  FALSE
    <3>1. JobOf(r) = j /\ pc[r] \in Busy
      BY <1>5, <2>4 DEF Requeue, Busy
    <3> QED
      BY <1>3, <3>1
  <2> QED
    BY <2>1, <2>2, <2>3, <2>4, NewEntries
<1> QED
  BY <1>4, <1>5

(* The steps that bring a replica between the router call and the ack, or  *)
(* leave it there: its batch does not move.                                *)
LEMMA Arrivals ==
    ASSUME TypeOK, BatchInv, [Next]_vars, NEW r \in Replicas, pc'[r] \in Called \cup {"ack"}
    PROVE  /\ batch'[r] = batch[r] /\ pc[r] \in Busy
           /\ \/ pc'[r] = pc[r]
              \/ /\ Handle(r) /\ JobOf(r) \in Jobs /\ pc'[r] = "calling"
                 /\ calls' = [calls EXCEPT ![JobOf(r)] = @ + 1]
              \/ Handle(r) /\ JobOf(r) = Malformed /\ pc'[r] = "ack"
              \/ PredictSucceeds(r) /\ pc'[r] = "publish"
              \/ /\ PredictFails(r)
                 /\ pc'[r] = IF AttemptOf(r) >= MaxAttempts THEN "deadletter" ELSE "requeue"
              \/ /\ pc'[r] = "ack"
                 /\ \E rep \in XAddReply : \/ Requeue(r, rep) \/ Publish(r, rep)
                                           \/ DeadLetter(r, rep) /\ ~rep.err
<1> DEFINE Why ==
       \/ pc'[r] = pc[r]
       \/ /\ Handle(r) /\ JobOf(r) \in Jobs /\ pc'[r] = "calling"
          /\ calls' = [calls EXCEPT ![JobOf(r)] = @ + 1]
       \/ Handle(r) /\ JobOf(r) = Malformed /\ pc'[r] = "ack"
       \/ PredictSucceeds(r) /\ pc'[r] = "publish"
       \/ /\ PredictFails(r)
          /\ pc'[r] = IF AttemptOf(r) >= MaxAttempts THEN "deadletter" ELSE "requeue"
       \/ /\ pc'[r] = "ack"
          /\ \E rep \in XAddReply : \/ Requeue(r, rep) \/ Publish(r, rep)
                                    \/ DeadLetter(r, rep) /\ ~rep.err
       Goal == batch'[r] = batch[r] /\ pc[r] \in Busy /\ Why
<1>1. pc \in [Replicas -> PCs] /\ batch \in [Replicas -> [cur: Nat, last: Nat]]
  BY DEF TypeOK
<1>2. ASSUME batch'[r] = batch[r], pc'[r] = pc[r]
      PROVE  Goal
  BY <1>2 DEF Called, Busy
<1>3. ASSUME NEW s \in Replicas, s # r, Step(s) \/ Failure(s)
      PROVE  Goal
  BY <1>2, <1>3, OneMoves DEF Alone
<1>4. ASSUME Handle(r)
      PROVE  Goal
  <2>1. JobOf(r) \in Jobs \cup {Malformed}
    BY <1>4, CurrentFacts DEF Handle, Busy
  <2>2. pc[r] \in Busy /\ batch' = batch
    BY <1>4 DEF Handle, Busy
  <2> QED
    BY <1>1, <1>4, <2>1, <2>2 DEF Handle, Goto
<1>5. ASSUME PredictSucceeds(r)
      PROVE  Goal
  BY <1>1, <1>5 DEF PredictSucceeds, Goto, Busy
<1>6. ASSUME PredictFails(r)
      PROVE  Goal
  BY <1>1, <1>6 DEF PredictFails, Goto, Busy
<1>7. ASSUME NEW rep \in XAddReply, Requeue(r, rep) \/ Publish(r, rep)
      PROVE  Goal
  BY <1>1, <1>7 DEF Requeue, Publish, Goto, Busy
<1>8. ~NextMessage(r)
  BY <1>1 DEF NextMessage, Goto, Called
<1>9. ASSUME NEW rep \in XAddReply, DeadLetter(r, rep)
      PROVE  Goal
  BY <1>1, <1>8, <1>9 DEF DeadLetter, Goto, Busy
<1>10. ~Start(r) /\ ~StartUngrouped(r) /\ ~Stop(r) /\ ~Read(r) /\ ~Ack(r) /\ ~AckLost(r)
  BY <1>1, <1>8 DEF Start, StartUngrouped, XGroupCreate, Stop, Read, Ack, AckLost, Goto, Called
<1>11. ASSUME Step(r) \/ Failure(r)
       PROVE  Goal
  BY <1>2, <1>4, <1>5, <1>6, <1>7, <1>9, <1>10, <1>11 DEF Step, Failure, ReadLost, pipelineVars
<1>12. Goal
  BY <1>2, <1>3, <1>11 DEF Next, SubmitJob, ForeignEnqueue, vars, pipelineVars
<1> QED
  BY <1>12

(* Attempt numbers stay below the limit and behind the router calls.       *)
LEMMA AttemptStep ==
    ASSUME TypeOK, BatchInv, AttemptInv, [Next]_vars
    PROVE  AttemptInv'
<1>1. ASSUME NEW e \in 1..Len(stream')
      PROVE  /\ stream'[e].attempt < MaxAttempts
             /\ stream'[e].job \in Jobs => stream'[e].attempt <= calls'[stream'[e].job]
  <2> DEFINE Bounded == /\ stream'[e].attempt < MaxAttempts
                        /\ stream'[e].job \in Jobs => stream'[e].attempt <= calls'[stream'[e].job]
  <2>1. ASSUME e \in 1..Len(stream)
        PROVE  Bounded
    <3>1. stream'[e] = stream[e] /\ stream[e] \in Payload
      BY <2>1, Grows DEF TypeOK, QueueTypeOK
    <3>2. stream[e].attempt \in Nat
      BY <3>1 DEF Payload
    <3>3. \A j \in Jobs : calls[j] \in Nat /\ calls'[j] \in Nat /\ calls[j] <= calls'[j]
      BY Grows
    <3> QED
      BY <2>1, <3>1, <3>2, <3>3 DEF AttemptInv
  <2>2. ASSUME NEW r \in Replicas, NEW rep \in XAddReply, Requeue(r, rep),
               stream'[e] = [job |-> JobOf(r), attempt |-> AttemptOf(r)]
        PROVE  Bounded
    <3>1. AttemptOf(r) < MaxAttempts /\ AttemptOf(r) <= calls[JobOf(r)] /\ calls' = calls
      BY <2>2 DEF AttemptInv, Requeue, Called
    <3> QED
      BY <2>2, <3>1
  <2>3. ASSUME NEW j, stream'[e] = [job |-> j, attempt |-> 0]
        PROVE  Bounded
    BY <2>3, Grows
  <2>4. Bounded
    BY <2>1, <2>2, <2>3, NewEntries
  <2> QED
    BY <2>4
<1>2. ASSUME NEW r \in Replicas, pc'[r] \in Called
      PROVE  /\ AttemptOf(r)' <= calls'[JobOf(r)']
             /\ pc'[r] = "requeue" => AttemptOf(r)' < MaxAttempts
             /\ pc'[r] = "deadletter" => AttemptOf(r)' >= MaxAttempts
  <2>1. batch'[r] = batch[r] /\ pc[r] \in Busy
    BY <1>2, Arrivals
  <2>2. JobOf(r)' = JobOf(r) /\ AttemptOf(r)' = AttemptOf(r) /\ AttemptOf(r) \in Nat
    BY <2>1, Frame, CurrentFacts
  <2>3. /\ pc[r] \in Called => AttemptOf(r) <= calls[JobOf(r)] /\ JobOf(r) \in Jobs
        /\ pc[r] = "requeue" => AttemptOf(r) < MaxAttempts
        /\ pc[r] = "deadletter" => AttemptOf(r) >= MaxAttempts
    BY DEF AttemptInv, BatchInv, BatchOK
  <2>4. \A j \in Jobs : calls[j] \in Nat /\ calls'[j] \in Nat /\ calls[j] <= calls'[j]
    BY Grows
  <2>5. CASE pc[r] \in Called
    <3>1. AttemptOf(r) <= calls'[JobOf(r)]
      BY <2>2, <2>3, <2>4, <2>5
    <3>2. \/ pc'[r] = pc[r]
          \/ pc'[r] = "publish"
          \/ pc'[r] = IF AttemptOf(r) >= MaxAttempts THEN "deadletter" ELSE "requeue"
      BY <1>2, <2>5, Arrivals DEF Handle, Called
    <3> QED
      BY <2>2, <2>3, <3>1, <3>2
  <2>6. CASE pc[r] \notin Called
    <3>1. /\ Handle(r) /\ JobOf(r) \in Jobs /\ pc'[r] = "calling"
          /\ calls' = [calls EXCEPT ![JobOf(r)] = @ + 1]
      BY <1>2, <2>6, Arrivals DEF PredictSucceeds, PredictFails, Called
    <3>2. AttemptOf(r) - 1 <= calls[JobOf(r)]
      <4>1. /\ batch[r].cur \in 1..Len(stream) /\ stream[batch[r].cur].job = JobOf(r)
            /\ AttemptOf(r) = stream[batch[r].cur].attempt + 1
        BY <2>1, BusyEntry
      <4>2. stream[batch[r].cur].attempt <= calls[JobOf(r)]
        BY <3>1, <4>1 DEF AttemptInv
      <4>3. stream[batch[r].cur].attempt \in Nat
        BY <2>1, CurrentFacts DEF Current, Payload
      <4> QED
        BY <4>1, <4>2, <4>3
    <3>3. calls'[JobOf(r)] = calls[JobOf(r)] + 1
      BY <3>1 DEF TypeOK
    <3> QED
      BY <2>2, <2>4, <3>1, <3>2, <3>3
  <2> QED
    BY <2>5, <2>6
<1>3. ASSUME NEW j \in Jobs, dlq'[j] > 0
      PROVE  calls'[j] >= MaxAttempts
  <2>1. calls[j] \in Nat /\ calls'[j] \in Nat /\ calls[j] <= calls'[j]
    BY Grows
  <2>2. CASE dlq'[j] = dlq[j]
    BY <1>3, <2>1, <2>2 DEF AttemptInv, DeadLetterOnlyExhausted
  <2>3. CASE dlq'[j] # dlq[j]
    <3>1. PICK r \in Replicas, rep \in XAddReply : DeadLetter(r, rep) /\ JobOf(r) = j
      BY <2>3, JobChanges
    <3>2. AttemptOf(r) >= MaxAttempts /\ AttemptOf(r) <= calls[j] /\ AttemptOf(r) \in Nat
      BY <3>1, CurrentFacts DEF AttemptInv, DeadLetter, Called, Busy
    <3> QED
      BY <2>1, <3>2
  <2> QED
    BY <2>2, <2>3
<1> QED
  BY <1>1, <1>2, <1>3 DEF AttemptInv, DeadLetterOnlyExhausted, Called

----------------------------------------------------------------------------
(* A job's outcome is not taken back.                                      *)
LEMMA SettledStays ==
    ASSUME TypeOK, BatchInv, [Next]_vars, NEW j \in Jobs, Settled(j)
    PROVE  Settled(j)'
<1>1. /\ results[j] \in Nat /\ results'[j] \in Nat /\ results[j] <= results'[j]
      /\ dlq[j] \in Nat /\ dlq'[j] \in Nat /\ dlq[j] <= dlq'[j]
      /\ logged \subseteq logged'
  BY Grows
<1> QED
  BY <1>1 DEF Settled

(* What a replica has done when it gets to the acknowledgement: settled    *)
(* the job, or put its next attempt on the stream.                         *)
LEMMA AckStarts ==
    ASSUME TypeOK, BatchInv, [Next]_vars, NEW r \in Replicas, pc'[r] = "ack", pc[r] # "ack"
    PROVE  \/ JobOf(r) = Malformed
           \/ \E j \in Jobs : JobOf(r) = j /\ Settled(j)'
           \/ \E f \in 1..Len(stream') :
                 f \notin 1..Len(stream)
                 /\ stream'[f] = [job |-> JobOf(r), attempt |-> AttemptOf(r)]
<1> DEFINE Next1 == \E f \in 1..Len(stream') :
                      f \notin 1..Len(stream)
                      /\ stream'[f] = [job |-> JobOf(r), attempt |-> AttemptOf(r)]
           Goal == JobOf(r) = Malformed \/ (\E j \in Jobs : JobOf(r) = j /\ Settled(j)') \/ Next1
<1>1. pc[r] \in Busy
  BY Arrivals
<1>2. /\ results \in [Jobs -> Nat] /\ dlq \in [Jobs -> Nat]
      /\ \A j \in Jobs : results[j] \in Nat /\ dlq[j] \in Nat
  BY DEF TypeOK
<1>3. pc[r] \in Called => JobOf(r) \in Jobs
  BY DEF BatchInv, BatchOK
<1>4. ASSUME NEW rep \in XAddReply, Requeue(r, rep)
      PROVE  Goal
  <2>1. JobOf(r) \in Jobs /\ AttemptOf(r) \in Nat
    BY <1>1, <1>3, <1>4, CurrentFacts DEF Requeue, Called
  <2>2. CASE rep.err
    BY <1>4, <2>1, <2>2 DEF Requeue, NoteLogged, Settled
  <2>3. CASE ~rep.err
    <3> DEFINE p == [job |-> JobOf(r), attempt |-> AttemptOf(r)]
    <3>1. p \in Payload
      BY <2>1 DEF Payload
    <3>2. Enqueue(p, rep) /\ QueueTypeOK
      BY <1>4 DEF Requeue, TypeOK
    <3> HIDE DEF p
    <3>3. /\ Len(stream) \in Nat /\ Len(stream') = Len(stream) + rep.copies
          /\ \A i \in (Len(stream) + 1)..Len(stream') : stream'[i] = p
      BY <3>1, <3>2, EnqueueFacts
    <3>4. rep.copies \in {1, 2}
      BY <2>3, XAddReplyFacts
    <3>5. /\ Len(stream) + 1 \in 1..Len(stream') /\ Len(stream) + 1 \notin 1..Len(stream)
          /\ stream'[Len(stream) + 1] = p
      BY <3>3, <3>4
    <3> QED
      BY <3>5 DEF p
  <2> QED
    BY <2>2, <2>3
<1>5. ASSUME NEW rep \in XAddReply, Publish(r, rep)
      PROVE  Goal
  <2>1. JobOf(r) \in Jobs
    BY <1>3, <1>5 DEF Publish, Called
  <2>2. CASE rep.err
    BY <1>5, <2>1, <2>2 DEF Publish, NoteLogged, Settled
  <2>3. CASE ~rep.err
    <3>1. rep.copies \in {1, 2}
      BY <2>3, XAddReplyFacts
    <3>2. results' = [results EXCEPT ![JobOf(r)] = @ + rep.copies]
      BY <1>5 DEF Publish
    <3>3. results'[JobOf(r)] > 0
      BY <1>2, <2>1, <3>1, <3>2
    <3> QED
      BY <2>1, <3>3 DEF Settled
  <2> QED
    BY <2>2, <2>3
<1>6. ASSUME NEW rep \in XAddReply, DeadLetter(r, rep), ~rep.err
      PROVE  Goal
  <2>1. JobOf(r) \in Jobs
    BY <1>3, <1>6 DEF DeadLetter, Called
  <2>2. rep.copies \in {1, 2}
    BY <1>6, XAddReplyFacts
  <2>3. dlq' = [dlq EXCEPT ![JobOf(r)] = @ + rep.copies]
    BY <1>6 DEF DeadLetter
  <2>4. dlq'[JobOf(r)] > 0
    BY <1>2, <2>1, <2>2, <2>3
  <2> QED
    BY <2>1, <2>4 DEF Settled
<1>7. Goal
  BY <1>4, <1>5, <1>6, Arrivals
<1> QED
  BY <1>7

(* What is on record stays there.                                          *)
LEMMA RecordedStays ==
    ASSUME TypeOK, BatchInv, [Next]_vars, NEW e \in 1..Len(stream), Recorded(e)
    PROVE  Recorded(e)'
<1>1. stream'[e] = stream[e] /\ stream[e].job \in Jobs \cup {Malformed}
  <2>1. stream[e] \in Payload
    BY DEF TypeOK, QueueTypeOK
  <2> QED
    BY <2>1, Grows DEF Payload
<1>2. ASSUME stream[e].job \in Jobs, Settled(stream[e].job)
      PROVE  Recorded(e)'
  <2>1. PICK j \in Jobs : stream[e].job = j
    BY <1>2
  <2>2. Settled(j)'
    BY <1>2, <2>1, SettledStays
  <2> QED
    BY <1>1, <2>1, <2>2 DEF Recorded, Settled
<1>3. ASSUME NEW f \in EntriesOf(stream[e].job), stream[f].attempt = stream[e].attempt + 1
      PROVE  Recorded(e)'
  <2>1. f \in 1..Len(stream) /\ stream[f].job = stream[e].job
    BY <1>3 DEF EntriesOf
  <2>2. f \in 1..Len(stream') /\ stream'[f] = stream[f]
    BY <2>1, Grows
  <2> QED
    BY <1>1, <1>3, <2>1, <2>2 DEF Recorded, EntriesOf
<1>4. CASE stream[e].job = Malformed
  BY <1>1, <1>4 DEF Recorded
<1> QED
  BY <1>1, <1>2, <1>3, <1>4 DEF Recorded

(* Whoever is about to acknowledge has put the outcome on record.          *)
LEMMA AckStep ==
    ASSUME TypeOK, BatchInv, AckInv, [Next]_vars
    PROVE  AckInv'
<1> SUFFICES ASSUME NEW r \in Replicas, pc'[r] = "ack"
             PROVE  Recorded(batch[r].cur)'
  BY DEF AckInv
<1>1. batch'[r] = batch[r] /\ pc[r] \in Busy
  BY Arrivals
<1>2. PICK e \in 1..Len(stream) : /\ e = batch[r].cur /\ stream[e].job = JobOf(r)
                                  /\ AttemptOf(r) = stream[e].attempt + 1
  BY <1>1, BusyEntry
<1>3. stream'[e] = stream[e]
  BY Grows
<1>4. Recorded(e)'
  <2>1. CASE pc[r] = "ack"
    BY <1>2, <2>1, RecordedStays DEF AckInv
  <2>2. CASE JobOf(r) = Malformed
    BY <1>2, <1>3, <2>2 DEF Recorded
  <2>3. ASSUME NEW j \in Jobs, JobOf(r) = j, Settled(j)'
        PROVE  Recorded(e)'
    BY <1>2, <1>3, <2>3 DEF Recorded, Settled
  <2>4. ASSUME NEW f \in 1..Len(stream'),
               stream'[f] = [job |-> JobOf(r), attempt |-> AttemptOf(r)]
        PROVE  Recorded(e)'
    <3>1. stream'[f].job = stream'[e].job /\ stream'[f].attempt = stream'[e].attempt + 1
      BY <1>2, <1>3, <2>4
    <3> QED
      BY <3>1 DEF Recorded, EntriesOf
  <2> QED
    BY <2>1, <2>2, <2>3, <2>4, AckStarts
<1> QED
  BY <1>1, <1>2, <1>4 DEF Recorded, EntriesOf, Settled

(* No accepted job is lost: every step keeps it settled, or leaves an      *)
(* entry of it that nobody acknowledges.                                   *)
LEMMA LossStep ==
    ASSUME TypeOK, BatchInv, LossInv, [Next]_vars
    PROVE  LossInv'
<1> SUFFICES ASSUME NEW j \in Jobs,
                    response'[j] = "accepted" \/ \E e \in 1..Len(stream') : stream'[e].job = j,
                    ~Settled(j)'
             PROVE  \E e \in 1..Len(stream') : stream'[e].job = j /\ Unfinished(e)'
  BY DEF LossInv
<1> DEFINE Added == \E e \in 1..Len(stream') : e \notin 1..Len(stream) /\ stream'[e].job = j
<1>1. ~Settled(j)
  BY SettledStays
<1>2. CASE Added
  <2>1. PICK e \in 1..Len(stream') : e \notin 1..Len(stream) /\ stream'[e].job = j
    BY <1>2
  <2>2. cursor' = cursor /\ cursor < e
    BY <2>1, NewEntries
  <2>3. cursor \in Nat
    BY Grows
  <2> QED
    BY <2>1, <2>2, <2>3 DEF Unfinished
<1>3. CASE ~Added
  <2>1. ASSUME NEW rep \in XAddReply, SubmitJob(j, rep)
        PROVE  response'[j] # "accepted"
    <3> DEFINE p == [job |-> j, attempt |-> 0]
    <3>1. p \in Payload /\ p.job = j
      BY DEF Payload
    <3>2. Enqueue(p, rep) /\ QueueTypeOK
      BY <2>1 DEF SubmitJob, TypeOK
    <3> HIDE DEF p
    <3>3. /\ Len(stream) \in Nat /\ Len(stream') = Len(stream) + rep.copies
          /\ \A i \in (Len(stream) + 1)..Len(stream') : stream'[i] = p
      BY <3>1, <3>2, EnqueueFacts
    <3>4. CASE ~rep.err
      <4>1. rep.copies \in {1, 2}
        BY <3>4, XAddReplyFacts
      <4>2. /\ Len(stream) + 1 \in 1..Len(stream') /\ Len(stream) + 1 \notin 1..Len(stream)
            /\ stream'[Len(stream) + 1] = p
        BY <3>3, <4>1
      <4> QED
        BY <1>3, <3>1, <4>2
    <3>5. CASE rep.err
      BY <2>1, <3>5 DEF SubmitJob, TypeOK
    <3> QED
      BY <3>4, <3>5, XAddReplyFacts
  <2>2. response[j] = "accepted" \/ \E e \in 1..Len(stream) : stream[e].job = j
    <3>1. CASE response'[j] = "accepted"
      BY <2>1, <3>1, JobChanges
    <3>2. ASSUME NEW e \in 1..Len(stream'), stream'[e].job = j
          PROVE  \E f \in 1..Len(stream) : stream[f].job = j
      BY <1>3, <3>2, Grows
    <3> QED
      BY <3>1, <3>2
  <2>3. PICK e \in 1..Len(stream) : stream[e].job = j /\ Unfinished(e)
    BY <1>1, <2>2 DEF LossInv
  <2>4. e \in 1..Len(stream') /\ stream'[e] = stream[e]
    BY Grows
  <2>5. ASSUME NEW r \in Replicas, pc'[r] = "ack", batch'[r].cur = e
        PROVE  FALSE
    <3>1. batch'[r] = batch[r] /\ pc[r] \in Busy
      BY <2>5, Arrivals
    <3>2. batch[r].cur = e /\ e \in 1..cursor /\ JobOf(r) = j
      BY <2>3, <2>5, <3>1, CurrentFacts, BusyEntry
    <3>3. cursor \in Nat
      BY Grows
    <3>4. ~Acking(e)
      BY <2>3, <3>2, <3>3 DEF Unfinished
    <3>5. pc[r] # "ack"
      BY <3>2, <3>4 DEF Acking
    <3>6. ASSUME NEW f \in 1..Len(stream'), f \notin 1..Len(stream),
                 stream'[f] = [job |-> JobOf(r), attempt |-> AttemptOf(r)]
          PROVE  FALSE
      BY <1>3, <3>2, <3>6
    <3> QED
      BY <2>5, <3>2, <3>5, <3>6, AckStarts
  <2>6. ~Acking(e)'
    BY <2>5 DEF Acking
  <2>7. e > cursor' \/ e \in pending'
    <3>1. CASE e > cursor
      <4>1. cursor \in Nat /\ cursor' \in Nat /\ e \in Nat
        BY Grows
      <4>2. CASE XReadGroup
        <5>1. /\ BatchEnd \in Nat /\ cursor' = BatchEnd
              /\ pending' = pending \cup (cursor + 1)..BatchEnd
          BY <4>2, ReadFacts DEF TypeOK
        <5> QED
          BY <3>1, <4>1, <5>1
      <4>3. CASE cursor' = cursor
        BY <3>1, <4>3
      <4> QED
        BY <4>2, <4>3 DEF Next, Step, Failure, SubmitJob, ForeignEnqueue, Enqueue, Start,
           StartUngrouped, XGroupCreate, Stop,
           Read, ReadLost, Handle, PredictSucceeds, PredictFails, Requeue, Publish, DeadLetter,
           Ack, AckLost, XAck, vars, queueVars
    <3>2. CASE e \in pending /\ ~Acking(e)
      <4>1. ASSUME NEW r \in Replicas, Ack(r)
            PROVE  e \in pending'
        BY <3>2, <4>1 DEF Ack, XAck, Acking
      <4>2. CASE \A r \in Replicas : ~Ack(r)
        BY <3>2, <4>2, PendingGrows
      <4> QED
        BY <4>1, <4>2
    <3> QED
      BY <2>3, <3>1, <3>2 DEF Unfinished
  <2> QED
    BY <2>3, <2>4, <2>6, <2>7 DEF Unfinished
<1> QED
  BY <1>2, <1>3

----------------------------------------------------------------------------
(* The ways a replica's place in its batch can move.                       *)
LEMMA HeldMoves ==
    ASSUME TypeOK, BatchInv, [Next]_vars, NEW r \in Replicas
    PROVE  \/ batch'[r] = batch[r] /\ pc'[r] = pc[r]
           \/ batch'[r] = batch[r] /\ pc[r] # "ack" /\ pc'[r] \in Called \cup {"ack"}
           \/ Held(r)' = {}
           \/ /\ Read(r) /\ pc'[r] = "handle"
              /\ Held(r)' = (cursor + 1)..cursor'
           \/ /\ Held(r)' = Held(r) \ {batch[r].cur}
              /\ pc'[r] \in {"handle", "read"}
<1> DEFINE Goal == \/ batch'[r] = batch[r] /\ pc'[r] = pc[r]
                   \/ batch'[r] = batch[r] /\ pc[r] # "ack" /\ pc'[r] \in Called \cup {"ack"}
                   \/ Held(r)' = {}
                   \/ /\ Read(r) /\ pc'[r] = "handle"
                      /\ Held(r)' = (cursor + 1)..cursor'
                   \/ /\ Held(r)' = Held(r) \ {batch[r].cur}
                      /\ pc'[r] \in {"handle", "read"}
<1>1. pc \in [Replicas -> PCs] /\ batch \in [Replicas -> [cur: Nat, last: Nat]]
  BY DEF TypeOK
<1>2. CASE batch'[r] = batch[r] /\ pc'[r] = pc[r]
  BY <1>2
<1>3. ASSUME NEW s \in Replicas, s # r, Step(s) \/ Failure(s)
      PROVE  Goal
  BY <1>2, <1>3, OneMoves DEF Alone
<1>4. ASSUME Start(r) \/ StartUngrouped(r)
      PROVE  Goal
  <2>1. batch' = batch /\ pc[r] = "down"
    BY <1>4 DEF Start, StartUngrouped
  <2>2. batch[r].last < batch[r].cur /\ batch[r].last \in Nat /\ batch[r].cur \in Nat
    BY <1>1, <2>1 DEF BatchInv, BatchOK, Busy
  <2>3. Held(r)' = {}
    BY <2>1, <2>2 DEF Held
  <2> QED
    BY <2>3
<1>5. ASSUME Stop(r)
      PROVE  Goal
  <2>1. batch'[r] = EmptyBatch
    BY <1>1, <1>5 DEF Stop
  <2>2. Held(r)' = {}
    BY <2>1 DEF Held, EmptyBatch
  <2> QED
    BY <2>2
<1>6. ASSUME Read(r)
      PROVE  Goal
  <2>1. /\ pc'[r] = "handle" /\ batch'[r] = [cur |-> cursor + 1, last |-> BatchEnd]
        /\ cursor' = BatchEnd
    BY <1>1, <1>6 DEF Read, XReadGroup, Goto
  <2> QED
    BY <1>6, <2>1 DEF Held
<1>7. ASSUME NextMessage(r)
      PROVE  Goal
  <2>1. /\ batch[r].cur \in Nat /\ batch[r].last \in Nat
        /\ batch'[r].cur = batch[r].cur + 1 /\ batch'[r].last = batch[r].last
        /\ pc'[r] \in {"handle", "read"}
    BY <1>7, NextMessageFacts
  <2>2. Held(r)' = Held(r) \ {batch[r].cur}
    BY <2>1 DEF Held
  <2> QED
    BY <2>1, <2>2
<1>8. ASSUME NEW label \in Called \cup {"ack"}, Goto(r, label), batch' = batch, pc[r] # "ack"
      PROVE  Goal
  BY <1>1, <1>8 DEF Goto
<1>9. ASSUME Handle(r) \/ PredictSucceeds(r) \/ PredictFails(r)
      PROVE  Goal
  BY <1>8, <1>9 DEF Handle, PredictSucceeds, PredictFails, Called
<1>10. ASSUME NEW rep \in XAddReply, Requeue(r, rep) \/ Publish(r, rep) \/ DeadLetter(r, rep)
       PROVE  Goal
  BY <1>7, <1>8, <1>10 DEF Requeue, Publish, DeadLetter, Called
<1>11. ASSUME Step(r) \/ Failure(r)
       PROVE  Goal
  BY <1>2, <1>4, <1>5, <1>6, <1>7, <1>9, <1>10, <1>11 DEF Step, Failure, Ack, AckLost, ReadLost,
     pipelineVars
<1>12. Goal
  BY <1>2, <1>3, <1>11 DEF Next, SubmitJob, ForeignEnqueue, vars, pipelineVars
<1> QED
  BY <1>12

(* A replica claims a delivered entry only if it claimed it before, and    *)
(* once the router was called it stays so.                                 *)
LEMMA ClaimedBefore ==
    ASSUME TypeOK, BatchInv, [Next]_vars, NEW r \in Replicas, NEW e \in 1..cursor, Claimed(r, e)'
    PROVE  Claimed(r, e) /\ (InCall(r, e) => InCall(r, e)')
<1>1. e \in Held(r)' /\ ~(pc'[r] = "ack" /\ e = batch'[r].cur)
  BY DEF Claimed
<1>2. cursor \in Nat /\ cursor' \in Nat
  BY Grows
<1>3. CASE batch'[r] = batch[r] /\ pc'[r] = pc[r]
  BY <1>1, <1>3 DEF Claimed, InCall, Held
<1>4. CASE batch'[r] = batch[r] /\ pc[r] # "ack" /\ pc'[r] \in Called \cup {"ack"}
  BY <1>1, <1>4 DEF Claimed, InCall, Held
<1>5. CASE Held(r)' = (cursor + 1)..cursor'
  BY <1>1, <1>2, <1>5
<1>6. CASE Held(r)' = Held(r) \ {batch[r].cur}
  BY <1>1, <1>6 DEF Claimed, InCall
<1> QED
  BY <1>1, <1>3, <1>4, <1>5, <1>6, HeldMoves

(* An old entry that is still to be worked on was so before the step.      *)
LEMMA WorkingBefore ==
    ASSUME TypeOK, BatchInv, [Next]_vars, NEW e \in 1..Len(stream), Working(e)'
    PROVE  Working(e)
<1>1. cursor \in Nat /\ cursor' \in Nat /\ cursor <= cursor' /\ Len(stream) \in Nat
  BY Grows
<1>2. CASE e > cursor
  BY <1>2 DEF Working
<1>3. CASE e <= cursor
  <2>1. PICK r \in Replicas : Claimed(r, e)'
    BY <1>1, <1>3 DEF Working
  <2> QED
    BY <1>1, <1>3, <2>1, ClaimedBefore DEF Working
<1> QED
  BY <1>1, <1>2, <1>3

(* A replica between reading and acknowledging works on its entry; once it *)
(* has requeued, published or dead-lettered it, nobody does.               *)
LEMMA BusyWorking ==
    ASSUME TypeOK, BatchInv, NEW r \in Replicas, pc[r] \in Busy, pc[r] # "ack"
    PROVE  Claimed(r, batch[r].cur) /\ Working(batch[r].cur)
  BY CurrentFacts DEF Claimed, Working

(* See BusyWorking: the entry is done with.                                *)
LEMMA Finishes ==
    ASSUME TypeOK, BatchInv, ExclusiveEntries, [Next]_vars, NEW r \in Replicas,
           NEW rep \in XAddReply, Requeue(r, rep) \/ Publish(r, rep) \/ DeadLetter(r, rep),
           NEW e, e = batch[r].cur
    PROVE  ~Working(e)'
<1>1. pc[r] \in Busy
  BY DEF Requeue, Publish, DeadLetter, Busy
<1>2. e \in Held(r) /\ e \in 1..cursor /\ cursor \in Nat
  BY <1>1, CurrentFacts, Grows
<1>3. cursor' = cursor
  BY DEF Requeue, Publish, DeadLetter, Enqueue, queueVars
<1>4. ASSUME NEW s \in Replicas, s # r, Claimed(s, e)'
      PROVE  FALSE
  <2>1. e \in Held(s)
    BY <1>2, <1>4, ClaimedBefore DEF Claimed
  <2> QED
    BY <1>2, <1>4, <2>1 DEF ExclusiveEntries
<1>5. ~Claimed(r, e)'
  <2>1. CASE NextMessage(r)
    <3>1. /\ batch[r].cur \in Nat /\ batch[r].last \in Nat
          /\ batch'[r].cur = batch[r].cur + 1 /\ batch'[r].last = batch[r].last
      BY <2>1, NextMessageFacts
    <3> QED
      BY <3>1 DEF Claimed, Held
  <2>2. CASE Goto(r, "ack") /\ batch' = batch
    BY <2>2 DEF Claimed, Goto, TypeOK
  <2> QED
    BY <2>1, <2>2 DEF Requeue, Publish, DeadLetter
<1> QED
  BY <1>2, <1>3, <1>4, <1>5 DEF Working

(* What a step that adds an entry of a job, doubled by nobody, leaves: one *)
(* new entry, no older one to work on, no outcome, and as many router      *)
(* calls as the entry says.                                                *)
LEMMA NewOnce ==
    ASSUME TypeOK, BatchInv, ExclusiveEntries, FreshInv, OnceInv, [Next]_vars,
           NEW j \in Jobs, j \notin doubled',
           NEW e \in 1..Len(stream'), e \notin 1..Len(stream), stream'[e].job = j
    PROVE  /\ Len(stream') = Len(stream) + 1
           /\ \A f \in 1..Len(stream) : stream[f].job = j => ~Working(f)'
           /\ calls'[j] = stream'[e].attempt
           /\ results'[j] = 0 /\ dlq'[j] = 0
<1>1. /\ Len(stream) \in Nat /\ Len(stream') \in Nat /\ j \notin doubled
      /\ Len(stream') # Len(stream)
  BY Grows
<1>2. ASSUME NEW p \in Payload, NEW rep \in XAddReply, Enqueue(p, rep), NoteDoubled(j, rep)
      PROVE  Len(stream') = Len(stream) + 1
  <2>1. Len(stream') = Len(stream) + rep.copies
    BY <1>2, EnqueueFacts DEF TypeOK
  <2>2. rep.copies \in {0, 1, 2} /\ rep.copies # 2
    BY <1>2, XAddReplyFacts DEF NoteDoubled
  <2> QED
    BY <1>1, <2>1, <2>2
<1> DEFINE Goal == /\ Len(stream') = Len(stream) + 1
                   /\ \A f \in 1..Len(stream) : stream[f].job = j => ~Working(f)'
                   /\ calls'[j] = stream'[e].attempt
                   /\ results'[j] = 0 /\ dlq'[j] = 0
<1>3. ASSUME NEW k \in Jobs, NEW rep \in XAddReply, SubmitJob(k, rep),
             stream'[e] = [job |-> k, attempt |-> 0]
      PROVE  Goal
  <2>1. k = j /\ stream'[e].attempt = 0 /\ response[j] = "none"
    BY <1>3 DEF SubmitJob
  <2>2. /\ \A f \in 1..Len(stream) : stream[f].job # j
        /\ calls[j] = 0 /\ results[j] = 0 /\ dlq[j] = 0
    BY <2>1 DEF FreshInv
  <2>3. [job |-> k, attempt |-> 0] \in Payload
    BY DEF Payload
  <2>4. Len(stream') = Len(stream) + 1
    BY <1>2, <1>3, <2>1, <2>3 DEF SubmitJob
  <2>5. calls' = calls /\ results' = results /\ dlq' = dlq
    BY <1>3 DEF SubmitJob
  <2> QED
    BY <2>1, <2>2, <2>4, <2>5
<1>4. stream'[e] # [job |-> Malformed, attempt |-> 0]
  OBVIOUS
<1>5. ASSUME NEW r \in Replicas, NEW rep \in XAddReply, Requeue(r, rep),
             stream'[e] = [job |-> JobOf(r), attempt |-> AttemptOf(r)]
      PROVE  Goal
  <2>1. /\ JobOf(r) = j /\ stream'[e].attempt = AttemptOf(r)
        /\ pc[r] \in Busy /\ pc[r] # "ack" /\ pc[r] \in Called
    BY <1>5 DEF Requeue, Busy, Called
  <2>2. PICK c \in 1..Len(stream) : /\ c = batch[r].cur /\ stream[c].job = j
                                    /\ AttemptOf(r) = stream[c].attempt + 1
    BY <2>1, BusyEntry
  <2>3. Claimed(r, c) /\ Working(c) /\ InCall(r, c)
    BY <2>1, <2>2, BusyWorking DEF InCall
  <2>4. Once(j)
    BY <1>1 DEF OnceInv
  <2>5. /\ results[j] = 0 /\ dlq[j] = 0
        /\ \A f \in 1..Len(stream) : stream[f].job = j /\ Working(f) => f = c
        /\ calls[j] = stream[c].attempt + 1
    BY <2>2, <2>3, <2>4 DEF Once
  <2>6. ~Working(c)'
    BY <1>5, <2>2, Finishes
  <2>7. [job |-> JobOf(r), attempt |-> AttemptOf(r)] \in Payload
    BY <2>1, CurrentFacts DEF Payload
  <2>8. Len(stream') = Len(stream) + 1
    BY <1>2, <1>5, <2>1, <2>7 DEF Requeue
  <2>9. calls' = calls /\ results' = results /\ dlq' = dlq
    BY <1>5 DEF Requeue
  <2>10. \A f \in 1..Len(stream) : stream[f].job = j => ~Working(f)'
    BY <2>5, <2>6, WorkingBefore
  <2> QED
    BY <2>1, <2>2, <2>5, <2>8, <2>9, <2>10
<1>6. Goal
  BY <1>3, <1>4, <1>5, NewEntries
<1> QED
  BY <1>6

(* The router call a step starts for j, doubled by nobody, is the one of   *)
(* j's only entry still to be worked on.                                   *)
LEMMA CallOnce ==
    ASSUME TypeOK, BatchInv, OnceInv, [Next]_vars, NEW j \in Jobs, j \notin doubled,
           calls'[j] # calls[j]
    PROVE  \E r \in Replicas, c \in 1..Len(stream) :
              /\ Handle(r) /\ c = batch[r].cur /\ c \in Held(r) /\ c \in 1..cursor
              /\ stream[c].job = j /\ calls[j] = stream[c].attempt /\ calls'[j] = calls[j] + 1
              /\ \A f \in 1..Len(stream) : stream[f].job = j /\ Working(f) => f = c
<1>1. PICK r \in Replicas : Handle(r) /\ JobOf(r) = j /\ calls'[j] = calls[j] + 1
  BY JobChanges
<1>2. pc[r] = "handle" /\ pc[r] \in Busy /\ pc[r] # "ack" /\ pc[r] \notin Called
  BY <1>1 DEF Handle, Busy, Called
<1>3. PICK c \in 1..Len(stream) : /\ c = batch[r].cur /\ stream[c].job = j
                                  /\ c \in Held(r) /\ c \in 1..cursor
  BY <1>1, <1>2, BusyEntry, CurrentFacts
<1>4. Claimed(r, c) /\ Working(c) /\ ~InCall(r, c)
  BY <1>2, <1>3, BusyWorking DEF InCall
<1>5. Once(j)
  BY DEF OnceInv
<1>6. /\ calls[j] = stream[c].attempt
      /\ \A f \in 1..Len(stream) : stream[f].job = j /\ Working(f) => f = c
  BY <1>3, <1>4, <1>5 DEF Once
<1> QED
  BY <1>1, <1>3, <1>6

(* The result or dead letter a step writes for j, doubled by nobody, is    *)
(* its first, one message, and ends the work on j's only entry.            *)
LEMMA OutcomeOnce ==
    ASSUME TypeOK, BatchInv, ExclusiveEntries, OnceInv, [Next]_vars,
           NEW j \in Jobs, j \notin doubled', results'[j] # results[j] \/ dlq'[j] # dlq[j]
    PROVE  /\ results'[j] + dlq'[j] <= 1
           /\ \A f \in 1..Len(stream) : stream[f].job = j => ~Working(f)'
<1>1. j \notin doubled
  BY Grows
<1>2. ASSUME NEW r \in Replicas, NEW rep \in XAddReply, Publish(r, rep) \/ DeadLetter(r, rep),
             JobOf(r) = j
      PROVE  /\ results[j] = 0 /\ dlq[j] = 0 /\ rep.copies <= 1 /\ rep.copies \in {0, 1, 2}
             /\ \A f \in 1..Len(stream) : stream[f].job = j => ~Working(f)'
  <2>1. pc[r] \in Busy /\ pc[r] # "ack"
    BY <1>2 DEF Publish, DeadLetter, Busy
  <2>2. PICK c \in 1..Len(stream) : c = batch[r].cur /\ stream[c].job = j
    BY <1>2, <2>1, BusyEntry
  <2>3. Working(c)
    BY <2>1, <2>2, BusyWorking
  <2>4. Once(j)
    BY <1>1 DEF OnceInv
  <2>5. /\ results[j] = 0 /\ dlq[j] = 0
        /\ \A f \in 1..Len(stream) : stream[f].job = j /\ Working(f) => f = c
    BY <2>2, <2>3, <2>4 DEF Once
  <2>6. ~Working(c)'
    BY <1>2, <2>2, Finishes
  <2>7. \A f \in 1..Len(stream) : stream[f].job = j => ~Working(f)'
    BY <2>5, <2>6, WorkingBefore
  <2>8. rep.copies # 2
    BY <1>2 DEF Publish, DeadLetter, NoteDoubled
  <2>9. rep.copies \in {0, 1, 2}
    BY XAddReplyFacts
  <2> QED
    BY <2>5, <2>7, <2>8, <2>9
<1>3. CASE results'[j] # results[j]
  <2>1. PICK r \in Replicas, rep \in XAddReply :
           Publish(r, rep) /\ JobOf(r) = j /\ results'[j] = results[j] + rep.copies
    BY <1>3, JobChanges
  <2>2. dlq' = dlq
    BY <2>1 DEF Publish
  <2> QED
    BY <1>2, <2>1, <2>2
<1>4. CASE dlq'[j] # dlq[j]
  <2>1. PICK r \in Replicas, rep \in XAddReply :
           DeadLetter(r, rep) /\ JobOf(r) = j /\ dlq'[j] = dlq[j] + rep.copies
    BY <1>4, JobChanges
  <2>2. results' = results
    BY <2>1 DEF DeadLetter
  <2> QED
    BY <1>2, <2>1, <2>2
<1> QED
  BY <1>3, <1>4

(* A job is worked on once, and ends once.                                 *)
LEMMA OnceStep ==
    ASSUME TypeOK, BatchInv, BatchInv', ExclusiveEntries, AttemptInv, FreshInv, OnceInv,
           [Next]_vars
    PROVE  OnceInv'
<1> SUFFICES ASSUME NEW j \in Jobs, j \notin doubled'
             PROVE  Once(j)'
  BY DEF OnceInv
<1>1. j \notin doubled /\ Once(j)
  BY Grows DEF OnceInv
<1>2. /\ Len(stream) \in Nat /\ Len(stream') \in Nat /\ cursor \in Nat /\ cursor' \in Nat
      /\ cursor <= cursor' /\ cursor <= Len(stream)
      /\ calls[j] \in Nat /\ results[j] \in Nat /\ dlq[j] \in Nat
      /\ \A e \in 1..Len(stream) : e \in 1..Len(stream') /\ stream'[e] = stream[e]
  BY Grows
<1>3. results'[j] + dlq'[j] <= 1
  <2>1. CASE results'[j] = results[j] /\ dlq'[j] = dlq[j]
    BY <1>1, <2>1 DEF Once
  <2> QED
    BY <2>1, OutcomeOnce
<1>4. calls'[j] <= MaxAttempts
  <2>1. CASE calls'[j] = calls[j]
    BY <1>1, <2>1 DEF Once
  <2>2. CASE calls'[j] # calls[j]
    <3>1. PICK c \in 1..Len(stream) : calls[j] = stream[c].attempt /\ calls'[j] = calls[j] + 1
      BY <1>1, <2>2, CallOnce
    <3>2. stream[c].attempt < MaxAttempts
      BY DEF AttemptInv
    <3> QED
      BY <1>2, <3>1, <3>2
  <2> QED
    BY <2>1, <2>2
<1>5. ASSUME NEW e \in 1..Len(stream'), stream'[e].job = j, Working(e)'
      PROVE  /\ results'[j] = 0 /\ dlq'[j] = 0
             /\ \A f \in 1..Len(stream') : stream'[f].job = j /\ Working(f)' => f = e
  <2>1. CASE \E f \in 1..Len(stream') : f \notin 1..Len(stream) /\ stream'[f].job = j
    <3>1. /\ Len(stream') = Len(stream) + 1
          /\ \A f \in 1..Len(stream) : stream[f].job = j => ~Working(f)'
          /\ results'[j] = 0 /\ dlq'[j] = 0
      BY <2>1, NewOnce
    <3>2. ASSUME NEW f \in 1..Len(stream'), stream'[f].job = j, Working(f)'
          PROVE  f = Len(stream) + 1
      BY <1>2, <3>1, <3>2
    <3> QED
      BY <1>5, <3>1, <3>2
  <2>2. CASE \A f \in 1..Len(stream') : stream'[f].job = j => f \in 1..Len(stream)
    <3>1. ASSUME NEW f \in 1..Len(stream'), stream'[f].job = j, Working(f)'
          PROVE  f \in 1..Len(stream) /\ stream[f].job = j /\ Working(f)
      BY <1>2, <2>2, <3>1, WorkingBefore
    <3>2. /\ results[j] = 0 /\ dlq[j] = 0
          /\ \A f \in 1..Len(stream) : stream[f].job = j /\ Working(f) => f = e
      BY <1>1, <1>5, <3>1 DEF Once
    <3>3. results'[j] = results[j] /\ dlq'[j] = dlq[j]
      BY <1>5, <3>1, OutcomeOnce
    <3> QED
      BY <3>1, <3>2, <3>3
  <2> QED
    BY <2>1, <2>2
<1>6. ASSUME NEW e \in 1..Len(stream'), stream'[e].job = j, e > cursor'
      PROVE  calls'[j] = stream'[e].attempt
  <2>1. CASE e \in 1..Len(stream)
    <3>1. e > cursor /\ stream'[e] = stream[e]
      BY <1>2, <1>6, <2>1
    <3>2. calls[j] = stream[e].attempt /\ Working(e)
      BY <1>1, <1>6, <2>1, <3>1 DEF Once, Working
    <3>3. calls'[j] = calls[j]
      <4>1. SUFFICES ASSUME calls'[j] # calls[j] PROVE FALSE
        OBVIOUS
      <4>2. PICK c \in 1..Len(stream) : /\ c \in 1..cursor
                /\ \A f \in 1..Len(stream) : stream[f].job = j /\ Working(f) => f = c
        BY <1>1, <4>1, CallOnce
      <4> QED
        BY <1>2, <1>6, <2>1, <3>1, <3>2, <4>2
    <3> QED
      BY <3>1, <3>2, <3>3
  <2>2. CASE e \notin 1..Len(stream)
    BY <1>6, <2>2, NewOnce
  <2> QED
    BY <2>1, <2>2
<1>7. ASSUME NEW r \in Replicas, NEW e \in 1..Len(stream'), stream'[e].job = j, Claimed(r, e)'
      PROVE  calls'[j] = IF InCall(r, e)' THEN stream'[e].attempt + 1 ELSE stream'[e].attempt
  <2>1. e \in Held(r)' /\ e <= cursor'
    <3>1. e \in Held(r)'
      BY <1>7 DEF Claimed
    <3>2. BatchOK(r)' /\ (pending \subseteq 1..cursor)'
      BY TypeStep DEF BatchInv, TypeOK, QueueTypeOK
    <3> QED
      BY <3>1, <3>2, <1>2 DEF BatchOK
  <2>2. e \in 1..Len(stream)
    BY <1>2, <2>1, NewEntries
  <2>3. stream'[e] = stream[e] /\ stream[e].job = j
    BY <1>2, <1>7, <2>2
  <2>4. CASE e > cursor
    <3>1. Read(r) /\ pc'[r] = "handle"
      <4>1. Held(r) \subseteq 1..cursor
        BY DEF BatchInv, BatchOK, TypeOK, QueueTypeOK
      <4>2. e \notin Held(r)
        BY <1>2, <2>4, <4>1
      <4> QED
        BY <2>1, <4>2, HeldMoves DEF Held
    <3>2. calls' = calls /\ ~InCall(r, e)'
      BY <3>1 DEF Read, InCall, Called
    <3>3. calls[j] = stream[e].attempt
      BY <1>1, <2>2, <2>3, <2>4 DEF Once
    <3> QED
      BY <2>3, <3>2, <3>3
  <2>5. CASE e <= cursor
    <3>1. Claimed(r, e) /\ (InCall(r, e) => InCall(r, e)')
      BY <1>2, <1>7, <2>2, <2>5, ClaimedBefore
    <3>2. calls[j] = IF InCall(r, e) THEN stream[e].attempt + 1 ELSE stream[e].attempt
      BY <1>1, <2>2, <2>3, <3>1 DEF Once
    <3>3. CASE calls'[j] # calls[j]
      <4>1. PICK q \in Replicas, c \in 1..Len(stream) :
               /\ Handle(q) /\ c = batch[q].cur /\ c \in Held(q)
               /\ stream[c].job = j /\ calls[j] = stream[c].attempt /\ calls'[j] = calls[j] + 1
               /\ \A f \in 1..Len(stream) : stream[f].job = j /\ Working(f) => f = c
        BY <1>1, <3>3, CallOnce
      <4>2. e = c
        BY <2>2, <2>3, <3>1, <4>1 DEF Working
      <4>3. q = r
        BY <3>1, <4>1, <4>2 DEF ExclusiveEntries, Claimed
      <4>4. JobOf(r) = j /\ batch' = batch /\ pc'[r] = "calling"
        <5>1. JobOf(r) = j
          BY <4>1, <4>3 DEF JobOf, Current
        <5> QED
          BY <4>1, <4>3, <5>1 DEF Handle, Goto, TypeOK
      <4>5. InCall(r, e)'
        BY <4>1, <4>2, <4>3, <4>4 DEF InCall, Called
      <4> QED
        BY <2>3, <4>1, <4>2, <4>5
    <3>4. CASE calls'[j] = calls[j]
      <4>1. ASSUME InCall(r, e)'
            PROVE  InCall(r, e)
        <5>1. pc'[r] \in Called /\ e = batch'[r].cur
          BY <4>1 DEF InCall
        <5>2. e = batch[r].cur /\ pc[r] \in Busy
          BY <5>1, Arrivals
        <5>3. JobOf(r) = j
          BY <2>3, <5>2, BusyEntry
        <5>4. calls' # [calls EXCEPT ![JobOf(r)] = @ + 1]
          BY <1>2, <3>4, <5>3 DEF TypeOK
        <5>5. pc[r] \in Called
          BY <5>1, <5>4, Arrivals DEF PredictSucceeds, PredictFails, Called
        <5> QED
          BY <5>2, <5>5 DEF InCall
      <4> QED
        BY <2>3, <3>1, <3>2, <3>4, <4>1
    <3> QED
      BY <3>3, <3>4
  <2> QED
    BY <1>2, <2>2, <2>4, <2>5
<1> QED
  BY <1>3, <1>4, <1>5, <1>6, <1>7 DEF Once

----------------------------------------------------------------------------
(* The inductive invariant holds in the initial states ...                 *)
LEMMA InitIInv == Init => IInv
<1> SUFFICES ASSUME Init
             PROVE  IInv
  OBVIOUS
<1>1. stream = <<>> /\ cursor = 0 /\ pending = {} /\ Len(stream) = 0 /\ group = FALSE
  BY DEF Init, QueueInit
<1>2. TypeOK
  <2>1. group \in BOOLEAN
    BY <1>1
  <2>2. stream \in Seq(Payload) /\ cursor \in 0..Len(stream) /\ pending \subseteq 1..cursor
    BY <1>1
  <2>3. QueueTypeOK
    BY <2>1, <2>2 DEF QueueTypeOK
  <2> QED
    BY <2>3 DEF Init, TypeOK, PCs, EmptyBatch
<1>3. \A r \in Replicas : pc[r] = "down" /\ batch[r] = EmptyBatch
  BY DEF Init
<1>4. \A r \in Replicas : Held(r) = {}
  BY <1>3 DEF Held, EmptyBatch
<1>5. BatchInv
  BY <1>3, <1>4 DEF BatchInv, BatchOK, Busy, Called, EmptyBatch
<1>6. ExclusiveEntries
  BY <1>4 DEF ExclusiveEntries
<1>7. /\ \A j \in Jobs : calls[j] = 0 /\ results[j] = 0 /\ dlq[j] = 0 /\ response[j] = "none"
      /\ 1..Len(stream) = {}
  BY <1>1 DEF Init
<1>8. AttemptInv
  BY <1>3, <1>7 DEF AttemptInv, DeadLetterOnlyExhausted, Called
<1>9. FreshInv
  BY <1>7 DEF FreshInv
<1>10. AckInv
  BY <1>3 DEF AckInv
<1>11. LossInv
  BY <1>7 DEF LossInv
<1>12. OnceInv
  <2> SUFFICES ASSUME NEW j \in Jobs
               PROVE  Once(j)
    BY DEF OnceInv
  <2>1. results[j] + dlq[j] <= 1 /\ calls[j] <= MaxAttempts
    BY <1>7
  <2> QED
    BY <1>7, <2>1 DEF Once
<1> QED
  BY <1>2, <1>5, <1>6, <1>8, <1>9, <1>10, <1>11, <1>12 DEF IInv

(* ... and every step keeps it.                                            *)
LEMMA NextIInv == IInv /\ [Next]_vars => IInv'
<1> SUFFICES ASSUME IInv, [Next]_vars
             PROVE  IInv'
  OBVIOUS
<1>1. /\ TypeOK /\ BatchInv /\ ExclusiveEntries /\ AttemptInv /\ FreshInv /\ AckInv /\ LossInv
      /\ OnceInv
  BY DEF IInv
<1>2. TypeOK'
  BY <1>1, TypeStep
<1>3. BatchInv'
  BY <1>1, BatchStep
<1>4. ExclusiveEntries'
  BY <1>1, ExclusiveStep
<1>5. AttemptInv'
  BY <1>1, AttemptStep
<1>6. FreshInv'
  BY <1>1, FreshStep
<1>7. AckInv'
  BY <1>1, AckStep
<1>8. LossInv'
  BY <1>1, LossStep
<1>9. OnceInv'
  BY <1>1, <1>3, OnceStep
<1> QED
  BY <1>2, <1>3, <1>4, <1>5, <1>6, <1>7, <1>8, <1>9 DEF IInv

(* The inductive invariant holds in every reachable state.                 *)
THEOREM Invariance == Spec => []IInv
  BY InitIInv, NextIInv, PTL DEF Spec

(* The variables stay in their types.                                      *)
THEOREM TypeCorrect == Spec => []TypeOK
<1>1. IInv => TypeOK
  BY DEF IInv
<1> QED
  BY <1>1, Invariance, PTL

(* No entry is ever in the batches of two scheduler replicas, although     *)
(* all of them read the group under one consumer name.                     *)
THEOREM EntriesAreExclusive == Spec => []ExclusiveEntries
<1>1. IInv => ExclusiveEntries
  BY DEF IInv
<1> QED
  BY <1>1, Invariance, PTL

(* A job the gateway answered 202 for is never lost silently, whichever    *)
(* replicas stop and whichever Redis commands fail, however often.         *)
THEOREM NoJobIsLost == Spec => []NoSilentLoss
<1>1. IInv => NoSilentLoss
  <2> SUFFICES ASSUME IInv, NEW j \in Jobs, response[j] = "accepted", ~Settled(j)
               PROVE  \E e \in EntriesOf(j) : e > cursor \/ e \in pending
    BY DEF NoSilentLoss
  <2>1. PICK e \in 1..Len(stream) : stream[e].job = j /\ Unfinished(e)
    BY DEF IInv, LossInv
  <2> QED
    BY <2>1 DEF Unfinished, EntriesOf
<1> QED
  BY <1>1, Invariance, PTL

(* The router is called at most MaxAttempts times for a job none of whose  *)
(* XADDs was executed twice, over all replicas, restarts and failures.     *)
THEOREM AttemptsAreBounded == Spec => []AttemptBudget
<1>1. IInv => AttemptBudget
  BY DEF IInv, OnceInv, Once, AttemptBudget
<1> QED
  BY <1>1, Invariance, PTL

(* Such a job gets at most one message over the results and the            *)
(* dead-letter topic, and none while an entry of it is still unread.       *)
THEOREM OutcomeIsSingle == Spec => []SingleOutcome
<1>1. IInv => SingleOutcome
  <2> SUFFICES ASSUME IInv, NEW j \in Jobs, j \notin doubled
               PROVE  /\ results[j] + dlq[j] <= 1
                      /\ results[j] + dlq[j] = 1 => \A e \in EntriesOf(j) : e <= cursor
    BY DEF SingleOutcome
  <2>1. Once(j)
    BY DEF IInv, OnceInv
  <2>2. ASSUME NEW e \in EntriesOf(j), results[j] + dlq[j] = 1
        PROVE  e <= cursor
    <3>1. e \in 1..Len(stream) /\ stream[e].job = j
      BY DEF EntriesOf
    <3>2. cursor \in Nat /\ Len(stream) \in Nat
      BY DEF IInv, TypeOK, QueueTypeOK
    <3>3. ~Working(e)
      BY <2>1, <2>2, <3>1 DEF Once
    <3> QED
      BY <3>1, <3>2, <3>3 DEF Working
  <2> QED
    BY <2>1, <2>2 DEF Once
<1> QED
  BY <1>1, Invariance, PTL

(* A dead letter is only written after MaxAttempts router calls.           *)
THEOREM DeadLettersAreExhausted == Spec => []DeadLetterOnlyExhausted
<1>1. IInv => DeadLetterOnlyExhausted
  BY DEF IInv, AttemptInv
<1> QED
  BY <1>1, Invariance, PTL

(* XACK never runs ahead of the record: an entry leaves the pending list   *)
(* only when its payload was malformed, its job is settled, or the job's   *)
(* next attempt is on the stream.                                          *)
THEOREM AcksFollowOutcomes == Spec => AckAfterOutcome
<1>1. IInv /\ [Next]_vars => AcksRecorded
  <2> SUFFICES ASSUME IInv, [Next]_vars, NEW e \in pending \ pending'
               PROVE  Recorded(e)
    BY DEF AcksRecorded
  <2>1. PICK r \in Replicas : Ack(r)
    BY PendingGrows DEF IInv
  <2>2. e = batch[r].cur /\ pc[r] = "ack"
    BY <2>1 DEF Ack, XAck
  <2> QED
    BY <2>2 DEF IInv, AckInv
<1>2. IInv /\ [Next]_vars => [AcksRecorded]_vars
  BY <1>1
<1> QED
  BY <1>2, Invariance, PTL DEF Spec, AckAfterOutcome
=============================================================================
