---------------------------- MODULE MemoryProofs ----------------------------
(***************************************************************************)
(* Proofs about MemoryPipeline for every set of jobs and consumers, every  *)
(* capacity and every number of attempts.                                  *)
(***************************************************************************)
EXTENDS MemoryPipeline, SequenceTheorems, FiniteSetTheorems, TLAPS

Has(s, x) == \E i \in 1..Len(s) : s[i] = x
Distinct(s) == \A i, k \in 1..Len(s) : s[i] = s[k] => i = k

(* The jobs in the channel, by their names.                                *)
Queued == [i \in 1..Len(jobs) |-> jobs[i].job]

Held(j) == \E c \in Consumers : consumer[c].job = j

(* A consumer has a job from Receive to the end of its handler, and        *)
(* enqueues it again only while it has attempts left.                      *)
HandInv ==
    /\ \A c \in Consumers :
          /\ consumer[c].job \in Jobs <=> consumer[c].pc \in {"handle", "requeue", "publish"}
          /\ consumer[c].pc = "requeue" => consumer[c].attempt < MaxAttempts
    /\ \A i \in 1..Len(jobs) : jobs[i].attempt < MaxAttempts

(* No place has a job twice.                                               *)
OnceInv ==
    /\ Distinct(Queued) /\ Distinct(results) /\ Distinct(dlq)
    /\ \A c, d \in Consumers : consumer[c].job \in Jobs /\ consumer[c].job = consumer[d].job => c = d

(* A job that was accepted is in one place; no other job is in any.        *)
PlaceInv ==
    \A j \in Jobs :
        /\ Has(Queued, j) \/ Held(j) \/ Has(results, j) \/ Has(dlq, j) \/ j \in logged
              <=> j \in Accepted
        /\ Has(Queued, j) => ~Held(j) /\ ~Has(results, j) /\ ~Has(dlq, j) /\ j \notin logged
        /\ Held(j) => ~Has(results, j) /\ ~Has(dlq, j) /\ j \notin logged
        /\ Has(results, j) => ~Has(dlq, j) /\ j \notin logged
        /\ Has(dlq, j) => j \notin logged

IInv == TypeOK /\ HandInv /\ OnceInv /\ PlaceInv /\ IsFiniteSet(Accepted)

----------------------------------------------------------------------------
(* What a send adds to a channel.                                          *)
LEMMA Appended ==
    ASSUME NEW S, NEW s \in Seq(S), NEW e \in S
    PROVE  /\ \A x : Has(Append(s, e), x) <=> Has(s, x) \/ x = e
           /\ Distinct(s) /\ ~Has(s, e) => Distinct(Append(s, e))
<1> DEFINE t == Append(s, e)
           n == Len(s)
<1>1. /\ n \in Nat /\ Len(t) = n + 1
      /\ \A i \in 1..n : t[i] = s[i]
      /\ t[n + 1] = e
  BY AppendProperties, LenProperties
<1> HIDE DEF t
<1>2. \A x : Has(t, x) <=> Has(s, x) \/ x = e
  <2> SUFFICES ASSUME NEW x PROVE Has(t, x) <=> Has(s, x) \/ x = e
    OBVIOUS
  <2>1. ASSUME NEW i \in 1..Len(t), t[i] = x
        PROVE  Has(s, x) \/ x = e
    BY <1>1, <2>1 DEF Has
  <2>2. ASSUME NEW i \in 1..n, s[i] = x
        PROVE  i \in 1..Len(t) /\ t[i] = x
    BY <1>1, <2>2
  <2>3. x = e => n + 1 \in 1..Len(t) /\ t[n + 1] = x
    BY <1>1
  <2> QED
    BY <2>1, <2>2, <2>3 DEF Has
<1>3. Distinct(s) /\ ~Has(s, e) => Distinct(t)
  BY <1>1 DEF Distinct, Has
<1> QED
  BY <1>2, <1>3 DEF t

(* What a receive takes from a channel.                                    *)
LEMMA Received ==
    ASSUME NEW S, NEW s \in Seq(S), s # <<>>, Distinct(s)
    PROVE  /\ Has(s, Head(s)) /\ ~Has(Tail(s), Head(s))
           /\ \A x : x # Head(s) => (Has(Tail(s), x) <=> Has(s, x))
           /\ Distinct(Tail(s))
<1> DEFINE t == Tail(s)
           n == Len(s)
<1>1. /\ n \in Nat /\ n > 0 /\ Len(t) = n - 1
      /\ \A i \in 1..(n - 1) : t[i] = s[i + 1]
      /\ Head(s) = s[1]
  BY EmptySeq, HeadTailProperties
<1> HIDE DEF t
<1>2. Has(s, Head(s))
  BY <1>1 DEF Has
<1>3. ASSUME NEW i \in 1..Len(t)
      PROVE  i + 1 \in 1..n /\ t[i] = s[i + 1] /\ t[i] # s[1]
  BY <1>1 DEF Distinct
<1>4. ASSUME NEW x, NEW i \in 1..n, s[i] = x, x # Head(s)
      PROVE  Has(t, x)
  <2>1. i - 1 \in 1..Len(t) /\ t[i - 1] = x
    BY <1>1, <1>4
  <2> QED
    BY <2>1 DEF Has
<1>5. Distinct(t)
  BY <1>1, <1>3 DEF Distinct
<1> QED
  BY <1>1, <1>2, <1>3, <1>4, <1>5 DEF Has, t

(* The channel, seen as a sequence of jobs.                                *)
LEMMA QueuedFacts ==
    ASSUME TypeOK
    PROVE  /\ Queued \in Seq(Jobs) /\ Len(Queued) = Len(jobs) /\ Len(jobs) \in Nat
           /\ jobs' = jobs => Queued' = Queued
           /\ \A m \in Messages : jobs' = Append(jobs, m) => Queued' = Append(Queued, m.job)
           /\ jobs # <<>> => /\ Queued # <<>> /\ Head(Queued) = Head(jobs).job
                             /\ jobs' = Tail(jobs) => Queued' = Tail(Queued)
                             /\ Head(jobs) = jobs[1] /\ 1 \in 1..Len(jobs)
<1>1. jobs \in Seq(Messages) /\ Len(jobs) \in Nat
  BY DEF TypeOK
<1>2. \A i \in 1..Len(jobs) : jobs[i] \in Messages
  BY <1>1, ElementOfSeq
<1>3. Queued \in Seq(Jobs) /\ Len(Queued) = Len(jobs)
  BY <1>1, <1>2 DEF Queued, Messages
<1>4. ASSUME NEW m \in Messages, jobs' = Append(jobs, m)
      PROVE  Queued' = Append(Queued, m.job)
  <2>1. /\ Len(jobs') = Len(jobs) + 1
        /\ \A i \in 1..Len(jobs) : jobs'[i] = jobs[i]
        /\ jobs'[Len(jobs) + 1] = m
    BY <1>1, <1>4, AppendProperties
  <2>2. Append(Queued, m.job) = [i \in 1..Len(jobs) + 1 |->
                                   IF i = Len(jobs) + 1 THEN m.job ELSE Queued[i]]
    BY <1>3, AppendProperties, AppendIsConcat
  <2> QED
    BY <1>1, <2>1, <2>2 DEF Queued
<1>5. ASSUME jobs # <<>>
      PROVE  /\ Queued # <<>> /\ Head(Queued) = Head(jobs).job
             /\ jobs' = Tail(jobs) => Queued' = Tail(Queued)
             /\ Head(jobs) = jobs[1] /\ 1 \in 1..Len(jobs)
  <2>1. Len(jobs) > 0
    BY <1>1, <1>5, EmptySeq
  <2>2. Queued # <<>>
    BY <1>3, <2>1, EmptySeq
  <2>3. Head(Queued) = Queued[1] /\ Head(jobs) = jobs[1]
    BY <1>1, <1>3, <1>5, <2>2, HeadTailProperties
  <2>4. Len(Tail(jobs)) = Len(jobs) - 1 /\ \A i \in 1..Len(jobs) - 1 : Tail(jobs)[i] = jobs[i + 1]
    BY <1>1, <1>5, HeadTailProperties
  <2>5. /\ Tail(Queued) \in [1..Len(jobs) - 1 -> Jobs]
        /\ \A i \in 1..Len(jobs) - 1 : Tail(Queued)[i] = Queued[i + 1]
    BY <1>3, <2>2, HeadTailProperties, LenProperties
  <2>6. \A i \in 1..Len(jobs) - 1 : Queued[i + 1] = jobs[i + 1].job
    BY <1>1 DEF Queued
  <2>7. jobs' = Tail(jobs) => Queued' = Tail(Queued)
    <3> SUFFICES ASSUME jobs' = Tail(jobs) PROVE Queued' = Tail(Queued)
      OBVIOUS
    <3>1. Queued' = [i \in 1..Len(jobs) - 1 |-> Tail(jobs)[i].job]
      BY <2>4 DEF Queued
    <3> QED
      BY <2>4, <2>5, <2>6, <3>1
  <2> QED
    BY <2>1, <2>2, <2>3, <2>7, <1>1 DEF Queued
<1> QED
  BY <1>1, <1>3, <1>4, <1>5 DEF Queued

----------------------------------------------------------------------------
(* A consumer goes on with its job.                                        *)
LEMMA Moved ==
    ASSUME TypeOK, NEW c \in Consumers, NEW label, Move(c, label)
    PROVE  /\ consumer'[c].pc = label /\ consumer'[c].attempt = consumer[c].attempt
           /\ \A d \in Consumers : /\ consumer'[d].job = consumer[d].job
                                   /\ d # c => consumer'[d] = consumer[d]
BY DEF TypeOK, Move

(* A consumer takes a job nobody has.                                      *)
LEMMA Taken ==
    ASSUME TypeOK, OnceInv, NEW c \in Consumers, consumer[c].job \notin Jobs, NEW j0 \in Jobs,
           ~Held(j0), NEW n, consumer' = [consumer EXCEPT ![c] = [pc |-> "handle", job |-> j0, attempt |-> n]]
    PROVE  /\ \A j \in Jobs : Held(j)' <=> Held(j) \/ j = j0
           /\ \A d, e \in Consumers : consumer'[d].job \in Jobs /\ consumer'[d].job = consumer'[e].job => d = e
<1>1. /\ consumer'[c].job = j0
      /\ \A d \in Consumers \ {c} : consumer'[d].job = consumer[d].job
  BY DEF TypeOK
<1>2. \A d \in Consumers : consumer[d].job # j0
  BY DEF Held
<1> QED
  BY <1>1, <1>2 DEF Held, OnceInv

(* A consumer lets go of the job it has.                                   *)
LEMMA Released ==
    ASSUME TypeOK, OnceInv, NEW c \in Consumers, consumer[c].job \in Jobs, Loop(c)
    PROVE  /\ Held(consumer[c].job)
           /\ \A j \in Jobs : Held(j)' <=> Held(j) /\ j # consumer[c].job
           /\ \A d, e \in Consumers : consumer'[d].job \in Jobs /\ consumer'[d].job = consumer'[e].job => d = e
<1>1. /\ consumer'[c].job \notin Jobs
      /\ \A d \in Consumers \ {c} : consumer'[d].job = consumer[d].job
  BY MemoryAssumption DEF TypeOK, Loop, Receiving
<1> QED
  BY <1>1 DEF Held, OnceInv

Labels == {"receive", "handle", "requeue", "publish", "returned"}
Hand == [pc: Labels, job: Jobs \cup {NoJob}, attempt: 0..MaxAttempts]

(* A consumer that only changes its place keeps its type.                  *)
LEMMA MovedHand ==
    ASSUME NEW r \in Hand, NEW label \in Labels
    PROVE  [r EXCEPT !.pc = label] \in Hand
BY DEF Hand

(* So do all consumers when one of them moves.                             *)
LEMMA MovedType ==
    ASSUME TypeOK, NEW c \in Consumers, NEW label \in Labels, Move(c, label)
    PROVE  consumer' \in [Consumers -> Hand]
<1>1. consumer \in [Consumers -> Hand]
  BY DEF TypeOK, Hand, Labels
<1>2. consumer' = [consumer EXCEPT ![c] = [consumer[c] EXCEPT !.pc = label]]
  BY DEF Move
<1>3. [consumer[c] EXCEPT !.pc = label] \in Hand
  BY <1>1, MovedHand
<1> HIDE DEF TypeOK
<1> QED
  BY <1>1, <1>2, <1>3

(* Types: one step per action.                                             *)
LEMMA TypeStep ==
    ASSUME TypeOK, HandInv, [Next]_vars
    PROVE  TypeOK'
<1> USE MemoryAssumption DEF TypeOK, Hand, Labels
<1>1. Receiving \in Hand
  BY DEF Receiving
<1>2. ASSUME NEW j \in Jobs, Enqueue(j) \/ GiveUp(j)
      PROVE  TypeOK'
  BY <1>2 DEF Enqueue, GiveUp
<1>3. ASSUME NEW m \in Messages, HasRoom(jobs), jobs' = Append(jobs, m)
      PROVE  jobs' \in Seq(Messages) /\ Len(jobs') <= Capacity
  BY <1>3, AppendProperties, LenProperties DEF HasRoom
<1>4. ASSUME NEW j \in Jobs, Send(j)
      PROVE  TypeOK'
  <2>1. [job |-> j, attempt |-> 0] \in Messages
    BY DEF Messages
  <2> QED
    BY <1>3, <1>4, <2>1 DEF Send
<1>5. ASSUME NEW c \in Consumers, Receive(c)
      PROVE  TypeOK'
  <2>1. Head(jobs) \in Messages /\ Head(jobs).attempt < MaxAttempts
    BY <1>5, QueuedFacts, HeadTailProperties DEF Receive, HandInv
  <2>2. [pc |-> "handle", job |-> Head(jobs).job, attempt |-> Head(jobs).attempt + 1] \in Hand
    BY <2>1 DEF Messages
  <2>3. jobs' \in Seq(Messages) /\ Len(jobs') <= Capacity
    BY <1>5, HeadTailProperties, LenProperties DEF Receive
  <2> QED
    BY <1>5, <2>2, <2>3 DEF Receive
<1>6. ASSUME NEW c \in Consumers, Return(c) \/ RouterAnswers(c)
      PROVE  TypeOK'
  <2>1. consumer' \in [Consumers -> Hand]
    <3> HIDE DEF TypeOK, Hand
    <3> QED
      BY <1>6, MovedType DEF Return, RouterAnswers
  <2> QED
    BY <1>6, <2>1 DEF Return, RouterAnswers
<1>7. ASSUME NEW c \in Consumers, consumer[c].pc \in {"handle", "requeue", "publish"}
      PROVE  consumer[c].job \in Jobs
  BY <1>7 DEF HandInv
<1>8. ASSUME NEW c \in Consumers, RouterFails(c)
      PROVE  TypeOK'
  <2>1. CASE consumer[c].attempt >= MaxAttempts
    <3>1. dlq' = Append(dlq, consumer[c].job) /\ Loop(c)
      BY <1>8, <2>1 DEF RouterFails
    <3>2. dlq' \in Seq(Jobs)
      BY <1>7, <1>8, <3>1, AppendProperties DEF RouterFails
    <3>3. consumer' \in [Consumers -> Hand]
      BY <1>1, <3>1 DEF Loop
    <3> QED
      BY <1>8, <3>2, <3>3 DEF RouterFails
  <2>2. CASE ~(consumer[c].attempt >= MaxAttempts)
    <3>1. dlq' = dlq /\ Move(c, "requeue")
      BY <1>8, <2>2 DEF RouterFails
    <3>2. consumer' \in [Consumers -> Hand]
      <4> HIDE DEF TypeOK, Hand
      <4> QED
        BY <3>1, MovedType
    <3> QED
      BY <1>8, <3>1, <3>2 DEF RouterFails
  <2> QED
    BY <2>1, <2>2
<1>9. ASSUME NEW c \in Consumers, Requeue(c)
      PROVE  TypeOK'
  <2>1. [job |-> consumer[c].job, attempt |-> consumer[c].attempt] \in Messages
    BY <1>7, <1>9 DEF Requeue, Messages
  <2> QED
    BY <1>1, <1>3, <1>9, <2>1 DEF Requeue, Loop
<1>10. ASSUME NEW c \in Consumers, Publish(c)
       PROVE  TypeOK'
  <2>1. results' \in Seq(Jobs) /\ Len(results') <= Capacity
    BY <1>7, <1>10, AppendProperties, LenProperties DEF Publish, HasRoom
  <2> QED
    BY <1>1, <1>10, <2>1 DEF Publish, Loop
<1>11. ASSUME NEW c \in Consumers, Abandon(c)
       PROVE  TypeOK'
  BY <1>1, <1>7, <1>11 DEF Abandon, Loop
<1>12. CASE Cancel \/ UNCHANGED vars
  BY <1>12 DEF Cancel, vars
<1> QED
  BY <1>2, <1>4, <1>5, <1>6, <1>8, <1>9, <1>10, <1>11, <1>12 DEF Next, Step

(* Hands and attempts: one step per action.                                *)
LEMMA HandStep ==
    ASSUME TypeOK, HandInv, [Next]_vars
    PROVE  HandInv'
<1> DEFINE AttemptsLeft == \A i \in 1..Len(jobs) : jobs[i].attempt < MaxAttempts
           HandOK(c) == /\ consumer[c].job \in Jobs <=> consumer[c].pc \in {"handle", "requeue", "publish"}
                        /\ consumer[c].pc = "requeue" => consumer[c].attempt < MaxAttempts
<1>1. AttemptsLeft /\ \A c \in Consumers : HandOK(c)
  BY DEF HandInv
<1> SUFFICES AttemptsLeft' /\ \A c \in Consumers : HandOK(c)'
  BY DEF HandInv
<1>2. ASSUME NEW m \in Messages, m.attempt < MaxAttempts, jobs' = Append(jobs, m)
      PROVE  AttemptsLeft'
  <2>1. /\ Len(jobs) \in Nat /\ Len(jobs') = Len(jobs) + 1
        /\ \A i \in 1..Len(jobs) : jobs'[i] = jobs[i]
        /\ jobs'[Len(jobs) + 1] = m
    BY <1>2, AppendProperties, LenProperties DEF TypeOK
  <2> QED
    BY <1>1, <1>2, <2>1
<1>3. ASSUME jobs # <<>>, jobs' = Tail(jobs)
      PROVE  AttemptsLeft'
  <2>1. /\ Len(jobs) \in Nat /\ Len(jobs') = Len(jobs) - 1
        /\ \A i \in 1..Len(jobs) - 1 : jobs'[i] = jobs[i + 1]
    BY <1>3, HeadTailProperties, LenProperties DEF TypeOK
  <2> QED
    BY <1>1, <2>1
<1>4. jobs' = jobs => AttemptsLeft'
  BY <1>1
<1>5. ASSUME NEW c \in Consumers, NEW label, Move(c, label), HandOK(c)'
      PROVE  \A d \in Consumers : HandOK(d)'
  BY <1>1, <1>5, Moved
<1>6. ASSUME NEW c \in Consumers, Loop(c)
      PROVE  \A d \in Consumers : HandOK(d)'
  BY <1>1, <1>6, MemoryAssumption DEF Loop, Receiving, TypeOK
<1>7. consumer' = consumer => \A d \in Consumers : HandOK(d)'
  BY <1>1
<1> HIDE DEF AttemptsLeft
<1>8. ASSUME NEW j \in Jobs, Enqueue(j) \/ Send(j) \/ GiveUp(j)
      PROVE  AttemptsLeft' /\ \A c \in Consumers : HandOK(c)'
  <2>1. [job |-> j, attempt |-> 0] \in Messages /\ 0 < MaxAttempts
    BY MemoryAssumption DEF Messages
  <2> QED
    BY <1>2, <1>4, <1>7, <1>8, <2>1 DEF Enqueue, Send, GiveUp
<1>9. ASSUME NEW c \in Consumers, Receive(c)
      PROVE  AttemptsLeft' /\ \A d \in Consumers : HandOK(d)'
  <2>1. Head(jobs).job \in Jobs
    <3>1. Head(jobs) \in Messages
      BY <1>9, HeadTailProperties DEF Receive, TypeOK
    <3> QED
      BY <3>1 DEF Messages
  <2>2. /\ consumer'[c].pc = "handle" /\ consumer'[c].job = Head(jobs).job
        /\ \A d \in Consumers \ {c} : consumer'[d] = consumer[d]
    BY <1>9 DEF Receive, TypeOK
  <2>3. \A d \in Consumers : HandOK(d)'
    BY <1>1, <2>1, <2>2
  <2>4. AttemptsLeft'
    BY <1>3, <1>9 DEF Receive
  <2> QED
    BY <2>3, <2>4
<1>10. ASSUME NEW c \in Consumers, Return(c) \/ RouterAnswers(c)
       PROVE  AttemptsLeft' /\ \A d \in Consumers : HandOK(d)'
  <2>1. CASE Return(c)
    <3>1. consumer'[c].pc = "returned" /\ consumer'[c].job = consumer[c].job /\ consumer[c].pc = "receive"
      BY <2>1, Moved DEF Return
    <3>2. HandOK(c)'
      BY <1>1, <3>1
    <3> QED
      BY <1>4, <1>5, <2>1, <3>2 DEF Return
  <2>2. CASE RouterAnswers(c)
    <3>1. consumer'[c].pc = "publish" /\ consumer'[c].job = consumer[c].job /\ consumer[c].pc = "handle"
      BY <2>2, Moved DEF RouterAnswers
    <3>2. HandOK(c)'
      BY <1>1, <3>1
    <3> QED
      BY <1>4, <1>5, <2>2, <3>2 DEF RouterAnswers
  <2> QED
    BY <1>10, <2>1, <2>2
<1>11. ASSUME NEW c \in Consumers, RouterFails(c)
       PROVE  AttemptsLeft' /\ \A d \in Consumers : HandOK(d)'
  <2>1. CASE consumer[c].attempt >= MaxAttempts
    BY <1>4, <1>6, <1>11, <2>1 DEF RouterFails
  <2>2. CASE ~(consumer[c].attempt >= MaxAttempts)
    <3>1. Move(c, "requeue") /\ consumer[c].pc = "handle"
      BY <1>11, <2>2 DEF RouterFails
    <3>2. /\ consumer'[c].pc = "requeue" /\ consumer'[c].job = consumer[c].job
          /\ consumer'[c].attempt = consumer[c].attempt
      BY <3>1, Moved
    <3>3. consumer[c].attempt < MaxAttempts
      BY <2>2, MemoryAssumption DEF TypeOK
    <3>4. HandOK(c)'
      BY <1>1, <3>1, <3>2, <3>3
    <3> QED
      BY <1>4, <1>5, <1>11, <3>1, <3>4 DEF RouterFails
  <2> QED
    BY <2>1, <2>2
<1>12. ASSUME NEW c \in Consumers, Requeue(c) \/ Publish(c) \/ Abandon(c)
       PROVE  AttemptsLeft' /\ \A d \in Consumers : HandOK(d)'
  <2>1. Requeue(c) => /\ [job |-> consumer[c].job, attempt |-> consumer[c].attempt] \in Messages
                      /\ consumer[c].attempt < MaxAttempts
    BY <1>1 DEF Requeue, Messages, TypeOK
  <2>2. AttemptsLeft'
    BY <1>2, <1>4, <1>12, <2>1 DEF Requeue, Publish, Abandon
  <2> QED
    BY <1>6, <1>12, <2>2 DEF Requeue, Publish, Abandon
<1>13. CASE Cancel \/ UNCHANGED vars
  BY <1>4, <1>7, <1>13 DEF Cancel, vars
<1> QED
  BY <1>8, <1>9, <1>10, <1>11, <1>12, <1>13 DEF Next, Step

----------------------------------------------------------------------------
(* Places: each step moves one job from one of them to another.            *)
LEMMA PlaceStep ==
    ASSUME TypeOK, HandInv, OnceInv, PlaceInv, IsFiniteSet(Accepted), [Next]_vars
    PROVE  OnceInv' /\ PlaceInv' /\ IsFiniteSet(Accepted')
<1> DEFINE Goal == OnceInv' /\ PlaceInv' /\ IsFiniteSet(Accepted')
           HandsOnce == \A d, e \in Consumers :
                          consumer'[d].job \in Jobs /\ consumer'[d].job = consumer'[e].job => d = e
<1>1. /\ Queued \in Seq(Jobs) /\ results \in Seq(Jobs) /\ dlq \in Seq(Jobs)
      /\ Distinct(Queued) /\ Distinct(results) /\ Distinct(dlq)
  BY QueuedFacts DEF TypeOK, OnceInv
<1>2. jobs' = jobs => Queued' = Queued
  BY QueuedFacts
<1>3. ASSUME NEW j0 \in Jobs, NEW n, [job |-> j0, attempt |-> n] \in Messages, ~Has(Queued, j0),
             jobs' = Append(jobs, [job |-> j0, attempt |-> n])
      PROVE  /\ Distinct(Queued')
             /\ \A j \in Jobs : Has(Queued', j) <=> Has(Queued, j) \/ j = j0
  <2>1. Queued' = Append(Queued, j0)
    BY <1>3, QueuedFacts
  <2> QED
    BY <1>1, <1>3, <2>1, Appended
<1>4. sender' = sender => Accepted' = Accepted
  BY DEF Accepted
<1>5. consumer' = consumer => HandsOnce /\ \A j \in Jobs : Held(j)' <=> Held(j)
  BY DEF OnceInv, Held
<1>6. ASSUME NEW c \in Consumers, NEW label, Move(c, label)
      PROVE  HandsOnce /\ \A j \in Jobs : Held(j)' <=> Held(j)
  BY <1>6, Moved DEF OnceInv, Held
<1>7. ASSUME Queued' = Queued, UNCHANGED <<results, dlq, logged>>, Accepted' = Accepted,
             HandsOnce, \A j \in Jobs : Held(j)' <=> Held(j)
      PROVE  Goal
  BY <1>7 DEF OnceInv, PlaceInv
<1> HIDE DEF HandsOnce
<1>8. ASSUME NEW j \in Jobs, Enqueue(j) \/ GiveUp(j)
      PROVE  Goal
  <2>1. Accepted' = Accepted
    BY <1>8 DEF Enqueue, GiveUp, Accepted, TypeOK
  <2> QED
    BY <1>2, <1>5, <1>7, <1>8, <2>1 DEF Enqueue, GiveUp
<1>9. ASSUME NEW j0 \in Jobs, Send(j0)
      PROVE  Goal
  <2>1. Accepted' = Accepted \cup {j0} /\ j0 \notin Accepted
    BY <1>9 DEF Send, Accepted, TypeOK
  <2>2. IsFiniteSet(Accepted')
    BY <2>1, FS_AddElement
  <2>3. [job |-> j0, attempt |-> 0] \in Messages
    BY MemoryAssumption DEF Messages
  <2>4. ~Has(Queued, j0) /\ ~Held(j0) /\ ~Has(results, j0) /\ ~Has(dlq, j0) /\ j0 \notin logged
    BY <2>1 DEF PlaceInv
  <2>5. /\ Distinct(Queued')
        /\ \A j \in Jobs : Has(Queued', j) <=> Has(Queued, j) \/ j = j0
    BY <1>3, <1>9, <2>3, <2>4 DEF Send
  <2>6. UNCHANGED <<results, dlq, logged>> /\ HandsOnce /\ \A j \in Jobs : Held(j)' <=> Held(j)
    BY <1>5, <1>9 DEF Send
  <2>7. OnceInv'
    BY <1>1, <2>5, <2>6 DEF OnceInv, HandsOnce
  <2>8. PlaceInv'
    BY <2>1, <2>4, <2>5, <2>6 DEF PlaceInv
  <2> QED
    BY <2>2, <2>7, <2>8
<1>10. ASSUME NEW c \in Consumers, Receive(c)
       PROVE  Goal
  <2> DEFINE j0 == Head(jobs).job
  <2>1. /\ Queued # <<>> /\ j0 = Head(Queued) /\ Queued' = Tail(Queued)
    BY <1>10, QueuedFacts DEF Receive
  <2>2. /\ Has(Queued, j0) /\ ~Has(Queued', j0) /\ Distinct(Queued')
        /\ \A j \in Jobs : j # j0 => (Has(Queued', j) <=> Has(Queued, j))
    BY <1>1, <2>1, Received
  <2>3. j0 \in Jobs
    BY <1>1, <2>1, HeadTailProperties
  <2>4. ~Held(j0) /\ consumer[c].job \notin Jobs
    BY <1>10, <2>2, <2>3 DEF PlaceInv, HandInv, Receive
  <2>5. consumer' = [consumer EXCEPT ![c] = [pc |-> "handle", job |-> j0,
                                             attempt |-> Head(jobs).attempt + 1]]
    BY <1>10 DEF Receive
  <2> HIDE DEF j0
  <2>6. HandsOnce /\ \A j \in Jobs : Held(j)' <=> Held(j) \/ j = j0
    BY <2>3, <2>4, <2>5, Taken DEF HandsOnce
  <2>7. UNCHANGED <<results, dlq, logged>> /\ Accepted' = Accepted
    BY <1>4, <1>10 DEF Receive
  <2>8. OnceInv'
    BY <1>1, <2>2, <2>6, <2>7 DEF OnceInv, HandsOnce
  <2>9. PlaceInv'
    BY <2>2, <2>3, <2>6, <2>7 DEF PlaceInv
  <2> QED
    BY <2>7, <2>8, <2>9
<1>11. ASSUME NEW c \in Consumers, NEW label, Move(c, label),
              UNCHANGED <<sender, jobs, results, dlq, logged>>
       PROVE  Goal
  BY <1>2, <1>4, <1>6, <1>7, <1>11
<1>12. ASSUME NEW c \in Consumers, Loop(c), sender' = sender,
              consumer[c].pc \in {"handle", "requeue", "publish"}
       PROVE  LET j0 == consumer[c].job
              IN  /\ j0 \in Jobs /\ Accepted' = Accepted /\ j0 \in Accepted
                  /\ HandsOnce /\ \A j \in Jobs : Held(j)' <=> Held(j) /\ j # j0
                  /\ Held(j0) /\ ~Has(Queued, j0) /\ ~Has(results, j0) /\ ~Has(dlq, j0) /\ j0 \notin logged
  <2>1. consumer[c].job \in Jobs
    BY <1>12 DEF HandInv
  <2>2. /\ HandsOnce /\ Held(consumer[c].job)
        /\ \A j \in Jobs : Held(j)' <=> Held(j) /\ j # consumer[c].job
    BY <1>12, <2>1, Released DEF HandsOnce
  <2> QED
    BY <1>4, <1>12, <2>1, <2>2 DEF PlaceInv
<1>13. ASSUME NEW c \in Consumers, RouterFails(c)
       PROVE  Goal
  <2> DEFINE j0 == consumer[c].job
  <2>1. CASE consumer[c].attempt >= MaxAttempts
    <3>1. Loop(c) /\ dlq' = Append(dlq, j0) /\ UNCHANGED <<sender, jobs, results, logged>>
      BY <1>13, <2>1 DEF RouterFails
    <3>2. /\ j0 \in Jobs /\ Accepted' = Accepted /\ j0 \in Accepted
          /\ HandsOnce /\ \A j \in Jobs : Held(j)' <=> Held(j) /\ j # j0
          /\ Held(j0) /\ ~Has(Queued, j0) /\ ~Has(results, j0) /\ ~Has(dlq, j0) /\ j0 \notin logged
      BY <1>12, <1>13, <3>1 DEF RouterFails
    <3> HIDE DEF j0
    <3>3. Distinct(dlq') /\ \A j \in Jobs : Has(dlq', j) <=> Has(dlq, j) \/ j = j0
      BY <1>1, <3>1, <3>2, Appended
    <3>4. OnceInv'
      BY <1>1, <1>2, <3>1, <3>2, <3>3 DEF OnceInv, HandsOnce
    <3>5. PlaceInv'
      BY <1>2, <3>1, <3>2, <3>3 DEF PlaceInv
    <3> QED
      BY <3>2, <3>4, <3>5
  <2>2. CASE ~(consumer[c].attempt >= MaxAttempts)
    BY <1>11, <1>13, <2>2 DEF RouterFails
  <2> QED
    BY <2>1, <2>2
<1>14. ASSUME NEW c \in Consumers, Requeue(c)
       PROVE  Goal
  <2> DEFINE j0 == consumer[c].job
  <2>1. /\ Loop(c) /\ UNCHANGED <<sender, results, dlq, logged>>
        /\ jobs' = Append(jobs, [job |-> j0, attempt |-> consumer[c].attempt])
    BY <1>14 DEF Requeue
  <2>2. /\ j0 \in Jobs /\ Accepted' = Accepted /\ j0 \in Accepted
        /\ HandsOnce /\ \A j \in Jobs : Held(j)' <=> Held(j) /\ j # j0
        /\ Held(j0) /\ ~Has(Queued, j0) /\ ~Has(results, j0) /\ ~Has(dlq, j0) /\ j0 \notin logged
    BY <1>12, <1>14, <2>1 DEF Requeue
  <2>3. [job |-> j0, attempt |-> consumer[c].attempt] \in Messages
    BY <2>2 DEF Messages, TypeOK
  <2> HIDE DEF j0
  <2>4. /\ Distinct(Queued')
        /\ \A j \in Jobs : Has(Queued', j) <=> Has(Queued, j) \/ j = j0
    BY <1>3, <2>1, <2>2, <2>3
  <2>5. OnceInv'
    BY <1>1, <2>1, <2>2, <2>4 DEF OnceInv, HandsOnce
  <2>6. PlaceInv'
    BY <2>1, <2>2, <2>4 DEF PlaceInv
  <2> QED
    BY <2>2, <2>5, <2>6
<1>15. ASSUME NEW c \in Consumers, Publish(c)
       PROVE  Goal
  <2> DEFINE j0 == consumer[c].job
  <2>1. Loop(c) /\ results' = Append(results, j0) /\ UNCHANGED <<sender, jobs, dlq, logged>>
    BY <1>15 DEF Publish
  <2>2. /\ j0 \in Jobs /\ Accepted' = Accepted /\ j0 \in Accepted
        /\ HandsOnce /\ \A j \in Jobs : Held(j)' <=> Held(j) /\ j # j0
        /\ Held(j0) /\ ~Has(Queued, j0) /\ ~Has(results, j0) /\ ~Has(dlq, j0) /\ j0 \notin logged
    BY <1>12, <1>15, <2>1 DEF Publish
  <2> HIDE DEF j0
  <2>3. Distinct(results') /\ \A j \in Jobs : Has(results', j) <=> Has(results, j) \/ j = j0
    BY <1>1, <2>1, <2>2, Appended
  <2>4. OnceInv'
    BY <1>1, <1>2, <2>1, <2>2, <2>3 DEF OnceInv, HandsOnce
  <2>5. PlaceInv'
    BY <1>2, <2>1, <2>2, <2>3 DEF PlaceInv
  <2> QED
    BY <2>2, <2>4, <2>5
<1>16. ASSUME NEW c \in Consumers, Abandon(c)
       PROVE  Goal
  <2> DEFINE j0 == consumer[c].job
  <2>1. Loop(c) /\ logged' = logged \cup {j0} /\ UNCHANGED <<sender, jobs, results, dlq>>
    BY <1>16 DEF Abandon
  <2>2. /\ j0 \in Jobs /\ Accepted' = Accepted /\ j0 \in Accepted
        /\ HandsOnce /\ \A j \in Jobs : Held(j)' <=> Held(j) /\ j # j0
        /\ Held(j0) /\ ~Has(Queued, j0) /\ ~Has(results, j0) /\ ~Has(dlq, j0) /\ j0 \notin logged
    BY <1>12, <1>16, <2>1 DEF Abandon
  <2> HIDE DEF j0
  <2>3. OnceInv'
    BY <1>1, <1>2, <2>1, <2>2 DEF OnceInv, HandsOnce
  <2>4. PlaceInv'
    BY <1>2, <2>1, <2>2 DEF PlaceInv
  <2> QED
    BY <2>2, <2>3, <2>4
<1>17. CASE Cancel \/ UNCHANGED vars
  BY <1>2, <1>4, <1>5, <1>7, <1>17 DEF Cancel, vars
<1> QED
  BY <1>8, <1>9, <1>10, <1>11, <1>13, <1>14, <1>15, <1>16, <1>17
     DEF Next, Step, Return, RouterAnswers

(* The inductive invariant holds in every reachable state.                 *)
LEMMA Invariance == Spec => []IInv
<1>1. Init => IInv
  <2> SUFFICES ASSUME Init PROVE IInv
    OBVIOUS
  <2>1. TypeOK
    <3>1. Receiving \in Hand
      BY MemoryAssumption DEF Receiving, Hand, Labels
    <3>2. <<>> \in Seq(Messages) /\ <<>> \in Seq(Jobs) /\ Len(<<>>) <= Capacity
      BY MemoryAssumption, EmptySeq
    <3> QED
      BY <3>1, <3>2 DEF Init, TypeOK, Hand, Labels
  <2>2. jobs = <<>> /\ results = <<>> /\ dlq = <<>> /\ Len(<<>>) = 0
    BY EmptySeq DEF Init
  <2>3. \A c \in Consumers : consumer[c].job \notin Jobs /\ consumer[c].pc = "receive"
    BY MemoryAssumption DEF Init, Receiving
  <2>4. Len(Queued) = 0
    BY <2>1, <2>2, QueuedFacts
  <2>5. HandInv /\ OnceInv
    BY <2>2, <2>3, <2>4 DEF HandInv, OnceInv, Distinct
  <2>6. Accepted = {} /\ logged = {}
    BY DEF Init, Accepted
  <2>7. PlaceInv
    BY <2>2, <2>3, <2>4, <2>6 DEF PlaceInv, Has, Held
  <2> QED
    BY <2>1, <2>5, <2>6, <2>7, FS_EmptySet DEF IInv
<1>2. IInv /\ [Next]_vars => IInv'
  BY TypeStep, HandStep, PlaceStep DEF IInv
<1> QED
  BY <1>1, <1>2, PTL DEF Spec

(* Channels never hold more than their capacity, nor a message an attempt  *)
(* beyond MaxAttempts.                                                     *)
THEOREM TypeCorrect == Spec => []TypeOK
<1>1. IInv => TypeOK
  BY DEF IInv
<1> QED
  BY <1>1, Invariance, PTL

(* A set without two different members has no member or one.               *)
LEMMA AtMostOne ==
    ASSUME NEW S, \A x, y \in S : x = y
    PROVE  Cardinality(S) = IF S = {} THEN 0 ELSE 1
<1>1. ASSUME NEW x \in S
      PROVE  Cardinality(S) = 1
  <2>1. S = {x}
    OBVIOUS
  <2>2. Cardinality({x}) = 1
    BY FS_Singleton
  <2> QED
    BY <2>1, <2>2
<1> QED
  BY <1>1, FS_EmptySet

(* An accepted job has one fate: it is in the channel, in one consumer's   *)
(* hands, among the results, dead-lettered, or given up for a cancelled    *)
(* context - whatever blocks, and however often it is retried.             *)
THEOREM EveryJobOneFate == Spec => []OneFate
<1>1. IInv => OneFate
  <2> SUFFICES ASSUME IInv, NEW j \in Jobs
               PROVE  InChannel(j) + InHand(j) + Finished(j) = IF j \in Accepted THEN 1 ELSE 0
    BY DEF OneFate
  <2> USE DEF IInv
  <2>1. InChannel(j) = IF Has(Queued, j) THEN 1 ELSE 0
    <3> DEFINE S == {i \in 1..Len(jobs) : jobs[i].job = j}
    <3>1. (S = {} <=> ~Has(Queued, j)) /\ \A x, y \in S : x = y
      BY QueuedFacts DEF Queued, Has, Distinct, OnceInv
    <3> HIDE DEF S
    <3>2. Cardinality(S) = IF S = {} THEN 0 ELSE 1
      BY <3>1, AtMostOne
    <3> QED
      BY <3>1, <3>2 DEF S, InChannel
  <2>2. InHand(j) = IF Held(j) THEN 1 ELSE 0
    <3> DEFINE S == {c \in Consumers : consumer[c].job = j}
    <3>1. (S = {} <=> ~Held(j)) /\ \A x, y \in S : x = y
      BY DEF Held, OnceInv
    <3> HIDE DEF S
    <3>2. Cardinality(S) = IF S = {} THEN 0 ELSE 1
      BY <3>1, AtMostOne
    <3> QED
      BY <3>1, <3>2 DEF S, InHand
  <2>3. ASSUME NEW s, Distinct(s)
        PROVE  Cardinality({i \in 1..Len(s) : s[i] = j}) = IF Has(s, j) THEN 1 ELSE 0
    <3> DEFINE S == {i \in 1..Len(s) : s[i] = j}
    <3>1. (S = {} <=> ~Has(s, j)) /\ \A x, y \in S : x = y
      BY <2>3 DEF Has, Distinct
    <3> HIDE DEF S
    <3>2. Cardinality(S) = IF S = {} THEN 0 ELSE 1
      BY <3>1, AtMostOne
    <3> QED
      BY <3>1, <3>2 DEF S
  <2>4. Finished(j) = (IF Has(results, j) THEN 1 ELSE 0) + (IF Has(dlq, j) THEN 1 ELSE 0)
                      + (IF j \in logged THEN 1 ELSE 0)
    BY <2>3 DEF OnceInv, Finished
  <2> QED
    BY <2>1, <2>2, <2>4 DEF PlaceInv
<1> QED
  BY <1>1, Invariance, PTL

(* A channel that is full, and one more job, are more jobs than it holds.  *)
LEMMA OneMore ==
    ASSUME NEW s \in Seq(Accepted), Distinct(s), NEW j \in Accepted, ~Has(s, j),
           IsFiniteSet(Accepted)
    PROVE  Len(s) < Cardinality(Accepted)
<1> DEFINE n == Len(s)
           f == [i \in 1..n + 1 |-> IF i = n + 1 THEN j ELSE s[i]]
<1>1. n \in Nat /\ \A i \in 1..n : s[i] \in Accepted
  BY LenProperties, ElementOfSeq
<1>2. f \in [1..n + 1 -> Accepted]
  BY <1>1
<1>3. \A i, k \in 1..n + 1 : f[i] = f[k] => i = k
  BY <1>1 DEF Distinct, Has
<1> HIDE DEF f
<1>4. f \in Injection(1..n + 1, Accepted)
  BY <1>2, <1>3 DEF Injection, IsInjective
<1>5. Cardinality(1..n + 1) <= Cardinality(Accepted)
  BY <1>4, FS_Injection
<1>6. Cardinality(1..n + 1) = n + 1
  BY <1>1, FS_Interval
<1>7. Cardinality(Accepted) \in Nat
  BY FS_CardinalityType
<1> QED
  BY <1>1, <1>5, <1>6, <1>7

(* No consumer waits for room in a channel it feeds while no more jobs     *)
(* were accepted than the channel has room for.                            *)
THEOREM RetriesHaveRoom == Spec => []NeverBlockedWithinCapacity
<1>1. IInv => NeverBlockedWithinCapacity
  <2> SUFFICES ASSUME IInv, Cardinality(Accepted) <= Capacity, NEW c \in Consumers
               PROVE  ~Blocked(c)
    BY DEF NeverBlockedWithinCapacity
  <2> USE DEF IInv
  <2> DEFINE j == consumer[c].job
  <2>1. ASSUME consumer[c].pc \in {"requeue", "publish"}
        PROVE  j \in Accepted /\ ~Has(Queued, j) /\ ~Has(results, j)
    BY <2>1 DEF HandInv, Held, PlaceInv
  <2>2. Cardinality(Accepted) \in Nat /\ Capacity \in Nat
    BY FS_CardinalityType, MemoryAssumption
  <2>3. ASSUME NEW s \in Seq(Jobs), \A k \in Jobs : Has(s, k) => k \in Accepted
        PROVE  s \in Seq(Accepted)
    <3>1. \A i \in 1..Len(s) : s[i] \in Accepted
      BY <2>3, ElementOfSeq DEF Has
    <3>2. Len(s) \in Nat /\ s = [i \in 1..Len(s) |-> s[i]]
      BY <2>3, LenProperties
    <3> QED
      BY <3>1, <3>2
  <2>4. Queued \in Seq(Accepted) /\ results \in Seq(Accepted)
    BY <2>3, QueuedFacts DEF PlaceInv, TypeOK
  <2>5. Distinct(Queued) /\ Distinct(results)
    BY DEF OnceInv
  <2>6. Len(Queued) = Len(jobs) /\ Len(jobs) \in Nat
    BY QueuedFacts
  <2> HIDE DEF j
  <2>7. consumer[c].pc = "requeue" => HasRoom(jobs)
    <3> SUFFICES ASSUME consumer[c].pc = "requeue" PROVE HasRoom(jobs)
      OBVIOUS
    <3>1. Len(Queued) < Cardinality(Accepted)
      BY <2>1, <2>4, <2>5, OneMore
    <3> QED
      BY <2>2, <2>6, <3>1 DEF HasRoom
  <2>8. consumer[c].pc = "publish" => HasRoom(results)
    <3> SUFFICES ASSUME consumer[c].pc = "publish" PROVE HasRoom(results)
      OBVIOUS
    <3>1. Len(results) < Cardinality(Accepted) /\ Len(results) \in Nat
      BY <2>1, <2>4, <2>5, OneMore, LenProperties
    <3> QED
      BY <2>2, <3>1 DEF HasRoom
  <2> QED
    BY <2>7, <2>8 DEF Blocked
<1> QED
  BY <1>1, Invariance, PTL
=============================================================================
