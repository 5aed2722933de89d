--------------------------- MODULE MemoryPipeline ---------------------------
(***************************************************************************)
(* The scheduler standalone: jobs, retries and results over the Memory     *)
(* backend of shared/pkg/queue, whose topics are buffered channels of one  *)
(* process.  Senders are goroutines that enqueue a job; consumers run      *)
(* Memory.Consume with Dispatcher.handle, which enqueues again into the    *)
(* channel it is fed from and into a results channel nobody reads.         *)
(*                                                                         *)
(* Left out: Message.ID and Message.Attempt, which nobody reads, and the   *)
(* put-back after a handler's error (the handler's only error is that of   *)
(* DeadLetter, and Memory.DeadLetter has none).                            *)
(***************************************************************************)
EXTENDS Naturals, Sequences, FiniteSets

CONSTANTS
    Jobs,         \* job identifiers
    Consumers,    \* goroutines in Dispatcher.Run
    NoJob,        \* no message is held
    Capacity,     \* of a topic's channel (1024)
    MaxAttempts   \* InferenceJob.MaxAttempts

ASSUME MemoryAssumption == /\ Capacity \in Nat \ {0}
                           /\ MaxAttempts \in Nat \ {0}
                           /\ NoJob \notin Jobs

VARIABLES
    sender,     \* sender[j]: where the Enqueue of job j is
    jobs,       \* the channel of the jobs topic
    results,    \* the channel of the results topic
    dlq,        \* Memory.dlq of the jobs topic
    consumer,   \* consumer[c]: its place in Consume and handle, and its message
    cancelled,  \* the context of the consumers is done
    logged      \* jobs whose Enqueue in handle failed, which is only logged

vars == <<sender, jobs, results, dlq, consumer, cancelled, logged>>

Messages == [job: Jobs, attempt: 0..MaxAttempts]
Receiving == [pc |-> "receive", job |-> NoJob, attempt |-> 0]

TypeOK ==
    /\ sender \in [Jobs -> {"none", "sending", "accepted", "refused"}]
    /\ jobs \in Seq(Messages) /\ Len(jobs) <= Capacity
    /\ results \in Seq(Jobs) /\ Len(results) <= Capacity
    /\ dlq \in Seq(Jobs)
    /\ consumer \in [Consumers -> [pc: {"receive", "handle", "requeue", "publish", "returned"},
                                   job: Jobs \cup {NoJob}, attempt: 0..MaxAttempts]]
    /\ cancelled \in BOOLEAN
    /\ logged \subseteq Jobs

Init ==
    /\ sender = [j \in Jobs |-> "none"]
    /\ jobs = <<>>
    /\ results = <<>>
    /\ dlq = <<>>
    /\ consumer = [c \in Consumers |-> Receiving]
    /\ cancelled = FALSE
    /\ logged = {}

----------------------------------------------------------------------------
Move(c, label) == consumer' = [consumer EXCEPT ![c].pc = label]

(* Consume's loop comes round: the message is done with.                   *)
Loop(c) == consumer' = [consumer EXCEPT ![c] = Receiving]

(* Mutant of HasRoom: the channel is taken for one entry larger.           *)
HasRoomOffByOne(ch) == Len(ch) <= Capacity

(* A send on the channel can go ahead.                                     *)
HasRoom(ch) == Len(ch) < Capacity

(* Memory.Enqueue takes its number, and its select blocks on the channel.  *)
Enqueue(j) ==
    /\ sender[j] = "none"
    /\ sender' = [sender EXCEPT ![j] = "sending"]
    /\ UNCHANGED <<jobs, results, dlq, consumer, cancelled, logged>>

Send(j) ==
    /\ sender[j] = "sending"
    /\ HasRoom(jobs)
    /\ jobs' = Append(jobs, [job |-> j, attempt |-> 0])
    /\ sender' = [sender EXCEPT ![j] = "accepted"]
    /\ UNCHANGED <<results, dlq, consumer, cancelled, logged>>

(* The sender's own context is done first.                                 *)
GiveUp(j) ==
    /\ sender[j] = "sending"
    /\ sender' = [sender EXCEPT ![j] = "refused"]
    /\ UNCHANGED <<jobs, results, dlq, consumer, cancelled, logged>>

----------------------------------------------------------------------------
(* The select of Consume: with a message waiting it may be taken even      *)
(* after the context is done.                                              *)
Receive(c) ==
    /\ consumer[c].pc = "receive"
    /\ jobs # <<>>
    /\ jobs' = Tail(jobs)
    /\ consumer' = [consumer EXCEPT ![c] = [pc |-> "handle", job |-> Head(jobs).job,
                                            attempt |-> Head(jobs).attempt + 1]]
    /\ UNCHANGED <<sender, results, dlq, cancelled, logged>>

Return(c) ==
    /\ consumer[c].pc = "receive"
    /\ cancelled
    /\ Move(c, "returned")
    /\ UNCHANGED <<sender, jobs, results, dlq, cancelled, logged>>

RouterAnswers(c) ==
    /\ consumer[c].pc = "handle"
    /\ Move(c, "publish")
    /\ UNCHANGED <<sender, jobs, results, dlq, cancelled, logged>>

(* Mutant of RouterFails: Consume returns after the last attempt.          *)
RouterFailsReturns(c) ==
    /\ consumer[c].pc = "handle"
    /\ IF consumer[c].attempt >= MaxAttempts
         THEN /\ dlq' = Append(dlq, consumer[c].job)
              /\ consumer' = [consumer EXCEPT ![c] = [Receiving EXCEPT !.pc = "returned"]]
         ELSE /\ Move(c, "requeue")
              /\ UNCHANGED dlq
    /\ UNCHANGED <<sender, jobs, results, cancelled, logged>>

(* Predict fails, or its CallTimeout passes: the job is dead-lettered or   *)
(* is to be enqueued again after the backoff.                              *)
RouterFails(c) ==
    /\ consumer[c].pc = "handle"
    /\ IF consumer[c].attempt >= MaxAttempts
         THEN /\ dlq' = Append(dlq, consumer[c].job)
              /\ Loop(c)
         ELSE /\ Move(c, "requeue")
              /\ UNCHANGED dlq
    /\ UNCHANGED <<sender, jobs, results, cancelled, logged>>

(* Mutant of Requeue: handle returns the error as well, so Consume puts    *)
(* the message it delivered back.                                          *)
RequeueNacked(c) ==
    LET msg == [job |-> consumer[c].job, attempt |-> consumer[c].attempt]
        again == Append(jobs, msg)
    IN /\ consumer[c].pc = "requeue"
       /\ HasRoom(jobs)
       /\ jobs' = IF HasRoom(again) THEN Append(again, [msg EXCEPT !.attempt = @ - 1]) ELSE again
       /\ Loop(c)
       /\ UNCHANGED <<sender, results, dlq, cancelled, logged>>

(* handle enqueues the job again, with its new Attempt.                    *)
Requeue(c) ==
    /\ consumer[c].pc = "requeue"
    /\ HasRoom(jobs)
    /\ jobs' = Append(jobs, [job |-> consumer[c].job, attempt |-> consumer[c].attempt])
    /\ Loop(c)
    /\ UNCHANGED <<sender, results, dlq, cancelled, logged>>

Publish(c) ==
    /\ consumer[c].pc = "publish"
    /\ HasRoom(results)
    /\ results' = Append(results, consumer[c].job)
    /\ Loop(c)
    /\ UNCHANGED <<sender, jobs, dlq, cancelled, logged>>

(* Mutant of Abandon: the requeue waits without the context.               *)
AbandonResult(c) ==
    /\ consumer[c].pc = "publish"
    /\ cancelled
    /\ logged' = logged \cup {consumer[c].job}
    /\ Loop(c)
    /\ UNCHANGED <<sender, jobs, results, dlq, cancelled>>

(* The Enqueue of handle ends with the context instead of the send.        *)
Abandon(c) ==
    /\ consumer[c].pc \in {"requeue", "publish"}
    /\ cancelled
    /\ logged' = logged \cup {consumer[c].job}
    /\ Loop(c)
    /\ UNCHANGED <<sender, jobs, results, dlq, cancelled>>

Cancel ==
    /\ ~cancelled
    /\ cancelled' = TRUE
    /\ UNCHANGED <<sender, jobs, results, dlq, consumer, logged>>

Step(c) ==
    \/ Receive(c)
    \/ Return(c)
    \/ RouterAnswers(c)
    \/ RouterFails(c)
    \/ Requeue(c)
    \/ Publish(c)
    \/ Abandon(c)

Next ==
    \/ \E j \in Jobs : Enqueue(j) \/ Send(j) \/ GiveUp(j)
    \/ \E c \in Consumers : Step(c)
    \/ Cancel

(* A consumer that can go on does: the router call has a timeout.          *)
Fairness == \A c \in Consumers : WF_vars(Step(c))

Spec == Init /\ [][Next]_vars /\ Fairness

----------------------------------------------------------------------------
Accepted == {j \in Jobs : sender[j] = "accepted"}

InChannel(j) == Cardinality({i \in 1..Len(jobs) : jobs[i].job = j})
InHand(j) == Cardinality({c \in Consumers : consumer[c].job = j})
Finished(j) == Cardinality({i \in 1..Len(results) : results[i] = j})
               + Cardinality({i \in 1..Len(dlq) : dlq[i] = j})
               + (IF j \in logged THEN 1 ELSE 0)

(* Conservation: whatever blocks, retries and is cancelled, an accepted    *)
(* job is in exactly one place - the channel, a consumer's hands, the      *)
(* results, the dead letters or the log - and no other job is anywhere.    *)
OneFate ==
    \A j \in Jobs : InChannel(j) + InHand(j) + Finished(j) = IF j \in Accepted THEN 1 ELSE 0

Blocked(c) ==
    \/ consumer[c].pc = "requeue" /\ ~HasRoom(jobs)
    \/ consumer[c].pc = "publish" /\ ~HasRoom(results)

(* A channel the consumer itself feeds cannot block it while no more jobs  *)
(* have been accepted than it has room for: a retry only puts back what    *)
(* the consumer took out.                                                  *)
NeverBlockedWithinCapacity ==
    Cardinality(Accepted) <= Capacity => \A c \in Consumers : ~Blocked(c)

(* All consumers wait for each other, or for a reader of the results.      *)
Jammed == \A c \in Consumers : Blocked(c)

Stuck(j) == cancelled \/ Jammed \/ \E c \in Consumers : consumer[c].job = j /\ Blocked(c)

(* An accepted job gets its fate, unless the process is cancelled, after   *)
(* which a job may be left in the channel, or the channels are full for    *)
(* good: the consumer that holds the job waits for a reader of the         *)
(* results, or all consumers are jammed.  Nothing else stops a job.        *)
SettlesOrIsStuck == \A j \in Jobs : j \in Accepted ~> (Finished(j) > 0 \/ []Stuck(j))

(* Cancelling ends every consumer, a jam included.                         *)
ShutdownUnjams == cancelled ~> \A c \in Consumers : consumer[c].pc = "returned"
=============================================================================
