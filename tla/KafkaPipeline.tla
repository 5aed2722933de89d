---------------------------- MODULE KafkaPipeline ----------------------------
(***************************************************************************)
(* The asynchronous path over the Kafka backend of shared/pkg/queue:       *)
(* gateway requests that share Kafka.writers, the partitioned jobs topic   *)
(* with the offsets its consumer group committed, and the loop of          *)
(* Kafka.Consume in each scheduler replica.  The broker and kafka-go are   *)
(* external, modelled from the calls kafka.go makes.                       *)
(*                                                                         *)
(* One delivery is three steps: FetchMessage, the handler with the message *)
(* it writes (JobPipeline has Dispatcher.handle step by step), and         *)
(* CommitMessages.                                                         *)
(***************************************************************************)
EXTENDS Naturals, Sequences, FiniteSets

CONSTANTS
    Jobs,        \* job identifiers
    Partitions,  \* of the jobs topic
    Replicas,    \* scheduler processes, members of one consumer group
    Nobody,      \* the owner of a partition nobody is assigned
    MaxAttempts, \* InferenceJob.MaxAttempts
    MaxFaults    \* bound: writes and commits that go wrong, replicas stopped
                 \*   and partitions taken from a live one, together

ASSUME KafkaAssumption == /\ MaxAttempts \in Nat \ {0}
                          /\ MaxFaults \in Nat
                          /\ Nobody \notin Replicas
                          /\ Partitions # {}

VARIABLES
    log,        \* log[p]: the entries of partition p
    committed,  \* committed[p]: the group's offset
    owner,      \* owner[p]: the replica p is assigned to
    position,   \* position[p]: what its owner has fetched
    writer,     \* whether Kafka.writers has the gateway's Writer
    response,   \* response[j]: where POST /v1/jobs is, and its answer
    outcome,    \* outcome[j]: messages on the results and dead-letter topics
    held,       \* held[r]: the message r works on
    done,       \* entries the handler returned nil for (history)
    nacked,     \* entries the handler returned an error for (history)
    excused,    \* jobs with a logged error or a write nobody acknowledged (history)
    budget      \* what is left of MaxFaults

brokerVars == <<log, committed, owner, position>>
vars == <<brokerVars, writer, response, outcome, held, done, nacked, excused, budget>>

Entry == Partitions \X (Nat \ {0})
Nothing(pc) == [pc |-> pc, part |-> CHOOSE p \in Partitions : TRUE, off |-> 0]
Free == Nothing("fetch")
Off == Nothing("off")

TypeOK ==
    /\ log \in [Partitions -> Seq([job: Jobs, attempt: Nat])]
    /\ owner \in [Partitions -> Replicas \cup {Nobody}]
    /\ \A p \in Partitions : committed[p] <= Len(log[p]) /\ position[p] <= Len(log[p])
    /\ writer \in BOOLEAN
    /\ response \in [Jobs -> {"none", "missed", "accepted", "unavailable", "reset"}]
    /\ outcome \in [Jobs -> Nat]
    /\ held \in [Replicas -> [pc: {"off", "fetch", "handle", "commit"}, part: Partitions, off: Nat]]
    /\ done \subseteq Entry
    /\ nacked \subseteq Entry
    /\ excused \subseteq Jobs
    /\ budget \in 0..MaxFaults

Init ==
    /\ log = [p \in Partitions |-> <<>>]
    /\ committed = [p \in Partitions |-> 0]
    /\ owner = [p \in Partitions |-> Nobody]
    /\ position = [p \in Partitions |-> 0]
    /\ writer = FALSE
    /\ response = [j \in Jobs |-> "none"]
    /\ outcome = [j \in Jobs |-> 0]
    /\ held = [r \in Replicas |-> Off]
    /\ done = {}
    /\ nacked = {}
    /\ excused = {}
    /\ budget = MaxFaults

----------------------------------------------------------------------------
Spend ==
    /\ budget > 0
    /\ budget' = budget - 1

(* What WriteMessages can come to.  RequiredAcks is left at its zero value *)
(* (no acknowledgement), so it reports success for a message the broker    *)
(* lost; and it sends again what it believes to have failed.               *)
Clean == [copies |-> 1, err |-> FALSE]
WriteReply == { Clean,
                [copies |-> 0, err |-> FALSE],
                [copies |-> 0, err |-> TRUE],
                [copies |-> 1, err |-> TRUE],
                [copies |-> 2, err |-> FALSE] }

Charge(rep) == IF rep = Clean THEN UNCHANGED budget ELSE Spend

(* A write whose failure is only logged, or that nobody hears of.          *)
Excuse(j, rep) ==
    excused' = IF rep.err \/ rep.copies = 0 THEN excused \cup {j} ELSE excused

(* LeastBytes may pick any partition.                                      *)
Write(p, j, n, rep) ==
    log' = [log EXCEPT ![p] = @ \o [i \in 1..rep.copies |-> [job |-> j, attempt |-> n]]]

----------------------------------------------------------------------------
(* Handler.SubmitJob calls Enqueue, and writerFor finds no Writer.         *)
MissWriter(j) ==
    /\ response[j] = "none"
    /\ ~writer
    /\ response' = [response EXCEPT ![j] = "missed"]
    /\ UNCHANGED <<brokerVars, writer, outcome, held, done, nacked, excused, budget>>

(* One request stores its Writer in the map while another one reads or     *)
(* writes the map: the Go runtime may stop the process, and every open     *)
(* request with it.  It is started again.                                  *)
ConcurrentMapWrite(j, k) ==
    /\ j # k
    /\ response[j] = "missed"
    /\ response[k] \in {"none", "missed"}
    /\ writer' = FALSE
    /\ response' = [i \in Jobs |-> IF i = k \/ response[i] = "missed" THEN "reset" ELSE response[i]]
    /\ UNCHANGED <<brokerVars, outcome, held, done, nacked, excused, budget>>

(* writerFor has found a Writer or stores its own, perhaps over another's; *)
(* WriteMessages returns, and the client gets 202 or 503.                  *)
Enqueue(j, p, rep) ==
    /\ response[j] = "missed" \/ (response[j] = "none" /\ writer)
    /\ writer' = TRUE
    /\ Write(p, j, 0, rep)
    /\ response' = [response EXCEPT ![j] = IF rep.err THEN "unavailable" ELSE "accepted"]
    /\ Excuse(j, rep)
    /\ Charge(rep)
    /\ UNCHANGED <<committed, owner, position, outcome, held, done, nacked>>

----------------------------------------------------------------------------
(* kafka.NewReader joins the group.                                        *)
Join(r) ==
    /\ held[r].pc = "off"
    /\ held' = [held EXCEPT ![r] = Free]
    /\ UNCHANGED <<brokerVars, writer, response, outcome, done, nacked, excused, budget>>

(* The coordinator assigns a partition, whose new owner starts from the    *)
(* committed offset.  The old owner goes on with the message it holds.     *)
Assign(p, r) ==
    /\ held[r].pc # "off"
    /\ owner[p] # r
    /\ IF owner[p] = Nobody THEN UNCHANGED budget ELSE Spend
    /\ owner' = [owner EXCEPT ![p] = r]
    /\ position' = [position EXCEPT ![p] = committed[p]]
    /\ UNCHANGED <<log, committed, writer, response, outcome, held, done, nacked, excused>>

(* A replica is killed or terminated with a message in its hands.          *)
Stop(r) ==
    /\ held[r].pc # "off"
    /\ Spend
    /\ held' = [held EXCEPT ![r] = Off]
    /\ owner' = [p \in Partitions |-> IF owner[p] = r THEN Nobody ELSE owner[p]]
    /\ UNCHANGED <<log, committed, position, writer, response, outcome, done, nacked, excused>>

(* Mutant of Fetch: ReadMessage, which commits before it returns.          *)
FetchCommits(r, p) ==
    /\ held[r].pc = "fetch"
    /\ owner[p] = r
    /\ position[p] < Len(log[p])
    /\ position' = [position EXCEPT ![p] = @ + 1]
    /\ committed' = [committed EXCEPT ![p] = position[p] + 1]
    /\ held' = [held EXCEPT ![r] = [pc |-> "handle", part |-> p, off |-> position[p] + 1]]
    /\ UNCHANGED <<log, owner, writer, response, outcome, done, nacked, excused, budget>>

(* FetchMessage returns the next entry of a partition r is assigned.       *)
Fetch(r, p) ==
    /\ held[r].pc = "fetch"
    /\ owner[p] = r
    /\ position[p] < Len(log[p])
    /\ position' = [position EXCEPT ![p] = @ + 1]
    /\ held' = [held EXCEPT ![r] = [pc |-> "handle", part |-> p, off |-> position[p] + 1]]
    /\ UNCHANGED <<log, committed, owner, writer, response, outcome, done, nacked, excused, budget>>

EntryOf(r) == <<held[r].part, held[r].off>>
Current(r) == log[held[r].part][held[r].off]
Attempt(r) == Current(r).attempt + 1

(* handle returned nil: on to CommitMessages.                              *)
Returned(r) ==
    /\ held' = [held EXCEPT ![r].pc = "commit"]
    /\ done' = done \cup {EntryOf(r)}

(* The router answered: the result is written, an error is only logged.    *)
Publish(r, rep) ==
    /\ held[r].pc = "handle"
    /\ outcome' = [outcome EXCEPT ![Current(r).job] = @ + rep.copies]
    /\ Returned(r)
    /\ Excuse(Current(r).job, rep)
    /\ Charge(rep)
    /\ UNCHANGED <<brokerVars, writer, response, nacked>>

(* The router failed: the job is written again with its new Attempt.       *)
Requeue(r, p, rep) ==
    /\ held[r].pc = "handle"
    /\ Attempt(r) < MaxAttempts
    /\ Write(p, Current(r).job, Attempt(r), rep)
    /\ Returned(r)
    /\ Excuse(Current(r).job, rep)
    /\ Charge(rep)
    /\ UNCHANGED <<committed, owner, position, writer, response, outcome, nacked>>

(* Mutant of DeadLetter: written without looking at the error.             *)
DeadLetterUnchecked(r, rep) ==
    /\ held[r].pc = "handle"
    /\ Attempt(r) >= MaxAttempts
    /\ outcome' = [outcome EXCEPT ![Current(r).job] = @ + rep.copies]
    /\ Returned(r)
    /\ excused' = IF ~rep.err /\ rep.copies = 0 THEN excused \cup {Current(r).job} ELSE excused
    /\ Charge(rep)
    /\ UNCHANGED <<brokerVars, writer, response, nacked>>

(* The last attempt failed.  With an error from DeadLetter the handler     *)
(* returns it, and Consume goes on with the next message.                  *)
DeadLetter(r, rep) ==
    /\ held[r].pc = "handle"
    /\ Attempt(r) >= MaxAttempts
    /\ outcome' = [outcome EXCEPT ![Current(r).job] = @ + rep.copies]
    /\ IF rep.err
         THEN /\ held' = [held EXCEPT ![r] = Free]
              /\ nacked' = nacked \cup {EntryOf(r)}
              /\ UNCHANGED <<done, excused>>
         ELSE /\ Returned(r)
              /\ Excuse(Current(r).job, rep)
              /\ UNCHANGED nacked
    /\ Charge(rep)
    /\ UNCHANGED <<brokerVars, writer, response>>

(* Mutant of Commit: the next offset is committed instead of this one's.   *)
CommitNext(r) ==
    LET p == held[r].part
    IN /\ held[r].pc = "commit"
       /\ committed' = [committed EXCEPT ![p] = held[r].off + 1]
       /\ held' = [held EXCEPT ![r] = Free]
       /\ UNCHANGED <<log, owner, position, writer, response, outcome, done, nacked, excused, budget>>

(* CommitMessages.  Of a partition that was taken from r meanwhile the     *)
(* broker may or may not accept the offset, which may move it back.        *)
Commit(r) ==
    LET p == held[r].part
    IN /\ held[r].pc = "commit"
       /\ committed' = [committed EXCEPT ![p] = held[r].off]
       /\ held' = [held EXCEPT ![r] = Free]
       /\ UNCHANGED <<log, owner, position, writer, response, outcome, done, nacked, excused, budget>>

(* It fails, and nobody looks at the error.                                *)
CommitFails(r) ==
    /\ held[r].pc = "commit"
    /\ IF owner[held[r].part] = r THEN Spend ELSE UNCHANGED budget
    /\ held' = [held EXCEPT ![r] = Free]
    /\ UNCHANGED <<brokerVars, writer, response, outcome, done, nacked, excused>>

Step(r) ==
    \/ Join(r)
    \/ \E p \in Partitions : Fetch(r, p)
    \/ \E rep \in WriteReply : Publish(r, rep) \/ DeadLetter(r, rep)
                               \/ \E p \in Partitions : Requeue(r, p, rep)
    \/ Commit(r)
    \/ CommitFails(r)

Next ==
    \/ \E j \in Jobs : MissWriter(j) \/ \E k \in Jobs : ConcurrentMapWrite(j, k)
    \/ \E j \in Jobs, p \in Partitions, rep \in WriteReply : Enqueue(j, p, rep)
    \/ \E r \in Replicas : Step(r) \/ Stop(r) \/ \E p \in Partitions : Assign(p, r)

(* Replicas keep running or are started again, and the coordinator leaves  *)
(* no partition unassigned; nothing is assumed of its other moves.         *)
Fairness ==
    /\ \A r \in Replicas : WF_vars(Step(r))
    /\ \A p \in Partitions : WF_vars(owner[p] = Nobody /\ \E r \in Replicas : Assign(p, r))

Spec == Init /\ [][Next]_vars /\ Fairness

----------------------------------------------------------------------------
(* The offset a partition restarts from never passes an entry no handler   *)
(* has finished: rebalances, stale commits and crashes repeat work, and    *)
(* none of them skips any.                                                 *)
CommittedIsHandled ==
    \A p \in Partitions : \A o \in 1..committed[p] : <<p, o>> \in done \cup nacked

(* Whatever fails, an accepted job has a result or a dead letter, unless a *)
(* message was written with nobody asking for an acknowledgement or its    *)
(* error was only logged; or it is on an entry no handler has finished.    *)
(* Such an entry is still before the group, but for one whose dead letter  *)
(* failed and which nobody took up again before a later commit passed it.  *)
NoSilentLoss ==
    \A j \in Jobs : response[j] = "accepted" =>
        \/ outcome[j] > 0
        \/ j \in excused
        \/ \E p \in Partitions : \E o \in 1..Len(log[p]) :
              /\ log[p][o].job = j
              /\ <<p, o>> \notin done
              /\ o > committed[p] \/ <<p, o>> \in nacked

LeftNacked(j) == \E e \in nacked \ done : log[e[1]][e[2]].job = j

(* Unlike with Redis nothing is stranded by a replica that stops: but for  *)
(* those two ways every accepted job gets its result or its dead letter.   *)
EveryJobSettles ==
    \A j \in Jobs : response[j] = "accepted" ~> outcome[j] > 0 \/ j \in excused \/ LeftNacked(j)
=============================================================================
