----------------------------- MODULE RedisQueue -----------------------------
(***************************************************************************)
(* The Redis Streams backend of shared/pkg/queue, as the gateway and the   *)
(* scheduler use it: the jobs topic with its one consumer group, and the   *)
(* XADD-only topics (results, dead letters).  The Redis server and its Go  *)
(* client are external; they are modelled from the calls redis.go makes.   *)
(*                                                                         *)
(* An entry is its position in the jobs stream.  Nothing in the repository *)
(* trims a stream, and every replica reads under the same consumer name,   *)
(* so one pending-entries list serves the group.                           *)
(***************************************************************************)
EXTENDS Naturals, Sequences

CONSTANTS
    Jobs,        \* job identifiers: the uuids the gateway draws
    Malformed,   \* marks a payload that does not unmarshal to a job
    ReadCount    \* the Count of XREADGROUP (10 in the code)

ASSUME ReadCountAssumption == ReadCount \in Nat \ {0}
ASSUME MalformedAssumption == Malformed \notin Jobs

VARIABLES
    stream,      \* the jobs topic
    cursor,      \* the group's last-delivered entry
    pending,     \* entries delivered to the group and not acknowledged
    group        \* whether the consumer group exists

queueVars == <<stream, cursor, pending, group>>

(* What a stream entry carries: the job and its Attempt field.             *)
Payload == [job: Jobs \cup {Malformed}, attempt: Nat]

QueueTypeOK ==
    /\ stream \in Seq(Payload)
    /\ cursor \in 0..Len(stream)
    /\ pending \subseteq 1..cursor
    /\ group \in BOOLEAN

QueueInit ==
    /\ stream = <<>>
    /\ cursor = 0
    /\ pending = {}
    /\ group = FALSE

----------------------------------------------------------------------------
(* What one XADD through the client can come to: how many entries the      *)
(* server appended, and whether the caller sees an error.  A connection    *)
(* that breaks before the reply leaves the caller with an error for an     *)
(* entry that was appended; the client re-sends a command whose reply it   *)
(* lost, so an XADD that reports success may have appended twice.          *)
Clean == [copies |-> 1, err |-> FALSE]

XAddReply == { Clean,
               [copies |-> 0, err |-> TRUE],
               [copies |-> 1, err |-> TRUE],
               [copies |-> 2, err |-> FALSE] }

AppendN(s, p, n) == s \o [i \in 1..n |-> p]

(* Redis.Enqueue on the jobs topic.                                        *)
Enqueue(p, rep) ==
    /\ stream' = AppendN(stream, p, rep.copies)
    /\ UNCHANGED <<cursor, pending, group>>

(* XGROUP CREATE ... MKSTREAM from the first entry on; an existing group   *)
(* is left as it is.                                                       *)
XGroupCreate ==
    /\ group' = TRUE
    /\ UNCHANGED <<stream, cursor, pending>>

(* Mutant of BatchEnd: a full batch is assumed.                            *)
BatchEndAlwaysFull == cursor + ReadCount

(* The last entry one XREADGROUP ">" takes.                                *)
BatchEnd == IF cursor + ReadCount < Len(stream) THEN cursor + ReadCount ELSE Len(stream)

(* Mutant of XReadGroup: the NOACK option, nothing becomes pending.        *)
XReadGroupNoAck ==
    /\ group
    /\ cursor < Len(stream)
    /\ cursor' = BatchEnd
    /\ UNCHANGED <<stream, pending, group>>

(* Mutant of XReadGroup: read outside a group, no shared cursor moves.     *)
XReadGroupNoGroup ==
    /\ group
    /\ cursor < Len(stream)
    /\ pending' = pending \cup (cursor + 1)..BatchEnd
    /\ UNCHANGED <<stream, cursor, group>>

(* XREADGROUP ">": the next entries, at most ReadCount, move to the        *)
(* pending list.  With nothing new the call blocks, without a group it is  *)
(* an error, and the loop goes on.                                         *)
XReadGroup ==
    /\ group
    /\ cursor < Len(stream)
    /\ cursor' = BatchEnd
    /\ pending' = pending \cup (cursor + 1)..BatchEnd
    /\ UNCHANGED <<stream, group>>

XAck(e) ==
    /\ pending' = pending \ {e}
    /\ UNCHANGED <<stream, cursor, group>>
=============================================================================
