---------------------------- MODULE KafkaProofs -----------------------------
(***************************************************************************)
(* Proofs about KafkaPipeline for every set of jobs, partitions and        *)
(* replicas, and any number of failures, rebalances and stops.             *)
(***************************************************************************)
EXTENDS KafkaPipeline, SequenceTheorems, TLAPS

USE KafkaAssumption

Message == [job: Jobs, attempt: Nat]
PCs == {"off", "fetch", "handle", "commit"}

TypeInv ==
    /\ log \in [Partitions -> Seq(Message)]
    /\ committed \in [Partitions -> Nat]
    /\ position \in [Partitions -> Nat]
    /\ \A p \in Partitions : committed[p] <= Len(log[p]) /\ position[p] <= Len(log[p])
    /\ owner \in [Partitions -> Replicas \cup {Nobody}]
    /\ writer \in BOOLEAN
    /\ response \in [Jobs -> {"none", "missed", "accepted", "unavailable", "reset"}]
    /\ outcome \in [Jobs -> Nat]
    /\ held \in [Replicas -> [pc: PCs, part: Partitions, off: Nat]]
    /\ \A r \in Replicas : held[r].pc \in {"handle", "commit"} =>
          held[r].off \in 1..Len(log[held[r].part])
    /\ done \subseteq Entry
    /\ nacked \subseteq Entry
    /\ excused \subseteq Jobs
    /\ budget \in 0..MaxFaults

Handled(p, o) == <<p, o>> \in done \cup nacked

(* What was handled is on the log.                                         *)
HandledOnLog == \A p \in Partitions, o \in Nat : Handled(p, o) => o <= Len(log[p])

(* Everything before the message a replica holds was handled.              *)
HeldOrder ==
    \A r \in Replicas : held[r].pc \in {"handle", "commit"} =>
        \A o \in 1..held[r].off : Handled(held[r].part, o) \/ (o = held[r].off /\ held[r].pc = "handle")

(* What the owner of a partition has fetched was handled, or is being      *)
(* handled by it.                                                          *)
Handling(r, p, o) == held[r].pc = "handle" /\ held[r].part = p /\ held[r].off = o

OwnerOrder ==
    \A p \in Partitions : owner[p] # Nobody =>
        \A o \in 1..position[p] : Handled(p, o) \/ Handling(owner[p], p, o)

OrderInv == CommittedIsHandled /\ HandledOnLog /\ HeldOrder /\ OwnerOrder

Waiting(j) ==
    \E p \in Partitions : \E o \in 1..Len(log[p]) : log[p][o].job = j /\ <<p, o>> \notin done

(* An accepted job is settled, excused, or on an entry no handler has      *)
(* finished: NoSilentLoss speaks of the committed offset too, and would    *)
(* not survive the end of a handler.                                       *)
LossInv ==
    \A j \in Jobs : response[j] = "accepted" =>
        outcome[j] > 0 \/ j \in excused \/ Waiting(j)

IInv == TypeInv /\ OrderInv /\ LossInv

----------------------------------------------------------------------------
(* The ways a write can come out.                                          *)
LEMMA ReplyFacts ==
    ASSUME NEW rep \in WriteReply
    PROVE  rep.copies \in {0, 1, 2} /\ rep.err \in BOOLEAN
<1>1. CASE rep = [copies |-> 1, err |-> FALSE]
  BY <1>1
<1>2. CASE rep = [copies |-> 0, err |-> FALSE]
  BY <1>2
<1>3. CASE rep = [copies |-> 0, err |-> TRUE]
  BY <1>3
<1>4. CASE rep = [copies |-> 1, err |-> TRUE]
  BY <1>4
<1>5. CASE rep = [copies |-> 2, err |-> FALSE]
  BY <1>5
<1> QED
  BY <1>1, <1>2, <1>3, <1>4, <1>5 DEF WriteReply, Clean

(* A budget is spent from or left alone.                                   *)
LEMMA BudgetFacts ==
    ASSUME TypeInv, Spend \/ UNCHANGED budget
    PROVE  budget' \in 0..MaxFaults
  BY DEF TypeInv, Spend

(* A write may have cost something.                                        *)
LEMMA ChargeFacts ==
    ASSUME TypeInv, NEW rep \in WriteReply, Charge(rep)
    PROVE  budget' \in 0..MaxFaults
  BY BudgetFacts DEF Charge

(* The log only grows.                                                     *)
LogGrows ==
    /\ log' \in [Partitions -> Seq(Message)]
    /\ \A p \in Partitions :
          /\ Len(log[p]) <= Len(log'[p])
          /\ \A o \in 1..Len(log[p]) : log'[p][o] = log[p][o]

Copies(m, n) == [i \in 1..n |-> m]

(* What appending copies of a message does to one partition.               *)
LEMMA CopiesFacts ==
    ASSUME NEW s \in Seq(Message), NEW m \in Message, NEW n \in Nat
    PROVE  /\ s \o Copies(m, n) \in Seq(Message)
           /\ Len(s \o Copies(m, n)) = Len(s) + n
           /\ \A i \in 1..Len(s) : (s \o Copies(m, n))[i] = s[i]
           /\ n > 0 => (s \o Copies(m, n))[Len(s) + 1] = m
<1> DEFINE new == Copies(m, n)
           t == s \o new
<1>1. new \in Seq(Message) /\ Len(new) = n /\ \A i \in 1..n : new[i] = m
  BY DEF Copies
<1> HIDE DEF new
<1>2. /\ t \in Seq(Message)
      /\ Len(t) = Len(s) + n
      /\ \A i \in 1..(Len(s) + n) : t[i] = IF i <= Len(s) THEN s[i] ELSE new[i - Len(s)]
  BY <1>1, ConcatProperties
<1> HIDE DEF t
<1>3. Len(s) \in Nat
  OBVIOUS
<1>4. \A i \in 1..Len(s) : t[i] = s[i]
  BY <1>2, <1>3
<1>5. n > 0 => t[Len(s) + 1] = m
  BY <1>1, <1>2, <1>3
<1> QED
  BY <1>2, <1>4, <1>5 DEF t, new

(* A write appends copies of its message to one partition.                 *)
LEMMA WriteFacts ==
    ASSUME TypeInv, NEW p \in Partitions, NEW j \in Jobs, NEW n \in Nat, NEW rep \in WriteReply,
           Write(p, j, n, rep)
    PROVE  /\ LogGrows
           /\ rep.copies > 0 => /\ Len(log[p]) + 1 \in 1..Len(log'[p])
                                /\ log'[p][Len(log[p]) + 1].job = j
<1> DEFINE m == [job |-> j, attempt |-> n]
           t == log[p] \o Copies(m, rep.copies)
<1>1. rep.copies \in Nat
  BY ReplyFacts
<1>2. m \in Message /\ m.job = j
  BY DEF Message
<1>3. log' = [log EXCEPT ![p] = t]
  BY DEF Write, Copies
<1> HIDE DEF m
<1>4. log[p] \in Seq(Message) /\ Len(log[p]) \in Nat
  BY DEF TypeInv
<1>5. /\ t \in Seq(Message)
      /\ Len(t) = Len(log[p]) + rep.copies
      /\ \A i \in 1..Len(log[p]) : t[i] = log[p][i]
      /\ rep.copies > 0 => t[Len(log[p]) + 1] = m
  BY <1>1, <1>2, <1>4, CopiesFacts, ZenonT(30)
<1> HIDE DEF t
<1>6. log'[p] = t /\ \A q \in Partitions : q # p => log'[q] = log[q]
  BY <1>3 DEF TypeInv
<1>7. log' \in [Partitions -> Seq(Message)]
  BY <1>3, <1>5 DEF TypeInv
<1>8. \A q \in Partitions : /\ Len(log[q]) <= Len(log'[q])
                            /\ \A o \in 1..Len(log[q]) : log'[q][o] = log[q][o]
  <2> TAKE q \in Partitions
  <2>1. Len(log[q]) \in Nat
    BY DEF TypeInv
  <2>2. CASE q = p
    BY <1>1, <1>4, <1>5, <1>6, <2>2
  <2>3. CASE q # p
    BY <1>6, <2>1, <2>3
  <2> QED
    BY <2>2, <2>3
<1>9. LogGrows
  BY <1>7, <1>8 DEF LogGrows
<1>10. rep.copies > 0 => Len(log[p]) + 1 \in 1..Len(t)
  BY <1>1, <1>4, <1>5
<1> QED
  BY <1>2, <1>5, <1>6, <1>9, <1>10

(* The message a busy replica works on, and the entry it is.               *)
LEMMA CurrentFacts ==
    ASSUME TypeInv, NEW r \in Replicas, held[r].pc \in {"handle", "commit"}
    PROVE  /\ held[r].part \in Partitions /\ held[r].off \in 1..Len(log[held[r].part])
           /\ Current(r) = log[held[r].part][held[r].off]
           /\ Current(r).job \in Jobs /\ Current(r).attempt \in Nat /\ Attempt(r) \in Nat
           /\ EntryOf(r) = <<held[r].part, held[r].off>> /\ EntryOf(r) \in Entry
<1>1. held[r].part \in Partitions /\ held[r].off \in 1..Len(log[held[r].part])
  BY DEF TypeInv
<1>2. Current(r) \in Message
  BY <1>1 DEF TypeInv, Current
<1>3. Current(r).job \in Jobs /\ Current(r).attempt \in Nat /\ Attempt(r) \in Nat
  BY <1>2 DEF Attempt, Message
<1>4. EntryOf(r) = <<held[r].part, held[r].off>> /\ EntryOf(r) \in Entry
  BY <1>1 DEF EntryOf, Entry, TypeInv
<1> QED
  BY <1>1, <1>3, <1>4 DEF Current

(* No replica holds anything in these positions.                           *)
LEMMA NothingFacts ==
    /\ Free \in [pc: PCs, part: Partitions, off: Nat] /\ Free.pc = "fetch"
    /\ Off \in [pc: PCs, part: Partitions, off: Nat] /\ Off.pc = "off"
<1>1. (CHOOSE p \in Partitions : TRUE) \in Partitions
  OBVIOUS
<1> QED
  BY <1>1 DEF Free, Off, Nothing, PCs

(* What a type-correct step leaves of the offsets when the log only grows. *)
LEMMA OffsetsStay ==
    ASSUME TypeInv, LogGrows
    PROVE  /\ \A p \in Partitions : /\ Len(log[p]) \in Nat /\ Len(log'[p]) \in Nat
                                    /\ committed[p] <= Len(log'[p]) /\ position[p] <= Len(log'[p])
           /\ \A r \in Replicas : held[r].pc \in {"handle", "commit"} =>
                held[r].off \in 1..Len(log'[held[r].part])
<1>1. \A p \in Partitions : /\ Len(log[p]) \in Nat /\ Len(log'[p]) \in Nat
                            /\ committed[p] \in Nat /\ position[p] \in Nat
  BY DEF TypeInv, LogGrows
<1>2. \A r \in Replicas : held[r].part \in Partitions /\ held[r].off \in Nat
  BY DEF TypeInv
<1> QED
  BY <1>1, <1>2 DEF TypeInv, LogGrows

(* The log stays as it is.                                                 *)
LEMMA SameLog ==
    ASSUME TypeInv, UNCHANGED log
    PROVE  LogGrows
  BY DEF TypeInv, LogGrows

(* Steps that end a delivery.                                              *)
LEMMA ReturnedFacts ==
    ASSUME TypeInv, LogGrows, NEW r \in Replicas, held[r].pc = "handle", Returned(r)
    PROVE  /\ held' \in [Replicas -> [pc: PCs, part: Partitions, off: Nat]]
           /\ held'[r].pc = "commit" /\ held'[r].part = held[r].part /\ held'[r].off = held[r].off
           /\ \A s \in Replicas : s # r => held'[s] = held[s]
           /\ \A s \in Replicas : held'[s].pc \in {"handle", "commit"} =>
                held'[s].off \in 1..Len(log'[held'[s].part])
           /\ done' \subseteq Entry
<1>1. held[r] \in [pc: PCs, part: Partitions, off: Nat]
  BY DEF TypeInv
<1>2. held' = [held EXCEPT ![r].pc = "commit"]
  BY DEF Returned
<1>3. /\ held' \in [Replicas -> [pc: PCs, part: Partitions, off: Nat]]
      /\ held'[r].pc = "commit" /\ held'[r].part = held[r].part /\ held'[r].off = held[r].off
      /\ \A s \in Replicas : s # r => held'[s] = held[s]
  BY <1>1, <1>2 DEF TypeInv, PCs
<1>4. \A s \in Replicas : held'[s].pc \in {"handle", "commit"} =>
                held'[s].off \in 1..Len(log'[held'[s].part])
  BY <1>3, OffsetsStay
<1>5. done' \subseteq Entry
  BY CurrentFacts DEF Returned, TypeInv
<1> QED
  BY <1>3, <1>4, <1>5

(* A replica puts down what it held.                                       *)
LEMMA PutDownFacts ==
    ASSUME TypeInv, LogGrows, NEW r \in Replicas, NEW h, h \in {Free, Off},
           held' = [held EXCEPT ![r] = h]
    PROVE  /\ held' \in [Replicas -> [pc: PCs, part: Partitions, off: Nat]]
           /\ held'[r].pc \in {"fetch", "off"}
           /\ \A s \in Replicas : s # r => held'[s] = held[s]
           /\ \A s \in Replicas : held'[s].pc \in {"handle", "commit"} =>
                held'[s].off \in 1..Len(log'[held'[s].part])
<1>1. h \in [pc: PCs, part: Partitions, off: Nat] /\ h.pc \in {"fetch", "off"}
  BY NothingFacts
<1>2. /\ held' \in [Replicas -> [pc: PCs, part: Partitions, off: Nat]]
      /\ held'[r] = h
      /\ \A s \in Replicas : s # r => held'[s] = held[s]
  BY <1>1 DEF TypeInv
<1> QED
  BY <1>1, <1>2, OffsetsStay

(* Every step preserves the types.                                          *)
LEMMA TypeStep ==
    ASSUME TypeInv, [Next]_vars
    PROVE  TypeInv'
<1>1. ASSUME NEW j \in Jobs, MissWriter(j)
      PROVE  TypeInv'
  BY <1>1, SameLog, OffsetsStay DEF MissWriter, TypeInv, brokerVars
<1>2. ASSUME NEW j \in Jobs, NEW k \in Jobs, ConcurrentMapWrite(j, k)
      PROVE  TypeInv'
  BY <1>2, SameLog, OffsetsStay DEF ConcurrentMapWrite, TypeInv, brokerVars
<1>3. ASSUME NEW j \in Jobs, NEW p \in Partitions, NEW rep \in WriteReply, Enqueue(j, p, rep)
      PROVE  TypeInv'
  <2>1. LogGrows
    BY <1>3, WriteFacts DEF Enqueue
  <2>2. budget' \in 0..MaxFaults
    BY <1>3, ChargeFacts DEF Enqueue
  <2>3. excused' \subseteq Jobs
    BY <1>3 DEF Enqueue, Excuse, TypeInv
  <2> QED
    BY <1>3, <2>1, <2>2, <2>3, OffsetsStay DEF Enqueue, TypeInv, LogGrows
<1>4. ASSUME NEW r \in Replicas, Join(r)
      PROVE  TypeInv'
  <2>1. LogGrows
    BY <1>4, SameLog DEF Join, brokerVars
  <2> QED
    BY <1>4, <2>1, PutDownFacts DEF Join, TypeInv, brokerVars
<1>5. ASSUME NEW p \in Partitions, NEW r \in Replicas, Assign(p, r)
      PROVE  TypeInv'
  <2>1. budget' \in 0..MaxFaults
    BY <1>5, BudgetFacts DEF Assign
  <2>2. owner' \in [Partitions -> Replicas \cup {Nobody}]
    BY <1>5 DEF Assign, TypeInv
  <2>3. position' \in [Partitions -> Nat] /\ \A q \in Partitions : position'[q] <= Len(log[q])
    BY <1>5 DEF Assign, TypeInv
  <2> QED
    BY <1>5, <2>1, <2>2, <2>3 DEF Assign, TypeInv
<1>6. ASSUME NEW r \in Replicas, Stop(r)
      PROVE  TypeInv'
  <2>1. LogGrows
    BY <1>6, SameLog DEF Stop
  <2>2. budget' \in 0..MaxFaults
    BY <1>6, BudgetFacts DEF Stop
  <2>3. owner' \in [Partitions -> Replicas \cup {Nobody}]
    BY <1>6 DEF Stop, TypeInv
  <2> QED
    BY <1>6, <2>1, <2>2, <2>3, PutDownFacts DEF Stop, TypeInv
<1>7. ASSUME NEW r \in Replicas, NEW p \in Partitions, Fetch(r, p)
      PROVE  TypeInv'
  <2>1. position[p] \in Nat /\ Len(log[p]) \in Nat
    BY DEF TypeInv
  <2>2. /\ position' \in [Partitions -> Nat]
        /\ \A q \in Partitions : position'[q] <= Len(log[q])
    BY <1>7, <2>1 DEF Fetch, TypeInv
  <2>3. [pc |-> "handle", part |-> p, off |-> position[p] + 1] \in [pc: PCs, part: Partitions, off: Nat]
    BY <2>1 DEF PCs
  <2>4. /\ held' \in [Replicas -> [pc: PCs, part: Partitions, off: Nat]]
        /\ \A s \in Replicas : held'[s].pc \in {"handle", "commit"} =>
              held'[s].off \in 1..Len(log[held'[s].part])
    <3>1. /\ held' \in [Replicas -> [pc: PCs, part: Partitions, off: Nat]]
          /\ held'[r] = [pc |-> "handle", part |-> p, off |-> position[p] + 1]
          /\ \A s \in Replicas : s # r => held'[s] = held[s]
      BY <1>7, <2>3 DEF Fetch, TypeInv
    <3>2. position[p] + 1 \in 1..Len(log[p])
      BY <1>7, <2>1 DEF Fetch
    <3>3. held'[r].off \in 1..Len(log[held'[r].part])
      BY <3>1, <3>2
    <3>4. \A s \in Replicas : s # r /\ held[s].pc \in {"handle", "commit"} => held[s].off \in 1..Len(log[held[s].part])
      BY DEF TypeInv
    <3> QED
      BY <3>1, <3>3, <3>4
  <2> QED
    BY <1>7, <2>2, <2>4 DEF Fetch, TypeInv
<1>8. ASSUME NEW r \in Replicas, NEW rep \in WriteReply, Publish(r, rep)
      PROVE  TypeInv'
  <2>1. LogGrows
    BY <1>8, SameLog DEF Publish, brokerVars
  <2>2. budget' \in 0..MaxFaults
    BY <1>8, ChargeFacts DEF Publish
  <2>3. excused' \subseteq Jobs
    BY <1>8, CurrentFacts DEF Publish, Excuse, TypeInv
  <2>4. outcome' \in [Jobs -> Nat]
    <3>1. held[r].pc = "handle" /\ outcome' = [outcome EXCEPT ![Current(r).job] = @ + rep.copies]
      BY <1>8 DEF Publish
    <3>2. Current(r).job \in Jobs
      BY <1>8, <3>1, CurrentFacts
    <3>3. rep.copies \in Nat
      BY <1>8, ReplyFacts
    <3>4. outcome \in [Jobs -> Nat]
      BY DEF TypeInv
    <3> QED
      BY <3>1, <3>2, <3>3, <3>4
  <2>5. Returned(r) /\ held[r].pc = "handle"
    BY <1>8 DEF Publish
  <2> QED
    BY <1>8, <2>1, <2>2, <2>3, <2>4, <2>5, ReturnedFacts DEF Publish, TypeInv, brokerVars
<1>9. ASSUME NEW r \in Replicas, NEW p \in Partitions, NEW rep \in WriteReply, Requeue(r, p, rep)
      PROVE  TypeInv'
  <2>1. LogGrows
    BY <1>9, CurrentFacts, WriteFacts DEF Requeue
  <2>2. budget' \in 0..MaxFaults
    BY <1>9, ChargeFacts DEF Requeue
  <2>3. excused' \subseteq Jobs
    BY <1>9, CurrentFacts DEF Requeue, Excuse, TypeInv
  <2>4. Returned(r) /\ held[r].pc = "handle"
    BY <1>9 DEF Requeue
  <2> QED
    BY <1>9, <2>1, <2>2, <2>3, <2>4, ReturnedFacts, OffsetsStay DEF Requeue, TypeInv, LogGrows
<1>10. ASSUME NEW r \in Replicas, NEW rep \in WriteReply, DeadLetter(r, rep)
      PROVE  TypeInv'
  <2>1. LogGrows
    BY <1>10, SameLog DEF DeadLetter, brokerVars
  <2>2. budget' \in 0..MaxFaults
    BY <1>10, ChargeFacts DEF DeadLetter
  <2>3. outcome' \in [Jobs -> Nat]
    <3>1. held[r].pc = "handle" /\ outcome' = [outcome EXCEPT ![Current(r).job] = @ + rep.copies]
      BY <1>10 DEF DeadLetter
    <3>2. Current(r).job \in Jobs
      BY <1>10, <3>1, CurrentFacts
    <3>3. rep.copies \in Nat
      BY <1>10, ReplyFacts
    <3>4. outcome \in [Jobs -> Nat]
      BY DEF TypeInv
    <3> QED
      BY <3>1, <3>2, <3>3, <3>4
  <2>4. CASE rep.err
    <3>1. held' = [held EXCEPT ![r] = Free] /\ nacked' = nacked \cup {EntryOf(r)}
          /\ UNCHANGED <<done, excused>>
      BY <1>10, <2>4 DEF DeadLetter
    <3>2. nacked' \subseteq Entry
      BY <1>10, <3>1, CurrentFacts DEF DeadLetter, TypeInv
    <3> QED
      BY <1>10, <2>1, <2>2, <2>3, <3>1, <3>2, PutDownFacts DEF DeadLetter, TypeInv, brokerVars
  <2>5. CASE ~rep.err
    <3>1. Returned(r) /\ held[r].pc = "handle" /\ UNCHANGED nacked /\ Excuse(Current(r).job, rep)
      BY <1>10, <2>5 DEF DeadLetter
    <3>2. excused' \subseteq Jobs
      BY <3>1, CurrentFacts DEF Excuse, TypeInv
    <3> QED
      BY <1>10, <2>1, <2>2, <2>3, <3>1, <3>2, ReturnedFacts DEF DeadLetter, TypeInv, brokerVars
  <2> QED
    BY <2>4, <2>5
<1>11. ASSUME NEW r \in Replicas, Commit(r)
      PROVE  TypeInv'
  <2>1. LogGrows
    BY <1>11, SameLog DEF Commit
  <2>2. held[r].part \in Partitions /\ held[r].off \in 1..Len(log[held[r].part])
    BY <1>11, CurrentFacts DEF Commit
  <2>3. committed' \in [Partitions -> Nat] /\ \A q \in Partitions : committed'[q] <= Len(log[q])
    BY <1>11, <2>2 DEF Commit, TypeInv
  <2>4. held' = [held EXCEPT ![r] = Free]
    BY <1>11 DEF Commit
  <2> QED
    BY <1>11, <2>1, <2>3, <2>4, PutDownFacts DEF Commit, TypeInv
<1>12. ASSUME NEW r \in Replicas, CommitFails(r)
      PROVE  TypeInv'
  <2>1. LogGrows
    BY <1>12, SameLog DEF CommitFails, brokerVars
  <2>2. budget' \in 0..MaxFaults
    BY <1>12, BudgetFacts DEF CommitFails
  <2>3. held' = [held EXCEPT ![r] = Free]
    BY <1>12 DEF CommitFails
  <2> QED
    BY <1>12, <2>1, <2>2, <2>3, PutDownFacts DEF CommitFails, TypeInv, brokerVars
<1>13. ASSUME UNCHANGED vars
      PROVE  TypeInv'
  BY <1>13 DEF TypeInv, vars, brokerVars
<1> QED
  BY <1>1, <1>2, <1>3, <1>4, <1>5, <1>6, <1>7, <1>8, <1>9, <1>10, <1>11, <1>12, <1>13 DEF Next, Step

(* What was handled stays handled.                                         *)
LEMMA HandledStays ==
    ASSUME done \subseteq done', nacked \subseteq nacked', NEW p, NEW o, Handled(p, o)
    PROVE  Handled(p, o)'
  BY DEF Handled

(* Steps of the gateway.                                                   *)
LEMMA QuietKeepsOrder ==
    ASSUME TypeInv, OrderInv, LogGrows, UNCHANGED <<committed, owner, position, held, done, nacked>>
    PROVE  OrderInv'
<1>1. \A p, o : Handled(p, o)' <=> Handled(p, o)
  BY DEF Handled
<1>2. CommittedIsHandled'
  BY DEF OrderInv, CommittedIsHandled
<1>3. HandledOnLog'
  BY <1>1, OffsetsStay DEF OrderInv, HandledOnLog, LogGrows
<1>4. HeldOrder'
  BY <1>1 DEF OrderInv, HeldOrder
<1>5. OwnerOrder'
  BY <1>1 DEF OrderInv, OwnerOrder, Handling
<1> QED
  BY <1>2, <1>3, <1>4, <1>5 DEF OrderInv

(* A replica that ends, nacks or drops nothing it was handling.            *)
LEMMA PutDownKeepsOrder ==
    ASSUME TypeInv, TypeInv', OrderInv, CommittedIsHandled', UNCHANGED <<log, position, done, nacked>>,
           NEW r \in Replicas, held'[r].pc \in {"fetch", "off"},
           \A s \in Replicas : s # r => held'[s] = held[s],
           \A p \in Partitions : owner'[p] \in {owner[p], Nobody},
           held[r].pc = "handle" => \A p \in Partitions : owner'[p] # r
    PROVE  OrderInv'
<1>1. \A p, o : Handled(p, o)' <=> Handled(p, o)
  BY DEF Handled
<1>2. HandledOnLog'
  BY <1>1 DEF OrderInv, HandledOnLog
<1>3. HeldOrder'
  BY <1>1 DEF OrderInv, HeldOrder
<1>4. OwnerOrder'
  <2> SUFFICES ASSUME NEW p \in Partitions, owner'[p] # Nobody, NEW o \in 1..position[p]
               PROVE  Handled(p, o) \/ Handling(owner[p], p, o)'
    BY <1>1 DEF OwnerOrder, Handling
  <2>1. owner'[p] = owner[p] /\ owner[p] \in Replicas
    BY DEF TypeInv
  <2>2. Handled(p, o) \/ Handling(owner[p], p, o)
    BY <2>1 DEF OrderInv, OwnerOrder
  <2>3. CASE owner[p] = r
    BY <2>1, <2>2, <2>3 DEF Handling
  <2>4. CASE owner[p] # r
    BY <2>1, <2>2, <2>4 DEF Handling
  <2> QED
    BY <2>3, <2>4
<1> QED
  BY <1>2, <1>3, <1>4 DEF OrderInv

(* A handler that returns, with or without an error.                       *)
LEMMA ReturnKeepsOrder ==
    ASSUME TypeInv, TypeInv', OrderInv, LogGrows, UNCHANGED <<committed, owner, position>>,
           NEW r \in Replicas, held[r].pc = "handle",
           done \subseteq done', nacked \subseteq nacked',
           done' \cup nacked' = done \cup nacked \cup {EntryOf(r)},
           \A s \in Replicas : s # r => held'[s] = held[s],
           \/ held'[r].pc \in {"fetch", "off"}
           \/ held'[r].pc = "commit" /\ held'[r].part = held[r].part /\ held'[r].off = held[r].off
    PROVE  OrderInv'
<1>1. \A p, o : Handled(p, o)' <=> Handled(p, o) \/ <<p, o>> = EntryOf(r)
  BY DEF Handled
<1>2. EntryOf(r) = <<held[r].part, held[r].off>> /\ held[r].part \in Partitions
      /\ held[r].off \in 1..Len(log[held[r].part])
  BY CurrentFacts
<1>3. CommittedIsHandled'
  BY DEF OrderInv, CommittedIsHandled
<1>4. HandledOnLog'
  <2> SUFFICES ASSUME NEW p \in Partitions, NEW o \in Nat, Handled(p, o)'
               PROVE  o <= Len(log'[p])
    BY DEF HandledOnLog
  <2>1. o <= Len(log[p])
    <3>1. CASE Handled(p, o)
      BY <3>1 DEF OrderInv, HandledOnLog
    <3>2. CASE <<p, o>> = EntryOf(r)
      BY <1>2, <3>2
    <3> QED
      BY <1>1, <3>1, <3>2
  <2> QED
    BY <2>1, OffsetsStay DEF LogGrows
<1>5. HeldOrder'
  <2> SUFFICES ASSUME NEW s \in Replicas, held'[s].pc \in {"handle", "commit"}, NEW o \in 1..held'[s].off
               PROVE  Handled(held[s].part, o)' \/ (o = held'[s].off /\ held'[s].pc = "handle")
    BY DEF HeldOrder
  <2>1. CASE s # r
    BY <1>1, <2>1 DEF OrderInv, HeldOrder
  <2>2. CASE s = r
    <3>1. held'[r].part = held[r].part /\ held'[r].off = held[r].off
      BY <2>2
    <3>2. Handled(held[r].part, o) \/ o = held[r].off
      BY <2>2, <3>1 DEF OrderInv, HeldOrder
    <3> QED
      BY <1>1, <1>2, <2>2, <3>1, <3>2
  <2> QED
    BY <2>1, <2>2
<1>6. OwnerOrder'
  <2> SUFFICES ASSUME NEW p \in Partitions, owner[p] # Nobody, NEW o \in 1..position[p]
               PROVE  Handled(p, o)' \/ Handling(owner[p], p, o)'
    BY DEF OwnerOrder, Handling
  <2>1. owner[p] \in Replicas
    BY DEF TypeInv
  <2>2. Handled(p, o) \/ Handling(owner[p], p, o)
    BY DEF OrderInv, OwnerOrder
  <2>3. CASE owner[p] = r
    BY <1>1, <1>2, <2>2, <2>3 DEF Handling
  <2>4. CASE owner[p] # r
    BY <1>1, <2>1, <2>2, <2>4 DEF Handling
  <2> QED
    BY <2>3, <2>4
<1> QED
  BY <1>3, <1>4, <1>5, <1>6 DEF OrderInv

(* A partition is given to a replica.                                      *)
LEMMA AssignKeepsOrder ==
    ASSUME TypeInv, OrderInv, NEW p \in Partitions, NEW r \in Replicas, Assign(p, r)
    PROVE  OrderInv'
<1>1. \A q, o : Handled(q, o)' <=> Handled(q, o)
  BY DEF Assign, Handled
<1>2. CommittedIsHandled'
  BY DEF Assign, OrderInv, CommittedIsHandled
<1>3. HandledOnLog'
  BY <1>1 DEF Assign, OrderInv, HandledOnLog
<1>4. HeldOrder'
  BY <1>1 DEF Assign, OrderInv, HeldOrder
<1>5. OwnerOrder'
  <2> SUFFICES ASSUME NEW q \in Partitions, owner'[q] # Nobody, NEW o \in 1..position'[q]
               PROVE  Handled(q, o) \/ Handling(owner'[q], q, o)
    BY <1>1 DEF OwnerOrder, Handling, Assign
  <2>1. CASE q = p
    <3>1. position'[q] = committed[q]
      BY <2>1 DEF Assign, TypeInv
    <3> QED
      BY <3>1 DEF OrderInv, CommittedIsHandled, Handled
  <2>2. CASE q # p
    <3>1. position'[q] = position[q] /\ owner'[q] = owner[q]
      BY <2>2 DEF Assign, TypeInv
    <3> QED
      BY <3>1 DEF OrderInv, OwnerOrder
  <2> QED
    BY <2>1, <2>2
<1> QED
  BY <1>2, <1>3, <1>4, <1>5 DEF OrderInv

(* A message is fetched: what came before it was handled.                  *)
LEMMA FetchKeepsOrder ==
    ASSUME TypeInv, OrderInv, NEW r \in Replicas, NEW p \in Partitions, Fetch(r, p)
    PROVE  OrderInv'
<1>1. \A q, o : Handled(q, o)' <=> Handled(q, o)
  BY DEF Fetch, Handled
<1>2. CommittedIsHandled'
  BY DEF Fetch, OrderInv, CommittedIsHandled
<1>3. HandledOnLog'
  BY <1>1 DEF Fetch, OrderInv, HandledOnLog
<1>4. /\ position[p] \in Nat
      /\ position'[p] = position[p] + 1
      /\ \A q \in Partitions : q # p => position'[q] = position[q]
      /\ held'[r] = [pc |-> "handle", part |-> p, off |-> position[p] + 1]
      /\ \A s \in Replicas : s # r => held'[s] = held[s]
  BY DEF Fetch, TypeInv
<1>5. r # Nobody /\ owner' = owner /\ owner[p] = r /\ held[r].pc = "fetch"
  BY DEF Fetch
<1>6. \A o \in 1..position[p] : Handled(p, o)
  BY <1>5 DEF OrderInv, OwnerOrder, Handling
<1>7. HeldOrder'
  <2> SUFFICES ASSUME NEW s \in Replicas, held'[s].pc \in {"handle", "commit"}, NEW o \in 1..held'[s].off
               PROVE  Handled(held'[s].part, o) \/ (o = held'[s].off /\ held'[s].pc = "handle")
    BY <1>1 DEF HeldOrder
  <2>1. CASE s # r
    BY <1>4, <2>1 DEF OrderInv, HeldOrder
  <2>2. CASE s = r
    BY <1>4, <1>6, <2>2
  <2> QED
    BY <2>1, <2>2
<1>8. OwnerOrder'
  <2> SUFFICES ASSUME NEW q \in Partitions, owner[q] # Nobody, NEW o \in 1..position'[q]
               PROVE  Handled(q, o) \/ Handling(owner[q], q, o)'
    BY <1>1 DEF OwnerOrder, Handling, Fetch
  <2>1. CASE q = p
    <3>1. CASE o = position[p] + 1
      BY <1>4, <1>5, <2>1, <3>1 DEF Handling
    <3>2. CASE o # position[p] + 1
      BY <1>4, <1>6, <2>1, <3>2
    <3> QED
      BY <3>1, <3>2
  <2>2. CASE q # p
    <3>1. Handled(q, o) \/ Handling(owner[q], q, o)
      BY <1>4, <2>2 DEF OrderInv, OwnerOrder
    <3>2. owner[q] \in Replicas
      BY DEF TypeInv
    <3> QED
      BY <1>4, <1>5, <3>1, <3>2 DEF Handling
  <2> QED
    BY <2>1, <2>2
<1> QED
  BY <1>2, <1>3, <1>7, <1>8 DEF OrderInv

(* Every step preserves the order of handling.                             *)
LEMMA OrderStep ==
    ASSUME TypeInv, TypeInv', OrderInv, [Next]_vars
    PROVE  OrderInv'
<1>1. ASSUME NEW j \in Jobs, MissWriter(j)
      PROVE  OrderInv'
  <2>1. LogGrows
    BY <1>1, SameLog DEF MissWriter, brokerVars
  <2> QED
    BY <1>1, <2>1, QuietKeepsOrder DEF MissWriter, brokerVars
<1>2. ASSUME NEW j \in Jobs, NEW k \in Jobs, ConcurrentMapWrite(j, k)
      PROVE  OrderInv'
  <2>1. LogGrows
    BY <1>2, SameLog DEF ConcurrentMapWrite, brokerVars
  <2> QED
    BY <1>2, <2>1, QuietKeepsOrder DEF ConcurrentMapWrite, brokerVars
<1>3. ASSUME NEW j \in Jobs, NEW p \in Partitions, NEW rep \in WriteReply, Enqueue(j, p, rep)
      PROVE  OrderInv'
  <2>1. LogGrows
    BY <1>3, WriteFacts DEF Enqueue
  <2> QED
    BY <1>3, <2>1, QuietKeepsOrder DEF Enqueue
<1>4. ASSUME NEW r \in Replicas, Join(r)
      PROVE  OrderInv'
  <2>1. LogGrows
    BY <1>4, SameLog DEF Join, brokerVars
  <2>2. held'[r].pc \in {"fetch", "off"} /\ \A s \in Replicas : s # r => held'[s] = held[s]
    BY <1>4, <2>1, PutDownFacts DEF Join
  <2>3. CommittedIsHandled'
    BY <1>4 DEF Join, OrderInv, CommittedIsHandled, brokerVars
  <2>4. /\ \A p \in Partitions : owner'[p] \in {owner[p], Nobody}
        /\ held[r].pc = "handle" => \A p \in Partitions : owner'[p] # r
    BY <1>4 DEF Join, TypeInv, brokerVars
  <2> QED
    BY <1>4, <2>2, <2>3, <2>4, PutDownKeepsOrder DEF Join, brokerVars
<1>5. ASSUME NEW p \in Partitions, NEW r \in Replicas, Assign(p, r)
      PROVE  OrderInv'
  BY <1>5, AssignKeepsOrder
<1>6. ASSUME NEW r \in Replicas, Stop(r)
      PROVE  OrderInv'
  <2>1. LogGrows
    BY <1>6, SameLog DEF Stop, brokerVars
  <2>2. held'[r].pc \in {"fetch", "off"} /\ \A s \in Replicas : s # r => held'[s] = held[s]
    BY <1>6, <2>1, PutDownFacts DEF Stop
  <2>3. CommittedIsHandled'
    BY <1>6 DEF Stop, OrderInv, CommittedIsHandled, brokerVars
  <2>4. /\ \A p \in Partitions : owner'[p] \in {owner[p], Nobody}
        /\ held[r].pc = "handle" => \A p \in Partitions : owner'[p] # r
    BY <1>6 DEF Stop, TypeInv, brokerVars
  <2> QED
    BY <1>6, <2>2, <2>3, <2>4, PutDownKeepsOrder DEF Stop, brokerVars
<1>7. ASSUME NEW r \in Replicas, NEW p \in Partitions, Fetch(r, p)
      PROVE  OrderInv'
  BY <1>7, FetchKeepsOrder
<1>8. ASSUME NEW r \in Replicas, NEW rep \in WriteReply, Publish(r, rep)
      PROVE  OrderInv'
  <2>1. LogGrows
    BY <1>8, SameLog DEF Publish, brokerVars
  <2>2. Returned(r) /\ held[r].pc = "handle" /\ UNCHANGED <<committed, owner, position, nacked>>
    BY <1>8 DEF Publish, brokerVars
  <2>3. done' = done \cup {EntryOf(r)}
    BY <2>2 DEF Returned
  <2> QED
    BY <2>1, <2>2, <2>3, ReturnedFacts, ReturnKeepsOrder
<1>9. ASSUME NEW r \in Replicas, NEW p \in Partitions, NEW rep \in WriteReply, Requeue(r, p, rep)
      PROVE  OrderInv'
  <2>1. LogGrows
    BY <1>9, CurrentFacts, WriteFacts DEF Requeue
  <2>2. Returned(r) /\ held[r].pc = "handle" /\ UNCHANGED <<committed, owner, position, nacked>>
    BY <1>9 DEF Requeue, brokerVars
  <2>3. done' = done \cup {EntryOf(r)}
    BY <2>2 DEF Returned
  <2> QED
    BY <2>1, <2>2, <2>3, ReturnedFacts, ReturnKeepsOrder
<1>10. ASSUME NEW r \in Replicas, NEW rep \in WriteReply, DeadLetter(r, rep)
      PROVE  OrderInv'
  <2>1. LogGrows
    BY <1>10, SameLog DEF DeadLetter, brokerVars
  <2>2. held[r].pc = "handle" /\ UNCHANGED <<committed, owner, position>>
    BY <1>10 DEF DeadLetter, brokerVars
  <2>3. CASE rep.err
    <3>1. held' = [held EXCEPT ![r] = Free] /\ nacked' = nacked \cup {EntryOf(r)} /\ done' = done
      BY <1>10, <2>3 DEF DeadLetter
    <3>2. held'[r].pc \in {"fetch", "off"} /\ \A s \in Replicas : s # r => held'[s] = held[s]
      BY <1>10, <2>1, <3>1, PutDownFacts
    <3>3. nacked \subseteq nacked' /\ done' \cup nacked' = done \cup nacked \cup {EntryOf(r)}
      BY <3>1
    <3> QED
      BY <1>10, <2>1, <2>2, <3>1, <3>2, <3>3, ReturnKeepsOrder
  <2>4. CASE ~rep.err
    <3>1. Returned(r) /\ nacked' = nacked
      BY <1>10, <2>4 DEF DeadLetter
    <3>2. done' = done \cup {EntryOf(r)}
      BY <3>1 DEF Returned
    <3> QED
      BY <2>1, <2>2, <3>1, <3>2, ReturnedFacts, ReturnKeepsOrder
  <2> QED
    BY <2>3, <2>4
<1>11. ASSUME NEW r \in Replicas, Commit(r)
      PROVE  OrderInv'
  <2>1. LogGrows
    BY <1>11, SameLog DEF Commit, brokerVars
  <2>2. held'[r].pc \in {"fetch", "off"} /\ \A s \in Replicas : s # r => held'[s] = held[s]
    BY <1>11, <2>1, PutDownFacts DEF Commit
  <2>3. CommittedIsHandled'
    <3>1. held[r].pc = "commit" /\ held[r].part \in Partitions
      BY <1>11, CurrentFacts DEF Commit
    <3>2. \A q \in Partitions : committed'[q] = IF q = held[r].part THEN held[r].off ELSE committed[q]
      BY <1>11, <3>1 DEF Commit, TypeInv
    <3>3. UNCHANGED <<done, nacked>>
      BY <1>11 DEF Commit
    <3>4. \A u \in 1..held[r].off : Handled(held[r].part, u)
      BY <3>1 DEF OrderInv, HeldOrder
    <3> QED
      BY <3>2, <3>3, <3>4 DEF OrderInv, CommittedIsHandled, Handled
  <2>4. /\ \A p \in Partitions : owner'[p] \in {owner[p], Nobody}
        /\ held[r].pc = "handle" => \A p \in Partitions : owner'[p] # r
    BY <1>11 DEF Commit, TypeInv, brokerVars
  <2> QED
    BY <1>11, <2>2, <2>3, <2>4, PutDownKeepsOrder DEF Commit, brokerVars
<1>12. ASSUME NEW r \in Replicas, CommitFails(r)
      PROVE  OrderInv'
  <2>1. LogGrows
    BY <1>12, SameLog DEF CommitFails, brokerVars
  <2>2. held'[r].pc \in {"fetch", "off"} /\ \A s \in Replicas : s # r => held'[s] = held[s]
    BY <1>12, <2>1, PutDownFacts DEF CommitFails
  <2>3. CommittedIsHandled'
    BY <1>12 DEF CommitFails, OrderInv, CommittedIsHandled, brokerVars
  <2>4. /\ \A p \in Partitions : owner'[p] \in {owner[p], Nobody}
        /\ held[r].pc = "handle" => \A p \in Partitions : owner'[p] # r
    BY <1>12 DEF CommitFails, TypeInv, brokerVars
  <2> QED
    BY <1>12, <2>2, <2>3, <2>4, PutDownKeepsOrder DEF CommitFails, brokerVars
<1>13. ASSUME UNCHANGED vars
      PROVE  OrderInv'
  <2>1. LogGrows
    BY <1>13, SameLog DEF vars, brokerVars
  <2> QED
    BY <1>13, <2>1, QuietKeepsOrder DEF vars, brokerVars
<1> QED
  BY <1>1, <1>2, <1>3, <1>4, <1>5, <1>6, <1>7, <1>8, <1>9, <1>10, <1>11, <1>12, <1>13 DEF Next, Step

(* A job keeps waiting while none of its entries is newly finished.        *)
LEMMA WaitingStays ==
    ASSUME TypeInv, LogGrows, NEW j \in Jobs, Waiting(j),
           \A p \in Partitions : \A o \in 1..Len(log[p]) :
              log[p][o].job = j /\ <<p, o>> \in done' => <<p, o>> \in done
    PROVE  Waiting(j)'
<1>1. PICK p \in Partitions : \E u \in 1..Len(log[p]) : log[p][u].job = j /\ <<p, u>> \notin done
  BY DEF Waiting
<1>4. PICK o \in 1..Len(log[p]) : log[p][o].job = j /\ <<p, o>> \notin done
  BY <1>1
<1>2. Len(log[p]) \in Nat /\ Len(log'[p]) \in Nat
  BY DEF TypeInv, LogGrows
<1>3. o \in 1..Len(log'[p]) /\ log'[p][o] = log[p][o]
  BY <1>2 DEF LogGrows
<1> QED
  BY <1>3, <1>4 DEF Waiting

(* Steps that finish no entry keep each accepted job as it was.            *)
LEMMA QuietKeepsLoss ==
    ASSUME TypeInv, LossInv, LogGrows, done' = done, excused \subseteq excused',
           NEW j \in Jobs, response[j] = "accepted", outcome[j] > 0 => outcome'[j] > 0
    PROVE  (outcome[j] > 0 \/ j \in excused \/ Waiting(j))'
<1>1. CASE Waiting(j)
  BY <1>1, WaitingStays
<1>2. CASE ~Waiting(j)
  BY <1>2 DEF LossInv
<1> QED
  BY <1>1, <1>2

(* The end of a delivery keeps the jobs it is not about.                   *)
LEMMA OthersKeep ==
    ASSUME TypeInv, LossInv, LogGrows,
           NEW r \in Replicas, done' \subseteq done \cup {EntryOf(r)}, excused \subseteq excused',
           NEW j \in Jobs, response[j] = "accepted", j # Current(r).job, outcome'[j] = outcome[j]
    PROVE  (outcome[j] > 0 \/ j \in excused \/ Waiting(j))'
<1>1. \A p, o : <<p, o>> \in done' => <<p, o>> \in done \/ <<p, o>> = <<held[r].part, held[r].off>>
  BY DEF EntryOf
<1>2. Current(r) = log[held[r].part][held[r].off]
  BY DEF Current
<1>3. CASE Waiting(j)
  <2>1. \A p \in Partitions : \A o \in 1..Len(log[p]) :
              log[p][o].job = j /\ <<p, o>> \in done' => <<p, o>> \in done
    BY <1>1, <1>2
  <2> QED
    BY <1>3, <2>1, WaitingStays
<1>4. CASE ~Waiting(j)
  BY <1>4 DEF LossInv
<1> QED
  BY <1>3, <1>4

(* Every step leaves each accepted job settled, excused or waiting.        *)
LEMMA LossStep ==
    ASSUME TypeInv, OrderInv, LossInv, [Next]_vars
    PROVE  LossInv'
<1>1. ASSUME NEW j \in Jobs, MissWriter(j)
      PROVE  LossInv'
  <2> SUFFICES ASSUME NEW x \in Jobs, response'[x] = "accepted"
               PROVE  (outcome[x] > 0 \/ x \in excused \/ Waiting(x))'
    BY DEF LossInv
  <2>1. LogGrows
    BY <1>1, SameLog DEF MissWriter, brokerVars
  <2>2. response[x] = "accepted"
    BY <1>1 DEF MissWriter, TypeInv
  <2> QED
    BY <1>1, <2>1, <2>2, QuietKeepsLoss DEF MissWriter
<1>2. ASSUME NEW j \in Jobs, NEW k \in Jobs, ConcurrentMapWrite(j, k)
      PROVE  LossInv'
  <2> SUFFICES ASSUME NEW x \in Jobs, response'[x] = "accepted"
               PROVE  (outcome[x] > 0 \/ x \in excused \/ Waiting(x))'
    BY DEF LossInv
  <2>1. LogGrows
    BY <1>2, SameLog DEF ConcurrentMapWrite, brokerVars
  <2>2. response[x] = "accepted"
    BY <1>2 DEF ConcurrentMapWrite, TypeInv
  <2> QED
    BY <1>2, <2>1, <2>2, QuietKeepsLoss DEF ConcurrentMapWrite
<1>3. ASSUME NEW j \in Jobs, NEW p \in Partitions, NEW rep \in WriteReply, Enqueue(j, p, rep)
      PROVE  LossInv'
  <2> SUFFICES ASSUME NEW x \in Jobs, response'[x] = "accepted"
               PROVE  (outcome[x] > 0 \/ x \in excused \/ Waiting(x))'
    BY DEF LossInv
  <2>1. LogGrows
    BY <1>3, WriteFacts DEF Enqueue
  <2>2. excused \subseteq excused' /\ UNCHANGED <<outcome, done, nacked>>
    BY <1>3 DEF Enqueue, Excuse
  <2>3. CASE x # j
    <3>1. response[x] = "accepted"
      BY <1>3, <2>3 DEF Enqueue, TypeInv
    <3> QED
      BY <2>1, <2>2, <3>1, QuietKeepsLoss
  <2>4. CASE x = j /\ rep.copies = 0
    BY <1>3, <2>4 DEF Enqueue, Excuse
  <2>5. CASE x = j /\ rep.copies > 0
    <3>1. PICK n \in Nat : n = Len(log[p]) + 1
      BY DEF TypeInv
    <3>2. n \in 1..Len(log'[p]) /\ log'[p][n].job = j
      BY <1>3, <2>5, <3>1, WriteFacts DEF Enqueue
    <3>3. <<p, n>> \notin done'
      BY <2>2, <3>1 DEF OrderInv, HandledOnLog, Handled, TypeInv
    <3> QED
      BY <2>5, <3>2, <3>3 DEF Waiting
  <2> QED
    BY <2>3, <2>4, <2>5, ReplyFacts
<1>4. ASSUME NEW r \in Replicas, Join(r)
      PROVE  LossInv'
  <2> SUFFICES ASSUME NEW x \in Jobs, response'[x] = "accepted"
               PROVE  (outcome[x] > 0 \/ x \in excused \/ Waiting(x))'
    BY DEF LossInv
  <2>1. LogGrows
    BY <1>4, SameLog DEF Join, brokerVars
  <2>2. response[x] = "accepted"
    BY <1>4 DEF Join, TypeInv
  <2> QED
    BY <1>4, <2>1, <2>2, QuietKeepsLoss DEF Join
<1>5. ASSUME NEW p \in Partitions, NEW r \in Replicas, Assign(p, r)
      PROVE  LossInv'
  <2> SUFFICES ASSUME NEW x \in Jobs, response'[x] = "accepted"
               PROVE  (outcome[x] > 0 \/ x \in excused \/ Waiting(x))'
    BY DEF LossInv
  <2>1. LogGrows
    BY <1>5, SameLog DEF Assign, brokerVars
  <2>2. response[x] = "accepted"
    BY <1>5 DEF Assign, TypeInv
  <2> QED
    BY <1>5, <2>1, <2>2, QuietKeepsLoss DEF Assign
<1>6. ASSUME NEW r \in Replicas, Stop(r)
      PROVE  LossInv'
  <2> SUFFICES ASSUME NEW x \in Jobs, response'[x] = "accepted"
               PROVE  (outcome[x] > 0 \/ x \in excused \/ Waiting(x))'
    BY DEF LossInv
  <2>1. LogGrows
    BY <1>6, SameLog DEF Stop, brokerVars
  <2>2. response[x] = "accepted"
    BY <1>6 DEF Stop, TypeInv
  <2> QED
    BY <1>6, <2>1, <2>2, QuietKeepsLoss DEF Stop
<1>7. ASSUME NEW r \in Replicas, NEW p \in Partitions, Fetch(r, p)
      PROVE  LossInv'
  <2> SUFFICES ASSUME NEW x \in Jobs, response'[x] = "accepted"
               PROVE  (outcome[x] > 0 \/ x \in excused \/ Waiting(x))'
    BY DEF LossInv
  <2>1. LogGrows
    BY <1>7, SameLog DEF Fetch, brokerVars
  <2>2. response[x] = "accepted"
    BY <1>7 DEF Fetch, TypeInv
  <2> QED
    BY <1>7, <2>1, <2>2, QuietKeepsLoss DEF Fetch
<1>8. ASSUME NEW r \in Replicas, NEW rep \in WriteReply, Publish(r, rep)
      PROVE  LossInv'
  <2> SUFFICES ASSUME NEW x \in Jobs, response'[x] = "accepted"
               PROVE  (outcome[x] > 0 \/ x \in excused \/ Waiting(x))'
    BY DEF LossInv
  <2>1. LogGrows
    BY <1>8, SameLog DEF Publish, brokerVars
  <2>2. held[r].pc = "handle" /\ response' = response
    BY <1>8 DEF Publish
  <2>3. excused \subseteq excused' /\ done' \subseteq done \cup {EntryOf(r)}
    BY <1>8 DEF Publish, Excuse, Returned
  <2>4. CASE x # Current(r).job
    <3>1. outcome'[x] = outcome[x]
      BY <1>8, <2>4 DEF Publish, TypeInv
    <3> QED
      BY <2>1, <2>2, <2>3, <2>4, <3>1, OthersKeep
  <2>5. CASE x = Current(r).job /\ rep.copies = 0
    BY <1>8, <2>5 DEF Publish, Excuse
  <2>6. CASE x = Current(r).job /\ rep.copies > 0
    <3>1. outcome \in [Jobs -> Nat]
      BY DEF TypeInv
    <3>4. rep.copies \in Nat
      BY <1>8, ReplyFacts
    <3>2. outcome' = [outcome EXCEPT ![x] = @ + rep.copies]
      BY <1>8, <2>6 DEF Publish
    <3>3. outcome'[x] > 0
      BY <2>6, <3>1, <3>2, <3>4
    <3> QED
      BY <3>3
  <2> QED
    BY <2>4, <2>5, <2>6, ReplyFacts
<1>9. ASSUME NEW r \in Replicas, NEW p \in Partitions, NEW rep \in WriteReply, Requeue(r, p, rep)
      PROVE  LossInv'
  <2> SUFFICES ASSUME NEW x \in Jobs, response'[x] = "accepted"
               PROVE  (outcome[x] > 0 \/ x \in excused \/ Waiting(x))'
    BY DEF LossInv
  <2>1. LogGrows
    BY <1>9, CurrentFacts, WriteFacts DEF Requeue
  <2>2. held[r].pc = "handle" /\ response' = response
    BY <1>9 DEF Requeue
  <2>3. excused \subseteq excused' /\ done' \subseteq done \cup {EntryOf(r)}
    BY <1>9 DEF Requeue, Excuse, Returned
  <2>4. CASE x # Current(r).job
    <3>1. outcome'[x] = outcome[x]
      BY <1>9, <2>4 DEF Requeue, TypeInv
    <3> QED
      BY <2>1, <2>2, <2>3, <2>4, <3>1, OthersKeep
  <2>5. CASE x = Current(r).job /\ rep.copies = 0
    BY <1>9, <2>5 DEF Requeue, Excuse
  <2>6. CASE x = Current(r).job /\ rep.copies > 0
    <3>1. PICK n \in Nat : n = Len(log[p]) + 1
      BY DEF TypeInv
    <3>2. n \in 1..Len(log'[p]) /\ log'[p][n].job = x
      BY <1>9, <2>6, <3>1, CurrentFacts, WriteFacts DEF Requeue
    <3>3. <<p, n>> \notin done'
      <4>1. <<p, n>> \notin done /\ Len(log[p]) \in Nat
        BY <3>1 DEF OrderInv, HandledOnLog, Handled, TypeInv
      <4>2. EntryOf(r) # <<p, n>>
        BY <2>2, <3>1, <4>1, CurrentFacts
      <4> QED
        BY <2>3, <4>1, <4>2
    <3> QED
      BY <3>2, <3>3 DEF Waiting
  <2> QED
    BY <2>4, <2>5, <2>6, ReplyFacts
<1>10. ASSUME NEW r \in Replicas, NEW rep \in WriteReply, DeadLetter(r, rep)
      PROVE  LossInv'
  <2> SUFFICES ASSUME NEW x \in Jobs, response'[x] = "accepted"
               PROVE  (outcome[x] > 0 \/ x \in excused \/ Waiting(x))'
    BY DEF LossInv
  <2>1. LogGrows
    BY <1>10, SameLog DEF DeadLetter, brokerVars
  <2>2. held[r].pc = "handle" /\ response' = response
    BY <1>10 DEF DeadLetter
  <2>3. excused \subseteq excused' /\ done' \subseteq done \cup {EntryOf(r)}
    BY <1>10 DEF DeadLetter, Excuse, Returned
  <2>4. CASE x # Current(r).job
    <3>1. outcome'[x] = outcome[x]
      BY <1>10, <2>4 DEF DeadLetter, TypeInv
    <3> QED
      BY <2>1, <2>2, <2>3, <2>4, <3>1, OthersKeep
  <2>5. CASE x = Current(r).job /\ ~rep.err /\ rep.copies = 0
    BY <1>10, <2>5 DEF DeadLetter, Excuse
  <2>6. CASE x = Current(r).job /\ ~rep.err /\ rep.copies > 0
    <3>1. outcome \in [Jobs -> Nat]
      BY DEF TypeInv
    <3>4. rep.copies \in Nat
      BY <1>10, ReplyFacts
    <3>2. outcome' = [outcome EXCEPT ![x] = @ + rep.copies]
      BY <1>10, <2>6 DEF DeadLetter
    <3>3. outcome'[x] > 0
      BY <2>6, <3>1, <3>2, <3>4
    <3> QED
      BY <3>3
  <2>7. CASE x = Current(r).job /\ rep.err
    <3>1. done' = done /\ response[x] = "accepted"
      BY <1>10, <2>2, <2>7 DEF DeadLetter
    <3>2. outcome \in [Jobs -> Nat]
      BY DEF TypeInv
    <3>4. rep.copies \in Nat
      BY <1>10, ReplyFacts
    <3>5. outcome' = [outcome EXCEPT ![x] = @ + rep.copies]
      BY <1>10, <2>7 DEF DeadLetter
    <3>3. outcome[x] > 0 => outcome'[x] > 0
      BY <3>2, <3>4, <3>5
    <3> QED
      BY <2>1, <2>3, <3>1, <3>3, QuietKeepsLoss
  <2> QED
    BY <2>4, <2>5, <2>6, <2>7, ReplyFacts
<1>11. ASSUME NEW r \in Replicas, Commit(r)
      PROVE  LossInv'
  <2> SUFFICES ASSUME NEW x \in Jobs, response'[x] = "accepted"
               PROVE  (outcome[x] > 0 \/ x \in excused \/ Waiting(x))'
    BY DEF LossInv
  <2>1. LogGrows
    BY <1>11, SameLog DEF Commit, brokerVars
  <2>2. response[x] = "accepted"
    BY <1>11 DEF Commit, TypeInv
  <2> QED
    BY <1>11, <2>1, <2>2, QuietKeepsLoss DEF Commit
<1>12. ASSUME NEW r \in Replicas, CommitFails(r)
      PROVE  LossInv'
  <2> SUFFICES ASSUME NEW x \in Jobs, response'[x] = "accepted"
               PROVE  (outcome[x] > 0 \/ x \in excused \/ Waiting(x))'
    BY DEF LossInv
  <2>1. LogGrows
    BY <1>12, SameLog DEF CommitFails, brokerVars
  <2>2. response[x] = "accepted"
    BY <1>12 DEF CommitFails, TypeInv
  <2> QED
    BY <1>12, <2>1, <2>2, QuietKeepsLoss DEF CommitFails
<1>13. ASSUME UNCHANGED vars
      PROVE  LossInv'
  <2> SUFFICES ASSUME NEW x \in Jobs, response'[x] = "accepted"
               PROVE  (outcome[x] > 0 \/ x \in excused \/ Waiting(x))'
    BY DEF LossInv
  <2>1. LogGrows
    BY <1>13, SameLog DEF vars, brokerVars
  <2>2. response[x] = "accepted"
    BY <1>13 DEF vars
  <2> QED
    BY <1>13, <2>1, <2>2, QuietKeepsLoss DEF vars
<1> QED
  BY <1>1, <1>2, <1>3, <1>4, <1>5, <1>6, <1>7, <1>8, <1>9, <1>10, <1>11, <1>12, <1>13 DEF Next, Step

----------------------------------------------------------------------------
(* The initial states satisfy the invariant.                               *)
LEMMA InitInv == Init => IInv
<1> SUFFICES ASSUME Init
             PROVE  IInv
  OBVIOUS
<1>1. TypeInv
  <2>1. \A p \in Partitions : committed[p] <= Len(log[p]) /\ position[p] <= Len(log[p])
    BY DEF Init
  <2>2. log \in [Partitions -> Seq(Message)]
    BY DEF Init
  <2>3. committed \in [Partitions -> Nat] /\ position \in [Partitions -> Nat]
    BY DEF Init
  <2>4. /\ held \in [Replicas -> [pc: PCs, part: Partitions, off: Nat]]
        /\ \A r \in Replicas : held[r].pc = "off"
    BY NothingFacts DEF Init
  <2>5. /\ owner \in [Partitions -> Replicas \cup {Nobody}]
        /\ response \in [Jobs -> {"none", "missed", "accepted", "unavailable", "reset"}]
        /\ outcome \in [Jobs -> Nat]
    BY DEF Init
  <2>6. /\ writer \in BOOLEAN /\ done \subseteq Entry /\ nacked \subseteq Entry
        /\ excused \subseteq Jobs
    BY DEF Init
  <2>7. budget \in 0..MaxFaults
    BY DEF Init
  <2> QED
    BY <2>1, <2>2, <2>3, <2>4, <2>5, <2>6, <2>7 DEF TypeInv
<1>2. OrderInv
  BY <1>1, NothingFacts DEF Init, OrderInv, CommittedIsHandled, HandledOnLog, HeldOrder, OwnerOrder, Handled
<1>3. LossInv
  BY DEF Init, LossInv
<1> QED
  BY <1>1, <1>2, <1>3 DEF IInv

(* IInv is inductive: whatever is lost, repeated, moved or stopped, the    *)
(* offsets, the handled entries and the accepted jobs stay in step.        *)
THEOREM Invariance == Spec => []IInv
<1>1. IInv /\ [Next]_vars => IInv'
  <2> SUFFICES ASSUME IInv, [Next]_vars
               PROVE  IInv'
    OBVIOUS
  <2>1. TypeInv'
    BY TypeStep DEF IInv
  <2> QED
    BY <2>1, OrderStep, LossStep DEF IInv
<1> QED
  BY <1>1, InitInv, PTL DEF Spec

(* Kafka.Consume: the committed offset never passes an unhandled entry.    *)
THEOREM CommitsAreHandled == Spec => []CommittedIsHandled
<1>1. IInv => CommittedIsHandled
  BY DEF IInv, OrderInv
<1> QED
  BY <1>1, Invariance, PTL

(* SubmitJob's 202: a job is lost by an unacknowledged or logged write, or *)
(* on an entry whose dead letter failed and which was never handled again, *)
(* and in no other way.                                                    *)
THEOREM NothingElseIsLost == Spec => []NoSilentLoss
<1>1. IInv => NoSilentLoss
  <2> SUFFICES ASSUME IInv, NEW j \in Jobs, response[j] = "accepted", Waiting(j)
               PROVE  \E p \in Partitions : \E o \in 1..Len(log[p]) :
                         /\ log[p][o].job = j
                         /\ <<p, o>> \notin done
                         /\ o > committed[p] \/ <<p, o>> \in nacked
    BY DEF IInv, LossInv, NoSilentLoss
  <2>1. PICK p \in Partitions : \E u \in 1..Len(log[p]) : log[p][u].job = j /\ <<p, u>> \notin done
    BY DEF Waiting
  <2>2. PICK o \in 1..Len(log[p]) : log[p][o].job = j /\ <<p, o>> \notin done
    BY <2>1
  <2>3. committed[p] \in Nat /\ Len(log[p]) \in Nat
    BY DEF IInv, TypeInv
  <2>4. o \in 1..committed[p] => <<p, o>> \in nacked
    BY <2>2 DEF IInv, OrderInv, CommittedIsHandled
  <2>5. o > committed[p] \/ <<p, o>> \in nacked
    BY <2>3, <2>4
  <2> QED
    BY <2>2, <2>5
<1> QED
  BY <1>1, Invariance, PTL

(* The types of the broker's and the replicas' state.                      *)
THEOREM TypeCorrect == Spec => []TypeOK
<1>1. IInv => TypeOK
  BY DEF IInv, TypeInv, TypeOK, Message, PCs
<1> QED
  BY <1>1, Invariance, PTL
=============================================================================
