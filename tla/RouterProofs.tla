---------------------------- MODULE RouterProofs ----------------------------
(***************************************************************************)
(* Proofs about Router for every set of workers and of concurrent calls,   *)
(* all requests, latencies and time constants.  The workers' timing        *)
(* (LoopInv, ExpiryInv, HealthInv) and the scan of a call (ScanInv) are    *)
(* independent of each other.                                              *)
(***************************************************************************)
EXTENDS Router, TLAPS

USE TimesAssumption, LatenciesAssumption, WorkersAssumption

Pointers == UNION {[S -> Record] : S \in SUBSET Workers}
Scores == UNION {[S -> Int] : S \in SUBSET Workers}

CallType == [pc: {"idle", "routing", "forwarded", "answered"}, req: Requests \cup {NoRequest},
             ptr: Pointers, scores: Scores, worker: Workers \cup {NoWorker}, age: 0..CallTimeout]

TypeInv ==
    /\ reg \in [Workers -> Record]
    /\ alive \in [Workers -> BOOLEAN]
    /\ down \in [Workers -> 0..DownCap]
    /\ loop \in [Workers -> [pc: {"off", "sending", "handled", "sleeping"}, age: Nat]]
    /\ fails \in [Workers -> BOOLEAN]
    /\ call \in [Calls -> CallType]

(* A loop is not due for longer than its current step allows.              *)
LoopInv ==
    \A w \in Workers :
        /\ loop[w].pc \in {"sending", "handled"} => loop[w].age <= RpcTimeout
        /\ loop[w].pc = "sleeping" => loop[w].age <= Interval
        /\ alive[w] => loop[w].pc # "off" /\ down[w] = 0

(* What a dead worker left in flight is older than its death.              *)
ExpiryInv ==
    /\ \A w \in Workers : ~alive[w] =>
          /\ loop[w].pc = "sending" => down[w] <= loop[w].age
          /\ reg[w].known => down[w] <= reg[w].age + LongestDelay
    /\ \A c \in Calls : call[c].pc = "answered" =>
          /\ call[c].worker \in Workers
          /\ ~alive[call[c].worker] => down[call[c].worker] <= call[c].age

(* How old the record of a worker without failures is, by loop position.   *)
HealthInv ==
    \A w \in Workers : alive[w] /\ ~fails[w] /\ reg[w].known =>
        /\ loop[w].pc = "handled" => reg[w].age <= loop[w].age
        /\ loop[w].pc = "sleeping" => reg[w].age <= RpcTimeout + loop[w].age
        /\ loop[w].pc = "sending" => reg[w].age <= RpcTimeout + Interval + loop[w].age

(* The scan of one call: the pointers are to eligible workers, those read  *)
(* come before the others, and the best so far is the best of those read.  *)
Scanned(cl) ==
    /\ \A w \in DOMAIN cl.ptr : Eligible(w, cl.req)
    /\ DOMAIN cl.scores \subseteq DOMAIN cl.ptr
    /\ \A u \in DOMAIN cl.scores, w \in DOMAIN cl.ptr \ DOMAIN cl.scores : u < w
    /\ \/ cl.worker = NoWorker /\ DOMAIN cl.scores = {} /\ cl.pc \notin {"forwarded", "answered"}
       \/ IsBest(cl.worker, cl.scores)

ScanInv == \A c \in Calls : Scanned(call[c])

IInv == TypeInv /\ LoopInv /\ ExpiryInv /\ HealthInv /\ ScanInv


----------------------------------------------------------------------------
(* What the time constants are, each by itself.                            *)
LEMMA Times ==
    /\ StaleAfter \in Nat /\ StaleAfter >= 1
    /\ CallTimeout \in Nat /\ RpcTimeout \in Nat /\ Interval \in Nat
    /\ LongestDelay \in Nat /\ LongestDelay >= CallTimeout /\ LongestDelay >= RpcTimeout
    /\ DownCap = StaleAfter + LongestDelay
  BY DEF LongestDelay, DownCap

(* What a tick does to one worker.                                         *)
LEMMA TickWorker ==
    ASSUME TypeInv, Tick, NEW w \in Workers
    PROVE  /\ loop[w].age \in Nat /\ reg[w].age \in 0..StaleAfter /\ down[w] \in 0..DownCap
           /\ loop'[w].pc = loop[w].pc
           /\ loop'[w].age = IF loop[w].pc = "off" THEN loop[w].age ELSE loop[w].age + 1
           /\ reg'[w].known = reg[w].known
           /\ reg'[w].age = IF reg[w].age < StaleAfter THEN reg[w].age + 1 ELSE StaleAfter
           /\ down'[w] = IF alive[w] THEN 0
                         ELSE IF down[w] < DownCap THEN down[w] + 1 ELSE DownCap
           /\ alive'[w] = alive[w] /\ fails'[w] = fails[w]
           /\ ~Due(w)
<1>1. reg[w] \in Record /\ loop[w] \in [pc: {"off", "sending", "handled", "sleeping"}, age: Nat]
  BY DEF TypeInv
<1>2. /\ reg'[w] = [reg[w] EXCEPT !.age = Older(reg[w].age, StaleAfter)]
      /\ loop'[w] = IF loop[w].pc = "off" THEN loop[w]
                    ELSE [loop[w] EXCEPT !.age = loop[w].age + 1]
      /\ down'[w] = IF alive[w] THEN 0 ELSE Older(down[w], DownCap)
      /\ alive' = alive /\ fails' = fails /\ ~Due(w)
  BY DEF Tick
<1>3. down[w] \in 0..DownCap
  BY DEF TypeInv
<1> QED
  BY <1>1, <1>2, <1>3 DEF Record, Older

(* A call that has been forwarded has a worker, and the scan chose it.      *)
LEMMA ScannedWorker ==
    ASSUME TypeInv, ScanInv, NEW c \in Calls, call[c].pc \in {"forwarded", "answered"}
    PROVE  /\ call[c].worker \in Workers /\ call[c].worker \in DOMAIN call[c].ptr
           /\ IsBest(call[c].worker, call[c].scores)
<1>1. Scanned(call[c]) /\ call[c] \in CallType
  BY DEF ScanInv, TypeInv
<1>2. IsBest(call[c].worker, call[c].scores) /\ call[c].worker \in DOMAIN call[c].ptr
  BY <1>1 DEF Scanned, IsBest
<1>3. DOMAIN call[c].ptr \subseteq Workers
  BY <1>1 DEF CallType, Pointers
<1> QED
  BY <1>2, <1>3

(* The loops stay within their times.                                      *)
LEMMA LoopStep ==
    ASSUME TypeInv, LoopInv, [Next]_vars
    PROVE  LoopInv'
<1>1. ASSUME NEW w \in Workers, RegisterWorker(w)
      PROVE  LoopInv'
  BY <1>1 DEF LoopInv, TypeInv, RegisterWorker
<1>2. ASSUME NEW w \in Workers, Registered(w)
      PROVE  LoopInv'
  BY <1>2 DEF LoopInv, TypeInv, Registered
<1>3. ASSUME NEW w \in Workers, RegistrationFails(w)
      PROVE  LoopInv'
  BY <1>3 DEF LoopInv, TypeInv, RegistrationFails
<1>4. ASSUME NEW w \in Workers, RegisterAgain(w)
      PROVE  LoopInv'
  BY <1>4 DEF LoopInv, TypeInv, RegisterAgain
<1>5. ASSUME NEW w \in Workers, Die(w)
      PROVE  LoopInv'
  BY <1>5 DEF LoopInv, TypeInv, Die
<1>6. ASSUME NEW w \in Workers, Orphaned(w)
      PROVE  LoopInv'
  BY <1>6 DEF LoopInv, TypeInv, Orphaned
<1>7. ASSUME NEW w \in Workers, Revive(w)
      PROVE  LoopInv'
  BY <1>7 DEF LoopInv, TypeInv, Revive
<1>8. ASSUME NEW c \in Calls, NEW req \in Requests, Predict(c, req)
      PROVE  LoopInv'
  BY <1>8 DEF LoopInv, TypeInv, Predict
<1>9. ASSUME NEW c \in Calls, NEW w \in Workers, ReadScore(c, w)
      PROVE  LoopInv'
  BY <1>9 DEF LoopInv, TypeInv, ReadScore
<1>10. ASSUME NEW c \in Calls, WorkerAnswers(c)
      PROVE  LoopInv'
  BY <1>10 DEF LoopInv, TypeInv, WorkerAnswers
<1>11. ASSUME NEW c \in Calls, NEW ms \in Latencies, PredictReturns(c, ms)
      PROVE  LoopInv'
  BY <1>11 DEF LoopInv, TypeInv, PredictReturns
<1>12. ASSUME NEW c \in Calls, PredictFails(c)
      PROVE  LoopInv'
  BY <1>12 DEF LoopInv, TypeInv, PredictFails
<1>13. ASSUME RestartRouter
      PROVE  LoopInv'
  BY <1>13 DEF LoopInv, TypeInv, RestartRouter
<1>14. ASSUME Tick
      PROVE  LoopInv'
  <2> SUFFICES ASSUME NEW w \in Workers
               PROVE  /\ loop'[w].pc \in {"sending", "handled"} => loop'[w].age <= RpcTimeout
                      /\ loop'[w].pc = "sleeping" => loop'[w].age <= Interval
                      /\ alive'[w] => loop'[w].pc # "off" /\ down'[w] = 0
    BY DEF LoopInv
  <2> QED
    BY <1>14, TickWorker, Times DEF LoopInv, Due
<1>15. ASSUME UNCHANGED vars
      PROVE  LoopInv'
  BY <1>15 DEF LoopInv, vars
<1> QED
  BY <1>1, <1>2, <1>3, <1>4, <1>5, <1>6, <1>7, <1>8, <1>9, <1>10, <1>11, <1>12, <1>13, <1>14, <1>15 DEF Next, WorkerStep, CallStep

(* What a dead worker left behind ages with it.                            *)
LEMMA ExpiryStep ==
    ASSUME TypeInv, LoopInv, ExpiryInv, ScanInv, [Next]_vars
    PROVE  ExpiryInv'
<1>1. ASSUME NEW w \in Workers, RegisterWorker(w)
      PROVE  ExpiryInv'
  BY <1>1 DEF ExpiryInv, LoopInv, TypeInv, Record, RegisterWorker, Fresh, Detach, LongestDelay
<1>2. ASSUME NEW w \in Workers, Registered(w)
      PROVE  ExpiryInv'
  BY <1>2 DEF ExpiryInv, LoopInv, TypeInv, Record, Registered
<1>3. ASSUME NEW w \in Workers, RegistrationFails(w)
      PROVE  ExpiryInv'
  BY <1>3 DEF ExpiryInv, LoopInv, TypeInv, Record, RegistrationFails
<1>4. ASSUME NEW w \in Workers, RegisterAgain(w)
      PROVE  ExpiryInv'
  BY <1>4 DEF ExpiryInv, LoopInv, TypeInv, Record, RegisterAgain
<1>5. ASSUME NEW w \in Workers, Die(w)
      PROVE  ExpiryInv'
  <2>1. /\ alive' = [alive EXCEPT ![w] = FALSE] /\ down' = [down EXCEPT ![w] = 0]
        /\ UNCHANGED <<reg, call>> /\ \A u \in Workers : loop'[u].age \in Nat
        /\ \A u \in Workers : u # w => loop'[u] = loop[u]
    BY <1>5 DEF Die, TypeInv
  <2>2. \A c \in Calls : call[c].age \in Nat
    BY Times DEF TypeInv, CallType
  <2>3. \A u \in Workers : reg[u].age \in Nat
    BY Times DEF TypeInv, Record
  <2>4. /\ alive'[w] = FALSE /\ down'[w] = 0
        /\ \A u \in Workers : u # w => alive'[u] = alive[u] /\ down'[u] = down[u]
    BY <2>1 DEF TypeInv
  <2>5. ASSUME NEW u \in Workers, ~alive'[u]
        PROVE  /\ loop'[u].pc = "sending" => down'[u] <= loop'[u].age
               /\ reg[u].known => down'[u] <= reg[u].age + LongestDelay
    <3>1. CASE u = w
      <4>1. down'[u] = 0 /\ loop'[u].age \in Nat /\ reg[u].age \in Nat
        BY <2>1, <2>3, <2>4, <3>1
      <4>2. 0 <= reg[u].age + LongestDelay
        BY <4>1, Times
      <4> QED
        BY <4>1, <4>2
    <3>2. CASE u # w
      BY <2>1, <2>4, <2>5, <3>2 DEF ExpiryInv
    <3> QED
      BY <3>1, <3>2
  <2>6. ASSUME NEW c \in Calls, call[c].pc = "answered"
        PROVE  /\ call[c].worker \in Workers
               /\ ~alive'[call[c].worker] => down'[call[c].worker] <= call[c].age
    <3>1. /\ call[c].worker \in Workers
          /\ ~alive[call[c].worker] => down[call[c].worker] <= call[c].age
      BY <2>6 DEF ExpiryInv
    <3>2. CASE call[c].worker = w
      BY <2>2, <2>4, <3>1, <3>2
    <3>3. CASE call[c].worker # w
      BY <2>4, <3>1, <3>3
    <3> QED
      BY <3>1, <3>2, <3>3
  <2> QED
    BY <2>1, <2>5, <2>6 DEF ExpiryInv
<1>6. ASSUME NEW w \in Workers, Orphaned(w)
      PROVE  ExpiryInv'
  BY <1>6 DEF ExpiryInv, LoopInv, TypeInv, Record, Orphaned
<1>7. ASSUME NEW w \in Workers, Revive(w)
      PROVE  ExpiryInv'
  BY <1>7 DEF ExpiryInv, LoopInv, TypeInv, Record, Revive
<1>8. ASSUME NEW c \in Calls, NEW req \in Requests, Predict(c, req)
      PROVE  ExpiryInv'
  BY <1>8 DEF ExpiryInv, LoopInv, TypeInv, Record, Predict, IdleCall
<1>9. ASSUME NEW c \in Calls, NEW w \in Workers, ReadScore(c, w)
      PROVE  ExpiryInv'
  <2>1. UNCHANGED <<reg, alive, down, loop>>
    BY <1>9 DEF ReadScore
  <2>2. call'[c].pc # "answered" /\ \A d \in Calls : d # c => call'[d] = call[d]
    BY <1>9 DEF ReadScore, TypeInv, CallType
  <2> QED
    BY <2>1, <2>2 DEF ExpiryInv
<1>10. ASSUME NEW c \in Calls, WorkerAnswers(c)
      PROVE  ExpiryInv'
  <2>1. UNCHANGED <<reg, alive, down, loop>>
    BY <1>10 DEF WorkerAnswers
  <2>2. /\ call[c].pc = "forwarded" /\ alive[call[c].worker]
        /\ call'[c].worker = call[c].worker /\ call'[c].age = call[c].age
        /\ \A d \in Calls : d # c => call'[d] = call[d]
    BY <1>10 DEF WorkerAnswers, TypeInv, CallType
  <2>3. call[c].worker \in Workers
    BY <2>2, ScannedWorker
  <2> QED
    BY <2>1, <2>2, <2>3 DEF ExpiryInv
<1>11. ASSUME NEW c \in Calls, NEW ms \in Latencies, PredictReturns(c, ms)
      PROVE  ExpiryInv'
  <2>1. UNCHANGED <<alive, down, loop>>
    BY <1>11 DEF PredictReturns
  <2>2. call'[c].pc = "idle" /\ \A d \in Calls : d # c => call'[d] = call[d]
    BY <1>11 DEF PredictReturns, IdleCall, TypeInv
  <2>3. \A w \in Workers : \/ reg'[w] = reg[w]
                           \/ w = call[c].worker /\ reg'[w].age = 0
    BY <1>11 DEF PredictReturns, Heartbeat, TypeInv
  <2>4. ASSUME NEW w \in Workers, ~alive'[w], reg'[w].known
        PROVE  down'[w] <= reg'[w].age + LongestDelay
    <3>1. CASE reg'[w] = reg[w]
      BY <2>1, <2>4, <3>1 DEF ExpiryInv
    <3>2. CASE w = call[c].worker /\ reg'[w].age = 0
      <4>1. down[w] <= call[c].age
        BY <1>11, <2>1, <2>4, <3>2 DEF ExpiryInv, PredictReturns
      <4>2. call[c].age \in 0..CallTimeout /\ down[w] \in Nat
        BY Times DEF TypeInv, CallType
      <4> QED
        BY <2>1, <3>2, <4>1, <4>2, Times
    <3> QED
      BY <2>3, <3>1, <3>2
  <2> QED
    BY <2>1, <2>2, <2>4 DEF ExpiryInv
<1>12. ASSUME NEW c \in Calls, PredictFails(c)
      PROVE  ExpiryInv'
  BY <1>12 DEF ExpiryInv, LoopInv, TypeInv, Record, PredictFails, IdleCall
<1>13. ASSUME RestartRouter
      PROVE  ExpiryInv'
  BY <1>13 DEF ExpiryInv, LoopInv, TypeInv, Record, RestartRouter, NoRecord, IdleCall
<1>14. ASSUME Tick
      PROVE  ExpiryInv'
  <2>1. ASSUME NEW w \in Workers, ~alive'[w]
        PROVE  /\ loop'[w].pc = "sending" => down'[w] <= loop'[w].age
               /\ reg'[w].known => down'[w] <= reg'[w].age + LongestDelay
    BY <1>14, <2>1, TickWorker, Times DEF ExpiryInv
  <2>2. ASSUME NEW c \in Calls, call'[c].pc = "answered"
        PROVE  /\ call'[c].worker \in Workers
               /\ ~alive'[call'[c].worker] => down'[call'[c].worker] <= call'[c].age
    <3>1. call[c] \in CallType
      BY DEF TypeInv
    <3>2. call'[c] = IF call[c].pc = "idle" THEN call[c] ELSE [call[c] EXCEPT !.age = call[c].age + 1]
      BY <1>14 DEF Tick
    <3>3. /\ call[c].pc = "answered" /\ call'[c].worker = call[c].worker
          /\ call'[c].age = call[c].age + 1 /\ call[c].age \in Nat
      BY <2>2, <3>1, <3>2 DEF CallType
    <3>4. /\ call[c].worker \in Workers
          /\ ~alive[call[c].worker] => down[call[c].worker] <= call[c].age
      BY <3>3 DEF ExpiryInv
    <3>5. /\ down[call[c].worker] \in Nat /\ down'[call[c].worker] \in Nat
          /\ alive'[call[c].worker] = alive[call[c].worker]
          /\ down'[call[c].worker] <= down[call[c].worker] + 1
      <4> DEFINE v == call[c].worker
      <4>1. v \in Workers
        BY <3>4
      <4> HIDE DEF v
      <4>2. down[v] \in Nat /\ down'[v] \in Nat /\ alive'[v] = alive[v] /\ down'[v] <= down[v] + 1
        BY <1>14, <4>1, TickWorker, Times
      <4> QED
        BY <4>2 DEF v
    <3> QED
      BY <3>3, <3>4, <3>5
  <2> QED
    BY <2>1, <2>2 DEF ExpiryInv
<1>15. ASSUME UNCHANGED vars
      PROVE  ExpiryInv'
  BY <1>15 DEF ExpiryInv, vars
<1> QED
  BY <1>1, <1>2, <1>3, <1>4, <1>5, <1>6, <1>7, <1>8, <1>9, <1>10, <1>11, <1>12, <1>13, <1>14, <1>15 DEF Next, WorkerStep, CallStep

(* Without failures a record is renewed before the loop comes round.        *)
LEMMA HealthStep ==
    ASSUME TypeInv, LoopInv, HealthInv, [Next]_vars
    PROVE  HealthInv'
<1>1. ASSUME NEW w \in Workers, RegisterWorker(w)
      PROVE  HealthInv'
  BY <1>1 DEF HealthInv, LoopInv, TypeInv, Record, RegisterWorker, Fresh
<1>2. ASSUME NEW w \in Workers, Registered(w)
      PROVE  HealthInv'
  BY <1>2 DEF HealthInv, LoopInv, TypeInv, Record, Registered
<1>3. ASSUME NEW w \in Workers, RegistrationFails(w)
      PROVE  HealthInv'
  BY <1>3 DEF HealthInv, LoopInv, TypeInv, Record, RegistrationFails
<1>4. ASSUME NEW w \in Workers, RegisterAgain(w)
      PROVE  HealthInv'
  BY <1>4 DEF HealthInv, LoopInv, TypeInv, Record, RegisterAgain
<1>5. ASSUME NEW w \in Workers, Die(w)
      PROVE  HealthInv'
  BY <1>5 DEF HealthInv, LoopInv, TypeInv, Record, Die
<1>6. ASSUME NEW w \in Workers, Orphaned(w)
      PROVE  HealthInv'
  BY <1>6 DEF HealthInv, LoopInv, TypeInv, Record, Orphaned
<1>7. ASSUME NEW w \in Workers, Revive(w)
      PROVE  HealthInv'
  BY <1>7 DEF HealthInv, LoopInv, TypeInv, Record, Revive
<1>8. ASSUME NEW c \in Calls, NEW req \in Requests, Predict(c, req)
      PROVE  HealthInv'
  BY <1>8 DEF HealthInv, LoopInv, TypeInv, Record, Predict
<1>9. ASSUME NEW c \in Calls, NEW w \in Workers, ReadScore(c, w)
      PROVE  HealthInv'
  BY <1>9 DEF HealthInv, LoopInv, TypeInv, Record, ReadScore
<1>10. ASSUME NEW c \in Calls, WorkerAnswers(c)
      PROVE  HealthInv'
  BY <1>10 DEF HealthInv, LoopInv, TypeInv, Record, WorkerAnswers
<1>11. ASSUME NEW c \in Calls, NEW ms \in Latencies, PredictReturns(c, ms)
      PROVE  HealthInv'
  <2>1. \A w \in Workers : reg'[w] = reg[w] \/ (reg'[w].age = 0 /\ reg[w].known)
    BY <1>11 DEF PredictReturns, Heartbeat, TypeInv
  <2>2. UNCHANGED <<alive, down, loop, fails>>
    BY <1>11 DEF PredictReturns
  <2>3. SUFFICES ASSUME NEW w \in Workers, alive[w], ~fails[w], reg'[w].known
                 PROVE  /\ loop[w].pc = "handled" => reg'[w].age <= loop[w].age
                        /\ loop[w].pc = "sleeping" => reg'[w].age <= RpcTimeout + loop[w].age
                        /\ loop[w].pc = "sending"
                              => reg'[w].age <= RpcTimeout + Interval + loop[w].age
    BY <2>2 DEF HealthInv
  <2>4. CASE reg'[w] = reg[w]
    BY <2>3, <2>4 DEF HealthInv
  <2>5. CASE reg'[w].age = 0
    BY <2>5, Times DEF TypeInv
  <2> QED
    BY <2>1, <2>4, <2>5
<1>12. ASSUME NEW c \in Calls, PredictFails(c)
      PROVE  HealthInv'
  BY <1>12 DEF HealthInv, LoopInv, TypeInv, Record, PredictFails
<1>13. ASSUME RestartRouter
      PROVE  HealthInv'
  BY <1>13 DEF HealthInv, LoopInv, TypeInv, Record, RestartRouter, NoRecord
<1>14. ASSUME Tick
      PROVE  HealthInv'
  <2> SUFFICES ASSUME NEW w \in Workers, alive'[w], ~fails'[w], reg'[w].known
               PROVE  /\ loop'[w].pc = "handled" => reg'[w].age <= loop'[w].age
                      /\ loop'[w].pc = "sleeping" => reg'[w].age <= RpcTimeout + loop'[w].age
                      /\ loop'[w].pc = "sending"
                            => reg'[w].age <= RpcTimeout + Interval + loop'[w].age
    BY DEF HealthInv
  <2> QED
    BY <1>14, TickWorker, Times DEF HealthInv
<1>15. ASSUME UNCHANGED vars
      PROVE  HealthInv'
  BY <1>15 DEF HealthInv, vars
<1> QED
  BY <1>1, <1>2, <1>3, <1>4, <1>5, <1>6, <1>7, <1>8, <1>9, <1>10, <1>11, <1>12, <1>13, <1>14, <1>15 DEF Next, WorkerStep, CallStep

(* Partial functions on the workers, and the values they are built from.   *)
LEMMA PointerFacts ==
    /\ \A S \in SUBSET Workers : \A f \in [S -> Record] : f \in Pointers
    /\ \A f \in Pointers : DOMAIN f \subseteq Workers /\ \A w \in DOMAIN f : f[w] \in Record
  BY DEF Pointers

(* What the scan has read is a function from some of the workers.          *)
LEMMA ScoresFacts ==
    /\ \A S \in SUBSET Workers : \A f \in [S -> Int] : f \in Scores
    /\ \A f \in Scores : DOMAIN f \subseteq Workers /\ \A w \in DOMAIN f : f[w] \in Int
  BY DEF Scores

(* The records that stand for no registration, a new one and the map's own.*)
LEMMA RecordFacts ==
    /\ NoRecord \in Record /\ Fresh \in Record /\ Shared \in Record
    /\ Shared = [known |-> FALSE, age |-> 0, latency |-> 0, inFlight |-> 0]
<1>1. Shared = [known |-> FALSE, age |-> 0, latency |-> 0, inFlight |-> 0]
  BY DEF NoRecord, Shared
<1>2. NoRecord \in Record /\ Fresh \in Record
  BY Times DEF NoRecord, Fresh, Record
<1> QED
  BY <1>1, <1>2, Times DEF Record

(* A call that has read nothing yet.                                       *)
LEMMA NothingRead == [w \in {} |-> Shared] \in Pointers /\ [w \in {} |-> 0] \in Scores
<1>1. {} \in SUBSET Workers
  OBVIOUS
<1>2. [w \in {} |-> Shared] \in [{} -> Record] /\ [w \in {} |-> 0] \in [{} -> Int]
  OBVIOUS
<1> QED
  BY <1>1, <1>2, PointerFacts, ScoresFacts

(* A call slot that is not in use.                                         *)
LEMMA IdleFacts == IdleCall \in CallType /\ Scanned(IdleCall)
<1>1. IdleCall \in CallType
  BY NothingRead, Times DEF IdleCall, CallType
<1>2. Scanned(IdleCall)
  BY DEF IdleCall, Scanned
<1> QED
  BY <1>1, <1>2

(* A registration that replaces a record leaves the calls well formed.     *)
LEMMA DetachFacts ==
    ASSUME TypeInv, NEW cl \in CallType, NEW w \in Workers, Scanned(cl)
    PROVE  Detach(cl, w) \in CallType /\ Scanned(Detach(cl, w)) /\ Detach(cl, w).pc = cl.pc
<1>1. CASE w \in DOMAIN cl.ptr /\ cl.ptr[w] = Shared
  <2> DEFINE p == [cl.ptr EXCEPT ![w] = reg[w]]
             d == [cl EXCEPT !.ptr = p]
  <2>1. cl.ptr \in Pointers /\ reg[w] \in Record
    BY DEF CallType, TypeInv
  <2>2. DOMAIN p = DOMAIN cl.ptr /\ p \in Pointers
    BY <2>1, PointerFacts
  <2>3. Detach(cl, w) = d
    BY <1>1 DEF Detach
  <2> HIDE DEF p
  <2>4. /\ d \in CallType /\ d.ptr = p /\ d.pc = cl.pc
        /\ d.req = cl.req /\ d.scores = cl.scores /\ d.worker = cl.worker
    BY <2>2 DEF CallType
  <2>5. Scanned(d)
    BY <2>2, <2>4 DEF Scanned
  <2> QED
    BY <2>3, <2>4, <2>5
<1>2. CASE ~(w \in DOMAIN cl.ptr /\ cl.ptr[w] = Shared)
  BY <1>2 DEF Detach
<1> QED
  BY <1>1, <1>2

(* A new call has read nothing and points to eligible workers.             *)
LEMMA PredictFacts ==
    ASSUME TypeInv, NEW c \in Calls, NEW req \in Requests, Predict(c, req)
    PROVE  call'[c] \in CallType /\ Scanned(call'[c])
<1> DEFINE eligible == {w \in Snapshot : Eligible(w, req)}
           p == [w \in eligible |-> Shared]
           none == [w \in {} |-> 0]
           cl == [pc |-> "routing", req |-> req, ptr |-> p, scores |-> none,
                  worker |-> NoWorker, age |-> 0]
<1>1. eligible \subseteq Workers /\ \A w \in eligible : Eligible(w, req)
  BY DEF Snapshot
<1>2. DOMAIN p = eligible /\ p \in Pointers
  BY <1>1, PointerFacts, RecordFacts
<1>3. call'[c] = cl
  BY DEF Predict, TypeInv
<1> HIDE DEF eligible, p
<1>4. none \in Scores /\ DOMAIN none = {}
  BY NothingRead
<1> HIDE DEF none
<1>5. cl \in CallType
  BY <1>2, <1>4, Times DEF CallType
<1>6. Scanned(cl)
  BY <1>1, <1>2, <1>4 DEF Scanned
<1> QED
  BY <1>3, <1>5, <1>6

(* One iteration of the scan: the record read lies in the order of the IDs *)
(* behind the others, and only a strictly better score takes over.         *)
LEMMA ReadScoreFacts ==
    ASSUME TypeInv, ScanInv, NEW c \in Calls, NEW w \in Workers, ReadScore(c, w)
    PROVE  call'[c] \in CallType /\ Scanned(call'[c])
<1> DEFINE cl == call[c]
           rec == IF cl.ptr[w] = Shared THEN reg[w] ELSE cl.ptr[w]
           score == Score(w, cl.req, rec)
           best == cl.worker
           bestScore == IF best = NoWorker THEN 0 ELSE cl.scores[best]
           scores == [u \in DOMAIN cl.scores \cup {w} |-> IF u = w THEN score ELSE cl.scores[u]]
           chosen == Scan(best, bestScore, w, score)
           label == IF Unread(c) = {w} THEN "forwarded" ELSE "routing"
<1>1. cl \in CallType /\ Scanned(cl)
  BY DEF TypeInv, ScanInv
<1>2. /\ cl.pc = "routing" /\ w \in DOMAIN cl.ptr \ DOMAIN cl.scores
      /\ \A u \in DOMAIN cl.ptr \ DOMAIN cl.scores : w <= u
      /\ call'[c] = [pc |-> label, req |-> cl.req, ptr |-> cl.ptr, age |-> cl.age,
                     scores |-> scores, worker |-> chosen]
  BY DEF ReadScore, Unread, TypeInv
<1>3. DOMAIN cl.ptr \subseteq Workers /\ rec \in Record
  BY <1>1, <1>2, PointerFacts DEF CallType, TypeInv
<1>4. DOMAIN cl.scores \subseteq Workers /\ \A u \in DOMAIN cl.scores : cl.scores[u] \in Int
  BY <1>1, ScoresFacts DEF CallType
<1>5. score \in Int
  <2>1. rec.latency \in Int /\ rec.inFlight * loadWeight \in Int
    BY <1>3 DEF Record, loadWeight
  <2> HIDE DEF rec
  <2> QED
    BY <2>1 DEF Score, gpuBonus
<1> HIDE DEF score
<1>6. scores \in Scores
  BY <1>3, <1>4, <1>5, ScoresFacts
<1>7. /\ \A u \in DOMAIN cl.scores : u < w
      /\ \A u \in DOMAIN cl.ptr \ (DOMAIN cl.scores \cup {w}) : w < u
  <2>1. w \in Nat /\ \A u \in DOMAIN cl.ptr : u \in Nat
    BY <1>3
  <2>2. \A u \in DOMAIN cl.ptr \ (DOMAIN cl.scores \cup {w}) : w <= u /\ w # u
    BY <1>2
  <2>3. \A u \in DOMAIN cl.scores : u < w
    BY <1>1, <1>2 DEF Scanned
  <2> QED
    BY <2>1, <2>2, <2>3
<1>8. chosen \in DOMAIN cl.scores \cup {w} /\ IsBest(chosen, scores)
  <2>1. CASE cl.worker = NoWorker /\ DOMAIN cl.scores = {}
    BY <2>1, <1>3, <1>2, <1>5 DEF Scan, IsBest
  <2>2. CASE IsBest(cl.worker, cl.scores)
    <3>1. /\ best \in DOMAIN cl.scores /\ best \in Nat /\ w \in Nat /\ best < w
          /\ best # NoWorker /\ bestScore = cl.scores[best] /\ bestScore \in Int
      BY <2>2, <1>2, <1>3, <1>4, <1>7 DEF IsBest, NoWorker
    <3>2. \A u \in DOMAIN cl.scores : /\ scores[u] = cl.scores[u] /\ u \in Nat
                                      /\ \/ bestScore < cl.scores[u]
                                         \/ bestScore = cl.scores[u] /\ best <= u
      BY <2>2, <3>1, <1>2, <1>4 DEF IsBest
    <3>3. CASE score < bestScore
      BY <3>1, <3>2, <3>3, <1>4, <1>5 DEF Scan, IsBest
    <3>4. CASE ~(score < bestScore)
      BY <3>1, <3>2, <3>4, <1>4, <1>5 DEF Scan, IsBest
    <3> QED
      BY <3>3, <3>4
  <2> QED
    BY <1>1, <2>1, <2>2 DEF Scanned
<1>9. DOMAIN scores = DOMAIN cl.scores \cup {w}
  OBVIOUS
<1> HIDE DEF scores, chosen
<1>10. /\ call'[c] \in CallType /\ call'[c].ptr = cl.ptr /\ call'[c].req = cl.req
       /\ call'[c].scores = scores /\ call'[c].worker = chosen
  BY <1>1, <1>2, <1>3, <1>4, <1>6, <1>8 DEF CallType
<1>11. Scanned(call'[c])
  BY <1>1, <1>2, <1>3, <1>4, <1>7, <1>8, <1>9, <1>10 DEF Scanned
<1> QED
  BY <1>10, <1>11

(* The calls stay well formed, and their scans right.                      *)
LEMMA CallsStep ==
    ASSUME TypeInv, ScanInv, [Next]_vars
    PROVE  call' \in [Calls -> CallType] /\ ScanInv'
<1>1. ASSUME NEW w \in Workers, RegisterWorker(w)
      PROVE  call' \in [Calls -> CallType] /\ ScanInv'
  <2>1. call' = [d \in Calls |-> Detach(call[d], w)]
    BY <1>1 DEF RegisterWorker
  <2> QED
    BY <2>1, DetachFacts DEF TypeInv, ScanInv
<1>2. ASSUME NEW w \in Workers, Registered(w)
      PROVE  call' \in [Calls -> CallType] /\ ScanInv'
  BY <1>2 DEF TypeInv, ScanInv, Registered
<1>3. ASSUME NEW w \in Workers, RegistrationFails(w)
      PROVE  call' \in [Calls -> CallType] /\ ScanInv'
  BY <1>3 DEF TypeInv, ScanInv, RegistrationFails
<1>4. ASSUME NEW w \in Workers, RegisterAgain(w)
      PROVE  call' \in [Calls -> CallType] /\ ScanInv'
  BY <1>4 DEF TypeInv, ScanInv, RegisterAgain
<1>5. ASSUME NEW w \in Workers, Die(w)
      PROVE  call' \in [Calls -> CallType] /\ ScanInv'
  BY <1>5 DEF TypeInv, ScanInv, Die
<1>6. ASSUME NEW w \in Workers, Orphaned(w)
      PROVE  call' \in [Calls -> CallType] /\ ScanInv'
  BY <1>6 DEF TypeInv, ScanInv, Orphaned
<1>7. ASSUME NEW w \in Workers, Revive(w)
      PROVE  call' \in [Calls -> CallType] /\ ScanInv'
  BY <1>7 DEF TypeInv, ScanInv, Revive
<1>8. ASSUME NEW c \in Calls, NEW req \in Requests, Predict(c, req)
      PROVE  call' \in [Calls -> CallType] /\ ScanInv'
  <2>1. call'[c] \in CallType /\ Scanned(call'[c])
    BY <1>8, PredictFacts
  <2>2. DOMAIN call' = Calls /\ call' = [call EXCEPT ![c] = call'[c]]
    BY <1>8 DEF Predict, TypeInv
  <2> QED
    BY <2>1, <2>2 DEF TypeInv, ScanInv
<1>9. ASSUME NEW c \in Calls, NEW w \in Workers, ReadScore(c, w)
      PROVE  call' \in [Calls -> CallType] /\ ScanInv'
  <2>1. call'[c] \in CallType /\ Scanned(call'[c])
    BY <1>9, ReadScoreFacts
  <2>2. DOMAIN call' = Calls /\ call' = [call EXCEPT ![c] = call'[c]]
    BY <1>9 DEF ReadScore, TypeInv
  <2> QED
    BY <2>1, <2>2 DEF TypeInv, ScanInv
<1>10. ASSUME NEW c \in Calls, WorkerAnswers(c)
      PROVE  call' \in [Calls -> CallType] /\ ScanInv'
  <2>1. /\ call' = [call EXCEPT ![c] = [call[c] EXCEPT !.pc = "answered"]]
        /\ call[c] \in CallType /\ Scanned(call[c]) /\ call[c].pc = "forwarded"
    BY <1>10 DEF WorkerAnswers, TypeInv, ScanInv
  <2>2. [call[c] EXCEPT !.pc = "answered"] \in CallType
    BY <2>1 DEF CallType
  <2>3. Scanned([call[c] EXCEPT !.pc = "answered"])
    BY <2>1 DEF Scanned, CallType
  <2> QED
    BY <2>1, <2>2, <2>3 DEF TypeInv, ScanInv
<1>11. ASSUME NEW c \in Calls, NEW ms \in Latencies, PredictReturns(c, ms)
      PROVE  call' \in [Calls -> CallType] /\ ScanInv'
  BY <1>11, IdleFacts DEF TypeInv, ScanInv, PredictReturns
<1>12. ASSUME NEW c \in Calls, PredictFails(c)
      PROVE  call' \in [Calls -> CallType] /\ ScanInv'
  BY <1>12, IdleFacts DEF TypeInv, ScanInv, PredictFails
<1>13. ASSUME RestartRouter
      PROVE  call' \in [Calls -> CallType] /\ ScanInv'
  BY <1>13, IdleFacts DEF TypeInv, ScanInv, RestartRouter
<1>14. ASSUME Tick
      PROVE  call' \in [Calls -> CallType] /\ ScanInv'
  <2>1. SUFFICES ASSUME NEW c \in Calls
                 PROVE  call'[c] \in CallType /\ Scanned(call'[c])
    BY <1>14 DEF ScanInv, Tick
  <2>2. call[c] \in CallType /\ Scanned(call[c])
    BY DEF TypeInv, ScanInv
  <2>3. CASE call[c].pc = "idle"
    BY <1>14, <2>2, <2>3 DEF Tick
  <2>4. CASE call[c].pc # "idle"
    <3>1. call'[c] = [call[c] EXCEPT !.age = call[c].age + 1] /\ call[c].age < CallTimeout
      BY <1>14, <2>4 DEF Tick
    <3>2. call[c].age + 1 \in 0..CallTimeout
      BY <2>2, <3>1, Times DEF CallType
    <3>3. [call[c] EXCEPT !.age = call[c].age + 1] \in CallType
      BY <2>2, <3>2 DEF CallType
    <3>4. Scanned([call[c] EXCEPT !.age = call[c].age + 1])
      BY <2>2 DEF Scanned, CallType
    <3> QED
      BY <3>1, <3>3, <3>4
  <2> QED
    BY <2>3, <2>4
<1>15. ASSUME UNCHANGED vars
      PROVE  call' \in [Calls -> CallType] /\ ScanInv'
  BY <1>15 DEF TypeInv, ScanInv, vars
<1> QED
  BY <1>1, <1>2, <1>3, <1>4, <1>5, <1>6, <1>7, <1>8, <1>9, <1>10, <1>11, <1>12, <1>13, <1>14, <1>15 DEF Next, WorkerStep, CallStep

(* Every variable keeps its type.                                          *)
LEMMA TypeStep ==
    ASSUME TypeInv, ScanInv, LoopInv, [Next]_vars
    PROVE  TypeInv'
<1>1. ASSUME NEW w \in Workers, RegisterWorker(w)
      PROVE  TypeInv'
  BY <1>1, CallsStep, RecordFacts DEF TypeInv, RegisterWorker
<1>2. ASSUME NEW w \in Workers, Registered(w)
      PROVE  TypeInv'
  BY <1>2, CallsStep DEF TypeInv, Registered
<1>3. ASSUME NEW w \in Workers, RegistrationFails(w)
      PROVE  TypeInv'
  BY <1>3, CallsStep DEF TypeInv, RegistrationFails
<1>4. ASSUME NEW w \in Workers, RegisterAgain(w)
      PROVE  TypeInv'
  BY <1>4, CallsStep DEF TypeInv, RegisterAgain
<1>5. ASSUME NEW w \in Workers, Die(w)
      PROVE  TypeInv'
  BY <1>5, CallsStep, Times DEF TypeInv, Die
<1>6. ASSUME NEW w \in Workers, Orphaned(w)
      PROVE  TypeInv'
  BY <1>6, CallsStep DEF TypeInv, Orphaned
<1>7. ASSUME NEW w \in Workers, Revive(w)
      PROVE  TypeInv'
  BY <1>7, CallsStep, Times DEF TypeInv, Revive
<1>8. ASSUME NEW c \in Calls, NEW req \in Requests, Predict(c, req)
      PROVE  TypeInv'
  BY <1>8, CallsStep DEF TypeInv, Predict
<1>9. ASSUME NEW c \in Calls, NEW w \in Workers, ReadScore(c, w)
      PROVE  TypeInv'
  BY <1>9, CallsStep DEF TypeInv, ReadScore
<1>10. ASSUME NEW c \in Calls, WorkerAnswers(c)
      PROVE  TypeInv'
  BY <1>10, CallsStep DEF TypeInv, WorkerAnswers
<1>11. ASSUME NEW c \in Calls, NEW ms \in Latencies, PredictReturns(c, ms)
      PROVE  TypeInv'
  <2> DEFINE u == call[c].worker
             load == IF call[c].ptr[u] = Shared THEN reg[u].inFlight ELSE call[c].ptr[u].inFlight
  <2>1. u \in Workers /\ u \in DOMAIN call[c].ptr
    BY <1>11, ScannedWorker DEF PredictReturns
  <2>2. call[c].ptr[u] \in Record /\ reg[u] \in Record
    BY <2>1, PointerFacts DEF TypeInv, CallType
  <2>3. load \in Nat /\ ms \in Nat
    BY <2>2 DEF Record
  <2>4. reg' = [reg EXCEPT ![u] = IF reg[u].known
                  THEN [known |-> TRUE, age |-> 0, latency |-> ms, inFlight |-> load] ELSE reg[u]]
    BY <1>11 DEF PredictReturns, Heartbeat
  <2> HIDE DEF load
  <2>5. [known |-> TRUE, age |-> 0, latency |-> ms, inFlight |-> load] \in Record
    BY <2>3, Times DEF Record
  <2>6. reg' \in [Workers -> Record]
    BY <2>2, <2>4, <2>5 DEF TypeInv
  <2> QED
    BY <1>11, <2>6, CallsStep DEF TypeInv, PredictReturns
<1>12. ASSUME NEW c \in Calls, PredictFails(c)
      PROVE  TypeInv'
  BY <1>12, CallsStep DEF TypeInv, PredictFails
<1>13. ASSUME RestartRouter
      PROVE  TypeInv'
  BY <1>13, CallsStep, RecordFacts DEF TypeInv, RestartRouter
<1>14. ASSUME Tick
      PROVE  TypeInv'
  <2>1. ASSUME NEW w \in Workers
        PROVE  /\ reg'[w] \in Record /\ down'[w] \in 0..DownCap
               /\ loop'[w] \in [pc: {"off", "sending", "handled", "sleeping"}, age: Nat]
    <3>1. reg[w] \in Record /\ reg'[w] = [reg[w] EXCEPT !.age = Older(reg[w].age, StaleAfter)]
      BY <1>14 DEF TypeInv, Tick
    <3>2. Older(reg[w].age, StaleAfter) \in 0..StaleAfter
      BY <1>14, TickWorker, Times DEF Older
    <3>3. reg'[w] \in Record
      BY <3>1, <3>2 DEF Record
    <3>4. down'[w] \in 0..DownCap
      BY <1>14, TickWorker, Times
    <3>5. loop'[w] \in [pc: {"off", "sending", "handled", "sleeping"}, age: Nat]
      BY <1>14 DEF TypeInv, Tick
    <3> QED
      BY <3>3, <3>4, <3>5
  <2>2. /\ DOMAIN reg' = Workers /\ DOMAIN down' = Workers /\ DOMAIN loop' = Workers
        /\ reg' = [w \in Workers |-> reg'[w]] /\ down' = [w \in Workers |-> down'[w]]
        /\ loop' = [w \in Workers |-> loop'[w]] /\ UNCHANGED <<alive, fails>>
    BY <1>14 DEF Tick
  <2> QED
    BY <2>1, <2>2, CallsStep DEF TypeInv
<1>15. ASSUME UNCHANGED vars
      PROVE  TypeInv'
  BY <1>15 DEF TypeInv, vars
<1> QED
  BY <1>1, <1>2, <1>3, <1>4, <1>5, <1>6, <1>7, <1>8, <1>9, <1>10, <1>11, <1>12, <1>13, <1>14, <1>15 DEF Next, WorkerStep, CallStep

----------------------------------------------------------------------------
(* The inductive invariant holds in every reachable state.                 *)
THEOREM Invariance == Spec => []IInv
<1>1. Init => IInv
  <2> SUFFICES ASSUME Init PROVE IInv
    OBVIOUS
  <2>1. TypeInv
    BY RecordFacts, IdleFacts, Times DEF Init, TypeInv
  <2>2. ScanInv
    BY IdleFacts DEF Init, ScanInv
  <2>3. LoopInv /\ HealthInv
    BY RecordFacts, Times DEF Init, LoopInv, HealthInv, NoRecord
  <2>4. ExpiryInv
    BY DEF Init, ExpiryInv, IdleCall
  <2> QED
    BY <2>1, <2>2, <2>3, <2>4 DEF IInv
<1>2. IInv /\ [Next]_vars => IInv'
  BY TypeStep, LoopStep, ExpiryStep, HealthStep, CallsStep DEF IInv
<1> QED
  BY <1>1, <1>2, PTL DEF Spec

(* Registry records, loops and calls keep their types; in particular a     *)
(* heartbeat never writes a negative latency or load.                      *)
THEOREM TypeCorrect == Spec => []TypeOK
<1>1. IInv => TypeOK
  BY DEF IInv, TypeInv, TypeOK, ScanInv, Scanned, IsBest, CallType
<1> QED
  BY <1>1, Invariance, PTL

(* A dead worker leaves the pool within staleAfter and the longest         *)
(* timeout, whatever heartbeats and registrations it left in flight.       *)
THEOREM DeadWorkersExpire == Spec => []DeadWorkerExpires
<1>1. IInv => DeadWorkerExpires
  <2> SUFFICES ASSUME IInv, NEW w \in Workers, Live(w)
               PROVE  down[w] < DownCap
    BY DEF DeadWorkerExpires
  <2>1. reg[w].known /\ reg[w].age < StaleAfter /\ reg[w].age \in Nat /\ down[w] \in Nat
    BY Times DEF IInv, TypeInv, Live, Record
  <2>2. alive[w] => down[w] = 0
    BY DEF IInv, LoopInv
  <2>3. ~alive[w] => down[w] <= reg[w].age + LongestDelay
    BY <2>1 DEF IInv, ExpiryInv
  <2> QED
    BY <2>1, <2>2, <2>3, Times DEF IInv, TypeInv
<1> QED
  BY <1>1, Invariance, PTL

(* A worker whose registrations arrive is never taken for dead, provided   *)
(* an interval and two registration timeouts are shorter than staleAfter   *)
(* (10 s, twice 5 s and 30 s as deployed).                                 *)
THEOREM HealthyWorkersStay ==
    ASSUME RpcTimeout + Interval + RpcTimeout < StaleAfter
    PROVE  Spec => []HealthyStaysLive
<1>1. IInv => HealthyStaysLive
  <2> SUFFICES ASSUME IInv, NEW w \in Workers, alive[w], ~fails[w], reg[w].known
               PROVE  Live(w)
    BY DEF HealthyStaysLive
  <2>1. reg[w].age \in Nat /\ loop[w].age \in Nat
        /\ loop[w].pc \in {"off", "sending", "handled", "sleeping"}
    BY Times DEF IInv, TypeInv, Record
  <2>2. /\ loop[w].pc # "off"
        /\ loop[w].pc \in {"sending", "handled"} => loop[w].age <= RpcTimeout
        /\ loop[w].pc = "sleeping" => loop[w].age <= Interval
    BY DEF IInv, LoopInv
  <2>3. reg[w].age <= RpcTimeout + Interval + RpcTimeout
    BY <2>1, <2>2, Times DEF IInv, HealthInv
  <2> QED
    BY <2>1, <2>3, Times DEF Live
<1> QED
  BY <1>1, Invariance, PTL

(* The scan without the lock, for any number of workers and of calls that  *)
(* interleave with it: the worker a call goes to has the best score read.  *)
THEOREM BestIsChosen == Spec => []RoutedToBest
<1>1. IInv => RoutedToBest
  BY ScannedWorker DEF IInv, RoutedToBest
<1> QED
  BY <1>1, Invariance, PTL

(* A call only goes to a worker that serves its model at the precision     *)
(* asked for, through all the conversions on both sides.                   *)
THEOREM CapableIsChosen == Spec => []RoutedToCapable
<1>1. IInv => RoutedToCapable
  <2> SUFFICES ASSUME IInv, NEW c \in Calls, call[c].pc \in {"forwarded", "answered"}
               PROVE  LET w == call[c].worker
                          req == call[c].req
                      IN  /\ req.model \in Supports[w]
                          /\ req.precision \in Known =>
                                precisionRank(MaxPrecision(w)) >= precisionRank(req.precision)
    BY DEF RoutedToCapable
  <2>1. Eligible(call[c].worker, call[c].req)
    BY ScannedWorker DEF IInv, ScanInv, Scanned
  <2> QED
    BY <2>1 DEF Eligible, supportsModel, precisionToDomain, precisionToProto, Known
<1> QED
  BY <1>1, Invariance, PTL
=============================================================================
