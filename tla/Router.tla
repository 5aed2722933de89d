------------------------------- MODULE Router -------------------------------
(***************************************************************************)
(* The inference router: its in-memory worker registry, concurrent Predict *)
(* calls, and the workers' registration loops, over discrete time.  Time   *)
(* is kept as ages, so that nothing bounds a behaviour's length.           *)
(*                                                                         *)
(* One tick is the 5 s of the RPC timeouts; the registration interval is   *)
(* then 2 ticks and staleAfter 6.                                          *)
(***************************************************************************)
EXTENDS Selector

CONSTANTS
    Calls,        \* Predict requests the router handles at the same time
    Requests,     \* what clients ask for: [model, precision, priority]
    Latencies,    \* what time.Since(start) may measure, in ms
    StaleAfter,   \* WORKER_STALE_AFTER
    CallTimeout,  \* WORKER_CALL_TIMEOUT
    RpcTimeout,   \* timeout of the worker's RegisterWorker call
    Interval,     \* sleep between registrations
    Mortal        \* bound: the workers that may die

ASSUME TimesAssumption == {StaleAfter, CallTimeout, RpcTimeout, Interval} \subseteq Nat \ {0}
ASSUME LatenciesAssumption == Latencies \subseteq Nat
ASSUME MortalAssumption == Mortal \subseteq Workers

VARIABLES
    reg,    \* reg[w]: the router's record of w
    alive,  \* alive[w]: the worker process runs
    down,   \* down[w]: ticks since it died
    loop,   \* loop[w]: the registration loop of w
    fails,  \* fails[w]: a registration failed since the last good one
    call    \* call[c]: a Predict call in the router

vars == <<reg, alive, down, loop, fails, call>>

LongestDelay == IF CallTimeout > RpcTimeout THEN CallTimeout ELSE RpcTimeout

(* Ages are counted up to where they no longer matter.                     *)
DownCap == StaleAfter + LongestDelay
Older(age, cap) == IF age < cap THEN age + 1 ELSE cap

Record == [known: BOOLEAN, age: 0..StaleAfter, latency: Nat, inFlight: Nat]
NoRecord == [known |-> FALSE, age |-> StaleAfter, latency |-> 0, inFlight |-> 0]
Fresh == [known |-> TRUE, age |-> 0, latency |-> 0, inFlight |-> 0]

Shared == [known |-> FALSE, age |-> 0, latency |-> 0, inFlight |-> 0]
NoRequest == [model |-> "none", precision |-> "", priority |-> "normal"]

(* A Predict call: its request, the pointers its snapshot holds to the     *)
(* eligible workers' records, the scores read so far, the best worker.     *)
(* A pointer is "shared" while the registry's map holds the same record,   *)
(* and the old record itself once a registration has replaced it.          *)
IdleCall == [pc |-> "idle", req |-> NoRequest, ptr |-> [w \in {} |-> Shared],
             scores |-> [w \in {} |-> 0], worker |-> NoWorker, age |-> 0]

TypeOK ==
    /\ reg \in [Workers -> Record]
    /\ alive \in [Workers -> BOOLEAN]
    /\ down \in [Workers -> 0..DownCap]
    /\ loop \in [Workers -> [pc: {"off", "sending", "handled", "sleeping"}, age: Nat]]
    /\ fails \in [Workers -> BOOLEAN]
    /\ \A c \in Calls :
          /\ call[c].pc \in {"idle", "routing", "forwarded", "answered"}
          /\ call[c].req \in Requests \cup {NoRequest}
          /\ DOMAIN call[c].scores \subseteq DOMAIN call[c].ptr
          /\ call[c].worker \in DOMAIN call[c].scores \cup {NoWorker}
          /\ call[c].age \in 0..CallTimeout

Init ==
    /\ reg = [w \in Workers |-> NoRecord]
    /\ alive = [w \in Workers |-> TRUE]
    /\ down = [w \in Workers |-> 0]
    /\ loop = [w \in Workers |-> [pc |-> "sending", age |-> 0]]
    /\ fails = [w \in Workers |-> FALSE]
    /\ call = [c \in Calls |-> IdleCall]

----------------------------------------------------------------------------
(* Mutant of Live: the cutoff is half of staleAfter.                       *)
LiveHalf(w) == reg[w].known /\ reg[w].age < StaleAfter \div 2

(* Registry.Snapshot: LastHeartbeat is after now - staleAfter.             *)
Live(w) == reg[w].known /\ reg[w].age < StaleAfter
Snapshot == {w \in Workers : Live(w)}

(* Mutant of Heartbeat: the latency is measured backwards.                 *)
HeartbeatBackwards(w, ms, load) ==
    reg' = [reg EXCEPT ![w] =
              IF @.known THEN [known |-> TRUE, age |-> 0, latency |-> 0 - ms, inFlight |-> load] ELSE @]

(* Registry.Heartbeat.                                                     *)
Heartbeat(w, ms, load) ==
    reg' = [reg EXCEPT ![w] =
              IF @.known THEN [known |-> TRUE, age |-> 0, latency |-> ms, inFlight |-> load] ELSE @]

(* A snapshot taken before keeps the record that is replaced.              *)
Detach(cl, w) ==
    IF w \in DOMAIN cl.ptr /\ cl.ptr[w] = Shared THEN [cl EXCEPT !.ptr[w] = reg[w]] ELSE cl

(* Server.RegisterWorker and Registry.Register, when w's request arrives:  *)
(* the whole record is replaced, latency and load start at 0 again.  A     *)
(* request already sent arrives even if its worker has died since.         *)
RegisterWorker(w) ==
    /\ loop[w].pc = "sending"
    /\ reg' = [reg EXCEPT ![w] = Fresh]
    /\ call' = [c \in Calls |-> Detach(call[c], w)]
    /\ loop' = [loop EXCEPT ![w].pc = "handled"]
    /\ fails' = [fails EXCEPT ![w] = FALSE]
    /\ UNCHANGED <<alive, down>>

(* The worker's RPC returns, and the loop sleeps.                          *)
Registered(w) ==
    /\ loop[w].pc = "handled"
    /\ loop' = [loop EXCEPT ![w] = [pc |-> "sleeping", age |-> 0]]
    /\ UNCHANGED <<reg, alive, down, fails, call>>

(* The RPC fails or times out before it reached the router.                *)
RegistrationFails(w) ==
    /\ loop[w].pc = "sending"
    /\ loop' = [loop EXCEPT ![w] = [pc |-> "sleeping", age |-> 0]]
    /\ fails' = [fails EXCEPT ![w] = TRUE]
    /\ UNCHANGED <<reg, alive, down, call>>

(* time.sleep(10) is over.                                                 *)
RegisterAgain(w) ==
    /\ alive[w]
    /\ loop[w].pc = "sleeping"
    /\ loop[w].age = Interval
    /\ loop' = [loop EXCEPT ![w] = [pc |-> "sending", age |-> 0]]
    /\ UNCHANGED <<reg, alive, down, fails, call>>

----------------------------------------------------------------------------
(* Predict takes its snapshot and Select filters it; with no eligible      *)
(* worker the call is answered Unavailable and leaves no trace.            *)
Predict(c, req) ==
    LET eligible == {w \in Snapshot : Eligible(w, req)}
    IN /\ call[c].pc = "idle"
       /\ eligible # {}
       /\ call' = [call EXCEPT ![c] = [pc |-> "routing", req |-> req,
              ptr |-> [w \in eligible |-> Shared], scores |-> [w \in {} |-> 0],
              worker |-> NoWorker, age |-> 0]]
       /\ UNCHANGED <<reg, alive, down, loop, fails>>

Unread(c) == DOMAIN call[c].ptr \ DOMAIN call[c].scores

(* The scan reads one record, in the order of the IDs and without the      *)
(* registry's lock.                                                        *)
ReadScore(c, w) ==
    LET rec == IF call[c].ptr[w] = Shared THEN reg[w] ELSE call[c].ptr[w]
        score == Score(w, call[c].req, rec)
        best == call[c].worker
        bestScore == IF best = NoWorker THEN 0 ELSE call[c].scores[best]
    IN /\ call[c].pc = "routing"
       /\ w \in Unread(c)
       /\ \A u \in Unread(c) : w <= u
       /\ call' = [call EXCEPT ![c] =
              [pc |-> IF Unread(c) = {w} THEN "forwarded" ELSE "routing",
               req |-> @.req, ptr |-> @.ptr, age |-> @.age,
               scores |-> [u \in DOMAIN @.scores \cup {w} |-> IF u = w THEN score ELSE @.scores[u]],
               worker |-> Scan(best, bestScore, w, score)]]
       /\ UNCHANGED <<reg, alive, down, loop, fails>>

(* The worker computes its answer, which is on its way to the router.      *)
WorkerAnswers(c) ==
    /\ call[c].pc = "forwarded"
    /\ alive[call[c].worker]
    /\ call' = [call EXCEPT ![c].pc = "answered"]
    /\ UNCHANGED <<reg, alive, down, loop, fails>>

(* A 200 answer arrives: Heartbeat with the measured latency and the load  *)
(* field read through the snapshot's pointer.                              *)
PredictReturns(c, ms) ==
    LET w == call[c].worker
        load == IF call[c].ptr[w] = Shared THEN reg[w].inFlight ELSE call[c].ptr[w].inFlight
    IN /\ call[c].pc = "answered"
       /\ Heartbeat(w, ms, load)
       /\ call' = [call EXCEPT ![c] = IdleCall]
       /\ UNCHANGED <<alive, down, loop, fails>>

(* Mutant of PredictFails: Heartbeat runs for failed calls too.            *)
PredictFailsHeartbeats(c) ==
    /\ call[c].pc \in {"forwarded", "answered"}
    /\ Heartbeat(call[c].worker, CHOOSE ms \in Latencies : TRUE, 0)
    /\ call' = [call EXCEPT ![c] = IdleCall]
    /\ UNCHANGED <<alive, down, loop, fails>>

(* The call fails: refused, timed out, not 200, or not decodable.  The     *)
(* registry is not told.                                                   *)
PredictFails(c) ==
    /\ call[c].pc \in {"forwarded", "answered"}
    /\ call' = [call EXCEPT ![c] = IdleCall]
    /\ UNCHANGED <<reg, alive, down, loop, fails>>

----------------------------------------------------------------------------
(* A worker process dies; a registration it sent may still arrive.         *)
Die(w) ==
    /\ w \in Mortal
    /\ alive[w]
    /\ alive' = [alive EXCEPT ![w] = FALSE]
    /\ down' = [down EXCEPT ![w] = 0]
    /\ loop' = [loop EXCEPT ![w] = IF @.pc = "sending" THEN @ ELSE [pc |-> "off", age |-> 0]]
    /\ UNCHANGED <<reg, fails, call>>

(* The RPC of a dead worker is over.                                       *)
Orphaned(w) ==
    /\ ~alive[w]
    /\ loop[w].pc \in {"handled", "sleeping"}
    /\ loop' = [loop EXCEPT ![w] = [pc |-> "off", age |-> 0]]
    /\ UNCHANGED <<reg, alive, down, fails, call>>

(* It is started again and registers at once.                              *)
Revive(w) ==
    /\ ~alive[w]
    /\ loop[w].pc = "off"
    /\ alive' = [alive EXCEPT ![w] = TRUE]
    /\ down' = [down EXCEPT ![w] = 0]
    /\ loop' = [loop EXCEPT ![w] = [pc |-> "sending", age |-> 0]]
    /\ fails' = [fails EXCEPT ![w] = TRUE]
    /\ UNCHANGED <<reg, call>>

(* The router restarts with an empty registry; its calls are lost.         *)
RestartRouter ==
    /\ reg' = [w \in Workers |-> NoRecord]
    /\ call' = [c \in Calls |-> IdleCall]
    /\ UNCHANGED <<alive, down, loop, fails>>

(* Time passes, unless a timeout or the end of a sleep is due.             *)
Due(w) ==
    \/ loop[w].pc \in {"sending", "handled"} /\ loop[w].age = RpcTimeout
    \/ loop[w].pc = "sleeping" /\ (loop[w].age = Interval \/ ~alive[w])

Tick ==
    /\ \A w \in Workers : ~Due(w)
    /\ \A c \in Calls : call[c].pc # "idle" => call[c].age < CallTimeout
    /\ reg' = [w \in Workers |-> [reg[w] EXCEPT !.age = Older(@, StaleAfter)]]
    /\ down' = [w \in Workers |-> IF alive[w] THEN 0 ELSE Older(down[w], DownCap)]
    /\ loop' = [w \in Workers |-> IF loop[w].pc = "off" THEN loop[w]
                                   ELSE [loop[w] EXCEPT !.age = @ + 1]]
    /\ call' = [c \in Calls |-> IF call[c].pc = "idle" THEN call[c]
                                ELSE [call[c] EXCEPT !.age = @ + 1]]
    /\ UNCHANGED <<alive, fails>>

WorkerStep(w) ==
    \/ RegisterWorker(w)
    \/ Registered(w)
    \/ RegistrationFails(w)
    \/ RegisterAgain(w)
    \/ Die(w)
    \/ Orphaned(w)
    \/ Revive(w)

CallStep(c) ==
    \/ \E req \in Requests : Predict(c, req)
    \/ \E w \in Workers : ReadScore(c, w)
    \/ WorkerAnswers(c)
    \/ \E ms \in Latencies : PredictReturns(c, ms)
    \/ PredictFails(c)

Next ==
    \/ \E w \in Workers : WorkerStep(w)
    \/ \E c \in Calls : CallStep(c)
    \/ RestartRouter
    \/ Tick

Spec == Init /\ [][Next]_vars

----------------------------------------------------------------------------
(* A dead worker leaves the pool: nothing it or the router had in flight   *)
(* when it died keeps it live for staleAfter and the longest timeout.      *)
DeadWorkerExpires == \A w \in Workers : Live(w) => down[w] < DownCap

(* A worker whose registrations all arrive is never taken for dead while   *)
(* the router knows it: the interval, slow RPCs and staleAfter fit.        *)
HealthyStaysLive ==
    \A w \in Workers : alive[w] /\ ~fails[w] /\ reg[w].known => Live(w)

(* A request that names a precision is only ever on its way to a worker    *)
(* that serves its model at that precision or a better one.  A name the    *)
(* enum does not have asks for nothing.                                    *)
RoutedToCapable ==
    \A c \in Calls : call[c].pc \in {"forwarded", "answered"} =>
        /\ call[c].req.model \in Supports[call[c].worker]
        /\ call[c].req.precision \in Known =>
              precisionRank(MaxPrecision(call[c].worker)) >= precisionRank(call[c].req.precision)

(* A request goes to the best of the scores the unlocked scan read,        *)
(* whatever heartbeats and registrations ran alongside.                    *)
RoutedToBest ==
    \A c \in Calls : call[c].pc \in {"forwarded", "answered"} =>
        IsBest(call[c].worker, call[c].scores)
=============================================================================
