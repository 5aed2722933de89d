----------------------------- MODULE FleetProofs ----------------------------
(***************************************************************************)
(* Proofs about the gateway under the fleet and any other clients, for     *)
(* every set of clients, keys and connections, every rate and burst, and   *)
(* any number of requests and restarts.                                    *)
(***************************************************************************)
EXTENDS Fleet, FiniteSetTheorems, TLAPS

USE LimitsAssumption

ConnType == [pc: {"free", "auth", "limit", "create", "allow", "handler",
                  "finish", "answered", "cut"},
             client: Clients \cup {NoClient}, status: Statuses \cup {NoStatus},
             reader: BOOLEAN]

InLimiter == {"limit", "create", "allow"}

(* A request that has not been answered has a client, and one that passed  *)
(* the key check while keys are configured shows one of them.              *)
ConnInv ==
    /\ conn \in [Conns -> ConnType]
    /\ \A c \in Conns :
          /\ conn[c].pc \in {"auth", "handler"} \cup InLimiter => conn[c].client \in Clients
          /\ conn[c].pc \in InLimiter /\ keys # {} => Key[conn[c].client] \in keys \ {NoKey}

(* The mutex: one request at a time is about to add a bucket, and nobody   *)
(* adds the same one before it.  A bucket once added stays.                *)
MutexInv ==
    /\ \A c, d \in Conns : conn[c].pc = "create" /\ conn[d].pc = "create" => c = d
    /\ \A c \in Conns :
          /\ conn[c].pc = "create" => ClientKey(conn[c].client) \notin DOMAIN buckets
          /\ conn[c].pc = "allow" => ClientKey(conn[c].client) \in DOMAIN buckets

(* A process that drains has used up a restart.                            *)
LivesInv ==
    /\ phase \in {"serving", "draining"}
    /\ bounds \in [requests: Nat, restarts: 0..MaxRestarts]
    /\ phase = "draining" => bounds.restarts < MaxRestarts

(* What a client can still take: a bucket that is not there is full.       *)
Tokens(k) == IF k \in DOMAIN buckets THEN buckets[k] ELSE Burst

(* What got through and what is left in the bucket never exceed one burst  *)
(* for each process so far.                                                *)
RateInv ==
    /\ \A k \in DOMAIN buckets : buckets[k] \in 0..Burst
    /\ excess \in [ClientKeys -> Nat]
    /\ \A k \in ClientKeys : excess[k] + Tokens(k) <= Burst * Lives

IInv == ConnInv /\ MutexInv /\ LivesInv /\ RateInv /\ BucketsBounded /\ GaugeIsExact

(* A client reads its answer, or gives up on it.                           *)
LetGo(c) ==
    /\ conn' = [conn EXCEPT ![c] = IF @.pc \in {"answered", "cut"} THEN Free
                                   ELSE [@ EXCEPT !.reader = FALSE]]
    /\ UNCHANGED <<phase, keys, buckets, gauge, served, excess, bounds>>

(* A request moves through the key check and the limiter.                  *)
Chain(c) == Authenticate(c) \/ Lookup(c) \/ Create(c) \/ Allow(c)

----------------------------------------------------------------------------
(* What the steps of the composition are to the gateway.                   *)
LEMMA GatewayView ==
    ASSUME [Next]_vars
    PROVE  \/ \E c \in Conns : Chain(c) \/ Finish(c)
           \/ \E c \in Conns, status \in Statuses : Handle(c, status)
           \/ \E c \in Conns, cl \in Clients, reader \in BOOLEAN : Arrive(c, cl, reader)
           \/ Tick \/ Shutdown \/ Restart
           \/ \E c : LetGo(c)
           \/ UNCHANGED gatewayVars
<1> DEFINE Goal == \/ \E c \in Conns : Chain(c) \/ Finish(c)
                   \/ \E c \in Conns, status \in Statuses : Handle(c, status)
                   \/ \E c \in Conns, cl \in Clients, reader \in BOOLEAN : Arrive(c, cl, reader)
                   \/ Tick \/ Shutdown \/ Restart
                   \/ \E c : LetGo(c)
                   \/ UNCHANGED gatewayVars
<1>1. ASSUME NEW v \in Vehicles, VehicleStep(v)
      PROVE  Goal
  <2>1. ASSUME NEW c \in Conns, SendInfer(v, c)
        PROVE  Goal
    BY <2>1, FleetClientAssumption DEF SendInfer
  <2>2. ASSUME Answered(v)
        PROVE  LetGo(vehicle[v].conn)
    BY <2>2 DEF Answered, LetGo
  <2>3. ASSUME SendFails(v)
        PROVE  UNCHANGED gatewayVars \/ LetGo(vehicle[v].conn)
    BY <2>3 DEF SendFails, LetGo, gatewayVars
  <2>4. TelemetryTick(v) \/ SendStats(v) \/ StopVehicle(v) => UNCHANGED gatewayVars
    BY DEF TelemetryTick, SendStats, StopVehicle
  <2> QED
    BY <1>1, <2>1, <2>2, <2>3, <2>4 DEF VehicleStep
<1>2. ASSUME GatewayStep
      PROVE  Goal
  BY <1>2 DEF GatewayStep, ConnStep, Chain
<1>3. ASSUME NEW kind \in Outcomes, Aggregate(kind)
      PROVE  UNCHANGED gatewayVars
  BY <1>3 DEF Aggregate
<1>4. StopAggregator \/ Cancel \/ UNCHANGED vars => UNCHANGED gatewayVars
  BY DEF StopAggregator, Cancel, vars
<1> QED
  BY <1>1, <1>2, <1>3, <1>4 DEF Next

(* The chain passes a request on, one stage at a time, or answers it.      *)
LEMMA ChainView ==
    ASSUME NEW c \in Conns, Chain(c)
    PROVE  /\ conn[c].pc \in {"auth"} \cup InLimiter
           /\ Answer(c, 400) \/ \E label \in {"handler"} \cup InLimiter : Pass(c, label)
           /\ UNCHANGED <<phase, keys, gauge, served, bounds>>
BY DEF Chain, Authenticate, Lookup, Create, Allow, InLimiter

(* The key check: a request is let through to the limiter with a key.      *)
LEMMA ConnStepInv ==
    ASSUME ConnInv, [Next]_vars
    PROVE  ConnInv'
<1> USE DEF InLimiter
<1>1. ASSUME NEW c \in Conns, Authenticate(c)
      PROVE  ConnInv'
  BY <1>1 DEF ConnInv, ConnType, Authenticate, Pass, Answer, Statuses
<1>2. ASSUME NEW c \in Conns, Lookup(c) \/ Create(c) \/ Allow(c)
      PROVE  ConnInv'
  <2>1. /\ conn[c].pc \in InLimiter /\ keys' = keys
        /\ (\E label \in {"create", "allow", "handler"} : Pass(c, label)) \/ Answer(c, 400)
    BY <1>2 DEF Lookup, Create, Allow
  <2>2. ASSUME NEW label \in {"create", "allow", "handler"}, Pass(c, label)
        PROVE  ConnInv'
    BY <2>1, <2>2 DEF ConnInv, ConnType, Pass
  <2>3. CASE Answer(c, 400)
    BY <2>1, <2>3 DEF ConnInv, ConnType, Answer, Statuses
  <2> QED
    BY <2>1, <2>2, <2>3
<1>3. ASSUME NEW c \in Conns, Finish(c)
      PROVE  ConnInv'
  <2>1. /\ conn[c].pc = "finish" /\ keys' = keys
        /\ Pass(c, "answered") \/ conn' = [conn EXCEPT ![c] = Free]
    BY <1>3 DEF Finish
  <2>2. CASE Pass(c, "answered")
    BY <2>1, <2>2 DEF ConnInv, ConnType, Pass
  <2>3. CASE conn' = [conn EXCEPT ![c] = Free]
    BY <2>1, <2>3 DEF ConnInv, ConnType, Free
  <2> QED
    BY <2>1, <2>2, <2>3
<1>4. ASSUME NEW c \in Conns, NEW status \in Statuses, Handle(c, status)
      PROVE  ConnInv'
  BY <1>4 DEF ConnInv, ConnType, Handle, Answer
<1>5. ASSUME NEW c \in Conns, NEW cl \in Clients, NEW reader \in BOOLEAN, Arrive(c, cl, reader)
      PROVE  ConnInv'
  BY <1>5 DEF ConnInv, ConnType, Arrive, FirstStage
<1>6. Tick \/ Shutdown \/ UNCHANGED gatewayVars => ConnInv'
  BY DEF ConnInv, Tick, Shutdown, gatewayVars
<1>7. ASSUME Restart
      PROVE  ConnInv'
  BY <1>7 DEF ConnInv, ConnType, Restart, Free
<1>8. ASSUME NEW c, LetGo(c)
      PROVE  ConnInv'
  <2>1. /\ keys' = keys
        /\ conn' = [conn EXCEPT ![c] = Free] \/ conn' = [conn EXCEPT ![c].reader = FALSE]
    BY <1>8 DEF LetGo
  <2>2. CASE conn' = [conn EXCEPT ![c] = Free]
    BY <2>1, <2>2 DEF ConnInv, ConnType, Free
  <2>3. CASE conn' = [conn EXCEPT ![c].reader = FALSE]
    <3>1. CASE c \in Conns
      <4> DEFINE r == [conn[c] EXCEPT !.reader = FALSE]
      <4>1. conn[c] \in ConnType
        BY <3>1 DEF ConnInv
      <4>2. r \in ConnType /\ r.pc = conn[c].pc /\ r.client = conn[c].client
        BY <4>1 DEF ConnType
      <4>3. conn' = [conn EXCEPT ![c] = r]
        BY <2>3
      <4> HIDE DEF r
      <4> QED
        BY <2>1, <3>1, <4>2, <4>3 DEF ConnInv
    <3>2. CASE c \notin Conns
      BY <2>1, <2>3, <3>2 DEF ConnInv
    <3> QED
      BY <3>1, <3>2
  <2> QED
    BY <2>1, <2>2, <2>3
<1> QED
  BY GatewayView, <1>1, <1>2, <1>3, <1>4, <1>5, <1>6, <1>7, <1>8 DEF Chain

(* What a step does to the requests that are inside the limiter.           *)
LEMMA MutexStepInv ==
    ASSUME ConnInv, MutexInv, [Next]_vars
    PROVE  MutexInv'
<1>1. ASSUME NEW c \in Conns, Lookup(c)
      PROVE  MutexInv'
  <2>1. CASE ClientKey(conn[c].client) \in DOMAIN buckets
    BY <1>1, <2>1 DEF Lookup, Pass, MutexInv, ConnInv, ConnType
  <2>2. CASE ClientKey(conn[c].client) \notin DOMAIN buckets
    BY <1>1, <2>2 DEF Lookup, Pass, MutexInv, ConnInv, ConnType
  <2> QED
    BY <2>1, <2>2
<1>2. ASSUME NEW c \in Conns, Create(c)
      PROVE  MutexInv'
  <2>1. /\ conn[c].pc = "create"
        /\ DOMAIN buckets' = DOMAIN buckets \cup {ClientKey(conn[c].client)}
        /\ Pass(c, "allow")
    BY <1>2 DEF Create
  <2>2. \A d \in Conns : conn'[d].pc # "create"
    BY <2>1 DEF Pass, MutexInv, ConnInv, ConnType
  <2>3. \A d \in Conns : conn'[d].pc = "allow" => ClientKey(conn'[d].client) \in DOMAIN buckets'
    BY <2>1 DEF Pass, MutexInv, ConnInv, ConnType
  <2> QED
    BY <2>2, <2>3 DEF MutexInv
<1>3. ASSUME DOMAIN buckets' = DOMAIN buckets,
             \A d \in Conns : conn'[d].pc \in {"create", "allow"} =>
                                conn'[d].pc = conn[d].pc /\ conn'[d].client = conn[d].client
      PROVE  MutexInv'
  BY <1>3 DEF MutexInv
<1>4. ASSUME NEW c \in Conns, Authenticate(c) \/ Allow(c) \/ Finish(c)
      PROVE  MutexInv'
  <2>1. DOMAIN buckets' = DOMAIN buckets
    BY <1>4 DEF Authenticate, Allow, Finish
  <2>2. \/ Answer(c, 400) \/ conn' = [conn EXCEPT ![c] = Free]
        \/ \E label \in {"limit", "handler", "answered"} : Pass(c, label)
    BY <1>4 DEF Authenticate, Allow, Finish
  <2>3. \A d \in Conns : conn'[d].pc \in {"create", "allow"} =>
                             conn'[d].pc = conn[d].pc /\ conn'[d].client = conn[d].client
    BY <2>2 DEF Answer, Pass, Free, ConnInv, ConnType
  <2> QED
    BY <1>3, <2>1, <2>3
<1>5. ASSUME NEW c \in Conns, NEW status \in Statuses, Handle(c, status)
      PROVE  MutexInv'
  BY <1>3, <1>5 DEF Handle, Answer, ConnInv, ConnType
<1>6. ASSUME NEW c \in Conns, NEW cl \in Clients, NEW reader \in BOOLEAN, Arrive(c, cl, reader)
      PROVE  MutexInv'
  BY <1>3, <1>6 DEF Arrive, FirstStage, ConnInv, ConnType
<1>7. Tick \/ Shutdown \/ UNCHANGED gatewayVars => MutexInv'
  BY <1>3 DEF Tick, Shutdown, gatewayVars
<1>8. ASSUME Restart
      PROVE  MutexInv'
  <2>1. \A d \in Conns : conn'[d].pc \notin {"create", "allow"}
    BY <1>8 DEF Restart, Free, ConnInv, ConnType
  <2> QED
    BY <2>1 DEF MutexInv
<1>9. ASSUME NEW c, LetGo(c)
      PROVE  MutexInv'
  <2>1. CASE conn' = [conn EXCEPT ![c] = Free]
    BY <1>3, <1>9, <2>1 DEF LetGo, Free, ConnInv, ConnType
  <2>2. CASE conn' = [conn EXCEPT ![c].reader = FALSE]
    BY <1>3, <1>9, <2>2 DEF LetGo, ConnInv, ConnType
  <2> QED
    BY <1>9, <2>1, <2>2 DEF LetGo
<1> QED
  BY GatewayView, <1>1, <1>2, <1>4, <1>5, <1>6, <1>7, <1>8, <1>9 DEF Chain

(* A termination and a start: how many processes there have been.          *)
LEMMA LivesStepInv ==
    ASSUME LivesInv, [Next]_vars
    PROVE  /\ LivesInv'
           /\ Lives \in Nat \ {0}
           /\ Lives' = IF phase = "draining" /\ phase' = "serving" THEN Lives + 1 ELSE Lives
           /\ Restart => phase = "draining" /\ phase' = "serving"
<1> USE GatewayBoundsAssumption DEF LivesInv, Lives
<1>1. Lives \in Nat \ {0}
  OBVIOUS
<1>2. ASSUME phase' = phase, bounds'.restarts = bounds.restarts,
             bounds' \in [requests: Nat, restarts: 0..MaxRestarts]
      PROVE  LivesInv' /\ Lives' = Lives
  BY <1>2
<1>3. ASSUME NEW c \in Conns, NEW cl \in Clients, NEW reader \in BOOLEAN, Arrive(c, cl, reader)
      PROVE  LivesInv' /\ Lives' = Lives /\ phase' = phase
  <2>1. /\ phase' = phase /\ bounds'.restarts = bounds.restarts
        /\ bounds' \in [requests: Nat, restarts: 0..MaxRestarts]
    BY <1>3 DEF Arrive, Use
  <2> QED
    BY <1>2, <2>1
<1>4. ASSUME Shutdown
      PROVE  LivesInv' /\ Lives' = Lives /\ phase' = "draining"
  <2>1. /\ phase = "serving" /\ phase' = "draining"
        /\ bounds'.restarts = bounds.restarts - 1 /\ bounds.restarts > 0
        /\ bounds' \in [requests: Nat, restarts: 0..MaxRestarts]
    BY <1>4 DEF Shutdown, Use
  <2> QED
    BY <2>1
<1>5. ASSUME Restart
      PROVE  LivesInv' /\ Lives' = Lives + 1 /\ phase = "draining" /\ phase' = "serving"
  BY <1>5 DEF Restart
<1>6. UNCHANGED <<phase, bounds>> => LivesInv' /\ Lives' = Lives /\ phase' = phase
  OBVIOUS
<1>7. \/ \E c \in Conns, cl \in Clients, reader \in BOOLEAN : Arrive(c, cl, reader)
      \/ Shutdown \/ Restart \/ UNCHANGED <<phase, bounds>>
  BY GatewayView DEF Chain, Authenticate, Lookup, Create, Allow, Finish, Handle, Tick, LetGo,
                     gatewayVars
<1> QED
  BY <1>1, <1>3, <1>4, <1>5, <1>6, <1>7

(* One more process may let one more burst through.                        *)
LEMMA MoreLives ==
    ASSUME NEW n \in Nat \ {0}
    PROVE  /\ Burst * n \in Nat /\ Burst <= Burst * n
           /\ Burst * (n + 1) = Burst * n + Burst
<1>1. PICK m \in Nat : n = m + 1
  <2>1. n - 1 \in Nat /\ n = (n - 1) + 1
    OBVIOUS
  <2> QED
    BY <2>1
<1>2. Burst * m \in Nat /\ Burst * (m + 1) = Burst * m + Burst
  OBVIOUS
<1> QED
  BY <1>1, <1>2

(* A tick gives the bucket at most what it takes from the excess.          *)
LEMMA Refill ==
    ASSUME NEW e \in Nat, NEW t \in 0..Burst, NEW limit \in Nat, Burst <= limit, e + t <= limit,
           NEW e1, e1 = IF e > Rate THEN e - Rate ELSE 0,
           NEW t1, t1 = IF t + Rate < Burst THEN t + Rate ELSE Burst
    PROVE  e1 + t1 <= limit
  OBVIOUS

(* The limiter and the clock: a token taken is a request let through.      *)
LEMMA RateStepInv ==
    ASSUME ConnInv, MutexInv, LivesInv, RateInv, [Next]_vars
    PROVE  RateInv'
<1> DEFINE limit == Burst * Lives
           limit1 == Burst * Lives'
<1>1. /\ limit \in Nat /\ Burst <= limit
      /\ limit1 = limit \/ limit1 = limit + Burst
      /\ Restart => limit1 = limit + Burst
  BY LivesStepInv, MoreLives
<1>2. /\ \A j \in ClientKeys : Tokens(j) \in 0..Burst /\ excess[j] \in Nat
      /\ \A j \in ClientKeys : excess[j] + Tokens(j) <= limit
      /\ excess \in [ClientKeys -> Nat] /\ \A j \in DOMAIN buckets : buckets[j] \in 0..Burst
  BY DEF RateInv, Tokens
<1>3. SUFFICES /\ \A j \in DOMAIN buckets' : buckets'[j] \in 0..Burst
               /\ excess' \in [ClientKeys -> Nat]
               /\ \A j \in ClientKeys : excess'[j] + Tokens(j)' <= limit1
  BY DEF RateInv
<1> HIDE DEF limit, limit1
<1> DEFINE Goal == /\ \A j \in DOMAIN buckets' : buckets'[j] \in 0..Burst
                   /\ excess' \in [ClientKeys -> Nat]
                   /\ \A j \in ClientKeys : excess'[j] + Tokens(j)' <= limit1
<1>4. ASSUME NEW c \in Conns, Create(c)
      PROVE  Goal
  <2> DEFINE k == ClientKey(conn[c].client)
  <2>1. k \notin DOMAIN buckets /\ excess' = excess
    BY <1>4 DEF Create, MutexInv
  <2>2. buckets' = [j \in DOMAIN buckets \cup {k} |-> IF j = k THEN Burst ELSE buckets[j]]
    BY <1>4 DEF Create
  <2> HIDE DEF k
  <2>3. \A j \in ClientKeys : Tokens(j)' = Tokens(j)
    BY <2>1, <2>2 DEF Tokens
  <2>4. \A j \in DOMAIN buckets' : buckets'[j] \in 0..Burst
    BY <1>2, <2>2
  <2> QED
    BY <1>1, <1>2, <2>1, <2>3, <2>4
<1>5. ASSUME NEW c \in Conns, Allow(c)
      PROVE  Goal
  <2> DEFINE k == ClientKey(conn[c].client)
  <2>1. k \in DOMAIN buckets /\ k \in ClientKeys
    BY <1>5 DEF Allow, MutexInv, ConnInv, InLimiter, ClientKeys
  <2>2. \/ /\ buckets[k] > 0
           /\ buckets' = [buckets EXCEPT ![k] = @ - 1]
           /\ excess' = [excess EXCEPT ![k] = @ + 1]
        \/ UNCHANGED <<buckets, excess>>
    BY <1>5 DEF Allow
  <2> HIDE DEF k
  <2>3. CASE UNCHANGED <<buckets, excess>>
    BY <1>1, <1>2, <2>3 DEF Tokens
  <2>4. CASE /\ buckets[k] > 0
             /\ buckets' = [buckets EXCEPT ![k] = @ - 1]
             /\ excess' = [excess EXCEPT ![k] = @ + 1]
    <3>1. \A j \in ClientKeys : Tokens(j)' = IF j = k THEN Tokens(k) - 1 ELSE Tokens(j)
      BY <2>1, <2>4 DEF Tokens
    <3>2. \A j \in ClientKeys : excess'[j] = IF j = k THEN excess[k] + 1 ELSE excess[j]
      BY <1>2, <2>1, <2>4
    <3>3. \A j \in ClientKeys : excess'[j] + Tokens(j)' <= limit1
      BY <1>1, <1>2, <2>1, <3>1, <3>2
    <3>4. excess' \in [ClientKeys -> Nat]
      BY <1>2, <2>1, <2>4
    <3>5. \A j \in DOMAIN buckets' : buckets'[j] \in 0..Burst
      BY <1>2, <2>1, <2>4
    <3> QED
      BY <3>3, <3>4, <3>5
  <2> QED
    BY <2>2, <2>3, <2>4
<1>6. ASSUME Tick
      PROVE  Goal
  <2>1. \A j \in ClientKeys :
          /\ Tokens(j)' = IF Tokens(j) + Rate < Burst THEN Tokens(j) + Rate ELSE Burst
          /\ excess'[j] = IF excess[j] > Rate THEN excess[j] - Rate ELSE 0
    BY <1>2, <1>6 DEF Tick, Tokens
  <2>2. \A j \in ClientKeys : excess'[j] + Tokens(j)' <= limit
    BY <1>1, <1>2, <2>1, Refill
  <2>3. \A j \in ClientKeys : excess'[j] \in Nat /\ Tokens(j)' \in Nat
    BY <1>2, <2>1
  <2>4. \A j \in ClientKeys : excess'[j] + Tokens(j)' <= limit1
    BY <1>1, <2>2, <2>3
  <2>5. \A j \in DOMAIN buckets' : buckets'[j] \in 0..Burst
    BY <1>2, <1>6 DEF Tick
  <2>6. excess' \in [ClientKeys -> Nat]
    BY <1>2, <1>6 DEF Tick
  <2> QED
    BY <2>4, <2>5, <2>6
<1>7. ASSUME Restart
      PROVE  Goal
  <2>1. DOMAIN buckets' = {} /\ excess' = excess
    BY <1>7 DEF Restart
  <2>2. \A j \in ClientKeys : Tokens(j)' = Burst
    BY <2>1 DEF Tokens
  <2> QED
    BY <1>1, <1>2, <1>7, <2>1, <2>2
<1>8. ASSUME UNCHANGED <<buckets, excess>>
      PROVE  Goal
  BY <1>1, <1>2, <1>8 DEF Tokens
<1>9. \/ \E c \in Conns : Create(c) \/ Allow(c)
      \/ Tick \/ Restart \/ UNCHANGED <<buckets, excess>>
  BY GatewayView DEF Chain, Authenticate, Lookup, Finish, Handle, Arrive, Shutdown, LetGo,
                     gatewayVars
<1> QED
  BY <1>4, <1>5, <1>6, <1>7, <1>8, <1>9

(* Only the limiter adds a bucket, behind the key check.                   *)
LEMMA BucketsStepInv ==
    ASSUME ConnInv, BucketsBounded, [Next]_vars
    PROVE  BucketsBounded'
<1>1. ASSUME NEW c \in Conns, Create(c)
      PROVE  BucketsBounded'
  <2>1. keys' = keys /\ DOMAIN buckets' = DOMAIN buckets \cup {ClientKey(conn[c].client)}
    BY <1>1 DEF Create
  <2>2. keys # {} => ClientKey(conn[c].client) \in keys
    BY <1>1 DEF Create, ConnInv, InLimiter, ClientKey
  <2> QED
    BY <2>1, <2>2 DEF BucketsBounded
<1>2. ASSUME keys' = keys, DOMAIN buckets' \subseteq DOMAIN buckets
      PROVE  BucketsBounded'
  BY <1>2 DEF BucketsBounded
<1>3. \/ \E c \in Conns : Create(c)
      \/ keys' = keys /\ DOMAIN buckets' \subseteq DOMAIN buckets
  BY GatewayView DEF Chain, Authenticate, Lookup, Allow, Finish, Handle, Arrive, Tick, Shutdown, Restart, LetGo,
                     gatewayVars
<1> QED
  BY <1>1, <1>2, <1>3

(* The gauge: in on arrival, out on the way back.                          *)
LEMMA GaugeStepInv ==
    ASSUME ConnInv, GaugeIsExact, [Next]_vars
    PROVE  GaugeIsExact'
<1>1. IsFiniteSet(InFlight) /\ Cardinality(InFlight) \in Nat
  BY ConnsAssumption, FS_Subset, FS_CardinalityType DEF InFlight
<1>2. ASSUME NEW c \in Conns, NEW cl \in Clients, NEW reader \in BOOLEAN, Arrive(c, cl, reader)
      PROVE  GaugeIsExact'
  <2>1. c \notin InFlight /\ InFlight' = InFlight \cup {c} /\ gauge' = gauge + 1
    BY <1>2 DEF Arrive, InFlight, FirstStage, ConnInv, ConnType
  <2> QED
    BY <1>1, <2>1, FS_AddElement DEF GaugeIsExact
<1>3. ASSUME NEW c \in Conns, Finish(c)
      PROVE  GaugeIsExact'
  <2>1. c \in InFlight /\ InFlight' = InFlight \ {c} /\ gauge' = gauge - 1
    BY <1>3 DEF Finish, Pass, Free, InFlight, ConnInv, ConnType
  <2> QED
    BY <1>1, <2>1, FS_RemoveElement DEF GaugeIsExact
<1>4. ASSUME Restart
      PROVE  GaugeIsExact'
  <2>1. InFlight' = {} /\ gauge' = 0
    BY <1>4 DEF Restart, Free, InFlight
  <2> QED
    BY <2>1, FS_EmptySet DEF GaugeIsExact
<1>5. ASSUME InFlight' = InFlight, gauge' = gauge
      PROVE  GaugeIsExact'
  BY <1>5 DEF GaugeIsExact
<1>6. ASSUME NEW c \in Conns, Chain(c)
      PROVE  InFlight' = InFlight /\ gauge' = gauge
  BY <1>6, ChainView DEF InLimiter, Pass, Answer, InFlight, ConnInv, ConnType
<1>7. ASSUME NEW c \in Conns, NEW status \in Statuses, Handle(c, status)
      PROVE  InFlight' = InFlight /\ gauge' = gauge
  BY <1>7 DEF Handle, Answer, InFlight, ConnInv, ConnType
<1>8. Tick \/ Shutdown \/ UNCHANGED gatewayVars => InFlight' = InFlight /\ gauge' = gauge
  BY DEF Tick, Shutdown, gatewayVars, InFlight
<1>9. ASSUME NEW c, LetGo(c)
      PROVE  InFlight' = InFlight /\ gauge' = gauge
  BY <1>9 DEF LetGo, Free, InFlight, ConnInv, ConnType
<1> QED
  BY GatewayView, <1>2, <1>3, <1>4, <1>5, <1>6, <1>7, <1>8, <1>9

----------------------------------------------------------------------------
(* The inductive invariant holds in every reachable state.                 *)
THEOREM Invariance == Spec => []IInv
<1>1. Init => IInv
  <2> SUFFICES ASSUME GatewayInit PROVE IInv
    BY DEF Init
  <2>1. ConnInv
    BY DEF GatewayInit, ConnInv, ConnType, InLimiter, Free
  <2>2. MutexInv /\ BucketsBounded
    BY DEF GatewayInit, MutexInv, BucketsBounded, Free
  <2>3. LivesInv /\ Lives = 1
    BY GatewayBoundsAssumption DEF GatewayInit, LivesInv, Lives
  <2>4. RateInv
    <3>1. Burst * Lives = Burst
      BY <2>3
    <3> QED
      BY <3>1 DEF GatewayInit, RateInv, Tokens
  <2>5. InFlight = {} /\ gauge = 0
    BY DEF GatewayInit, InFlight, Free
  <2> QED
    BY <2>1, <2>2, <2>3, <2>4, <2>5, FS_EmptySet DEF IInv, GaugeIsExact
<1>2. IInv /\ [Next]_vars => IInv'
  BY ConnStepInv, MutexStepInv, LivesStepInv, RateStepInv, BucketsStepInv, GaugeStepInv DEF IInv
<1> QED
  BY <1>1, <1>2, PTL DEF Spec

(* No client gets more through, over any period, than its rate allows and  *)
(* one burst for each process that served in it, however many of its       *)
(* requests race for its bucket and however often the process restarts.    *)
THEOREM RateIsLimited == Spec => []RateLimited
<1>1. IInv => RateLimited
  <2> SUFFICES ASSUME IInv, NEW k \in ClientKeys
               PROVE  excess[k] <= Burst * Lives
    BY DEF RateLimited
  <2>1. Tokens(k) \in Nat /\ excess[k] \in Nat /\ excess[k] + Tokens(k) <= Burst * Lives
    BY DEF IInv, RateInv, Tokens
  <2>2. Lives \in Nat
    BY GatewayBoundsAssumption DEF IInv, LivesInv, Lives
  <2> DEFINE limit == Burst * Lives
  <2>3. limit \in Nat /\ excess[k] + Tokens(k) <= limit
    BY <2>1, <2>2
  <2> HIDE DEF limit
  <2>4. excess[k] <= limit
    BY <2>1, <2>3
  <2> QED
    BY <2>4 DEF limit
<1> QED
  BY <1>1, Invariance, PTL

(* With keys configured the limiter's map never outgrows them.             *)
THEOREM BucketsAreBounded == Spec => []BucketsBounded
<1>1. IInv => BucketsBounded
  BY DEF IInv
<1> QED
  BY <1>1, Invariance, PTL

(* The gauge of open requests is exact on every way through the chain.     *)
THEOREM GaugeStaysExact == Spec => []GaugeIsExact
<1>1. IInv => GaugeIsExact
  BY DEF IInv
<1> QED
  BY <1>1, Invariance, PTL

----------------------------------------------------------------------------
(* The rest of the gateway's types.                                        *)
GatewayInv ==
    /\ phase \in {"serving", "draining"}
    /\ \E list \in KeyLists : keys \subseteq list
    /\ DOMAIN buckets \subseteq ClientKeys
    /\ served \in Nat
    /\ bounds \in [requests: Nat, restarts: Nat]

LoopState == [pc: {"select", "send", "wait", "report", "stopped"}, tick: 0..InferEvery - 1,
              conn: Conns \cup {NoConn}, delta: Outcomes]

(* A vehicle waits on a connection of the gateway.                         *)
FleetInv ==
    /\ vehicle \in [Vehicles -> LoopState]
    /\ \A v \in Vehicles : vehicle[v].pc = "wait" => vehicle[v].conn \in Conns
    /\ statsCh \in [ok: Nat, other: Nat]
    /\ Waiting <= Capacity
    /\ okTotal \in Nat
    /\ cancelled \in BOOLEAN
    /\ aggregating \in BOOLEAN

(* Successes on their way to okTotal: answers nobody has read yet, and     *)
(* vehicles about to report one.                                           *)
Unread == {c \in Conns : conn[c].pc = "answered" /\ conn[c].status = 200}
Claims == {v \in Vehicles : vehicle[v].delta = "ok"}

(* An answer has a status of its own.                                      *)
StatusInv == \A c \in Conns : conn[c].pc \in {"finish", "answered"} => conn[c].status \in Statuses

SuccessInv ==
    okTotal + statsCh.ok + Cardinality(Claims) + Cardinality(Unread) <= served

----------------------------------------------------------------------------
(* A part of a finite set is finite and no larger.                         *)
LEMMA Smaller ==
    ASSUME NEW S, IsFiniteSet(S), NEW T \in SUBSET S
    PROVE  /\ IsFiniteSet(T) /\ Cardinality(T) \in Nat /\ Cardinality(S) \in Nat
           /\ Cardinality(T) <= Cardinality(S)
BY FS_Subset, FS_CardinalityType

(* One element more at most.                                               *)
LEMMA OneMore ==
    ASSUME NEW S, IsFiniteSet(S), NEW x, NEW T \in SUBSET (S \cup {x})
    PROVE  Cardinality(T) <= Cardinality(S) + 1
<1>1. /\ IsFiniteSet(S \cup {x}) /\ Cardinality(S) \in Nat
      /\ Cardinality(S \cup {x}) = Cardinality(S) + (IF x \in S THEN 0 ELSE 1)
  BY FS_AddElement, FS_CardinalityType
<1>2. Cardinality(T) \in Nat /\ Cardinality(T) <= Cardinality(S \cup {x})
  BY <1>1, Smaller
<1> QED
  BY <1>1, <1>2

(* One element less at least.                                              *)
LEMMA OneLess ==
    ASSUME NEW S, IsFiniteSet(S), NEW x \in S, NEW T \in SUBSET (S \ {x})
    PROVE  Cardinality(T) <= Cardinality(S) - 1
<1>1. /\ IsFiniteSet(S \ {x}) /\ Cardinality(S) \in Nat
      /\ Cardinality(S \ {x}) = Cardinality(S) - 1
  BY FS_RemoveElement, FS_CardinalityType
<1>2. Cardinality(T) \in Nat /\ Cardinality(T) <= Cardinality(S \ {x})
  BY <1>1, Smaller
<1> QED
  BY <1>1, <1>2

(* A vehicle sends, and reports on what became of it.                      *)
Sending(r, c) == [r EXCEPT !.pc = "wait", !.conn = c]
Reporting(r, delta) == [r EXCEPT !.pc = "report", !.delta = delta, !.conn = NoConn]
Reported(r) == [r EXCEPT !.pc = "select", !.delta = "other"]

(* What these three leave of a vehicle's loop state.                       *)
LEMMA LoopFacts ==
    ASSUME NEW r \in LoopState, NEW c \in Conns, NEW delta \in Outcomes
    PROVE  /\ Sending(r, c) \in LoopState /\ Sending(r, c).pc = "wait" /\ Sending(r, c).conn = c
           /\ Sending(r, c).delta = r.delta
           /\ Reporting(r, delta) \in LoopState /\ Reporting(r, delta).pc = "report"
           /\ Reporting(r, delta).delta = delta
           /\ Reported(r) \in LoopState /\ Reported(r).pc = "select" /\ Reported(r).delta = "other"
<1>1. /\ Sending(r, c) \in LoopState /\ Sending(r, c).pc = "wait" /\ Sending(r, c).conn = c
      /\ Sending(r, c).delta = r.delta
  BY DEF Sending, LoopState
<1>2. /\ Reporting(r, delta) \in LoopState /\ Reporting(r, delta).pc = "report"
      /\ Reporting(r, delta).delta = delta
  BY DEF Reporting, LoopState
<1>3. Reported(r) \in LoopState /\ Reported(r).pc = "select" /\ Reported(r).delta = "other"
  BY DEF Reported, LoopState, Outcomes
<1> QED
  BY <1>1, <1>2, <1>3

----------------------------------------------------------------------------
(* Every step keeps the gateway's counts in their ranges.                  *)
LEMMA GatewayStepInv ==
    ASSUME ConnInv, GatewayInv, [Next]_vars
    PROVE  GatewayInv'
<1> USE DEF GatewayInv
<1>1. \A k \in {"requests", "restarts"} : Use(k) => bounds' \in [requests: Nat, restarts: Nat]
  BY DEF Use
<1>2. ASSUME NEW c \in Conns, Create(c)
      PROVE  GatewayInv'
  <2>1. conn[c].client \in Clients
    BY <1>2 DEF Create, ConnInv, InLimiter
  <2>2. DOMAIN buckets' = DOMAIN buckets \cup {ClientKey(conn[c].client)}
    BY <1>2 DEF Create
  <2>3. DOMAIN buckets' \subseteq ClientKeys
    BY <2>1, <2>2 DEF ClientKeys
  <2> QED
    BY <1>2, <2>3 DEF Create
<1>3. ASSUME NEW c \in Conns, Finish(c)
      PROVE  GatewayInv'
  BY <1>3 DEF Finish
<1>4. ASSUME NEW c \in Conns, NEW cl \in Clients, NEW reader \in BOOLEAN, Arrive(c, cl, reader)
      PROVE  GatewayInv'
  BY <1>1, <1>4 DEF Arrive
<1>5. Tick \/ Restart => GatewayInv'
  BY DEF Tick, Restart
<1>6. Shutdown => GatewayInv'
  BY <1>1 DEF Shutdown
<1>7. /\ UNCHANGED <<phase, keys, served, bounds>> /\ DOMAIN buckets' = DOMAIN buckets
      => GatewayInv'
  OBVIOUS
<1>8. ASSUME NEW c \in Conns, Authenticate(c) \/ Lookup(c) \/ Allow(c)
      PROVE  GatewayInv'
  BY <1>7, <1>8 DEF Authenticate, Lookup, Allow
<1> QED
  BY GatewayView, <1>2, <1>3, <1>4, <1>5, <1>6, <1>7, <1>8
     DEF Chain, Handle, LetGo, gatewayVars

(* What the answer of the gateway, or its absence, makes of a vehicle.     *)
LEMMA ReportFacts ==
    ASSUME FleetInv, NEW v \in Vehicles, NEW delta \in Outcomes, Report(v, delta)
    PROVE  /\ vehicle' \in [Vehicles -> LoopState]
           /\ vehicle'[v].pc = "report" /\ vehicle'[v].delta = delta
           /\ \A w \in Vehicles \ {v} : vehicle'[w] = vehicle[w]
<1>1. vehicle[v] \in LoopState /\ vehicle \in [Vehicles -> LoopState]
  BY DEF FleetInv
<1>2. vehicle' = [vehicle EXCEPT ![v] = Reporting(vehicle[v], delta)]
  BY DEF Report, Reporting
<1>3. /\ Reporting(vehicle[v], delta) \in LoopState
      /\ Reporting(vehicle[v], delta).pc = "report"
      /\ Reporting(vehicle[v], delta).delta = delta
  <2>1. CASE Conns = {}
    BY <1>1 DEF Reporting, LoopState
  <2>2. CASE Conns # {}
    BY <1>1, <2>2, LoopFacts
  <2> QED
    BY <2>1, <2>2
<1> QED
  BY <1>1, <1>2, <1>3

(* What each step does to one vehicle and its channel.                     *)
VehicleMoves(v) ==
    \/ /\ vehicle'[v].delta = "other" /\ vehicle'[v].pc # "wait"
       /\ UNCHANGED <<gatewayVars, statsCh, okTotal>>
    \/ \E c \in Conns : /\ Arrive(c, FleetClient, TRUE)
                         /\ vehicle'[v].pc = "wait" /\ vehicle'[v].conn = c
                         /\ vehicle'[v].delta = vehicle[v].delta
                         /\ UNCHANGED <<statsCh, okTotal>>
    \/ /\ Answered(v) /\ vehicle[v].conn \in Conns
       /\ vehicle'[v].delta = StatusOutcome(conn[vehicle[v].conn].status)
       /\ vehicle'[v].pc = "report"
    \/ SendFails(v) /\ vehicle'[v].delta = "other" /\ vehicle'[v].pc = "report"
    \/ /\ Offer(vehicle[v].delta) /\ vehicle'[v].delta = "other" /\ vehicle'[v].pc = "select"
       /\ UNCHANGED <<gatewayVars, okTotal>>

(* A step of a vehicle's loop changes its own state and the statistics     *)
(* channel, and nothing of the aggregator.                                 *)
LEMMA VehicleView ==
    ASSUME FleetInv, NEW v \in Vehicles, VehicleStep(v)
    PROVE  /\ VehicleMoves(v)
           /\ vehicle' \in [Vehicles -> LoopState]
           /\ \A w \in Vehicles \ {v} : vehicle'[w] = vehicle[w]
           /\ UNCHANGED <<okTotal, cancelled, aggregating>>
           /\ statsCh' = statsCh \/ Offer(vehicle[v].delta)
<1> DEFINE Goal == /\ VehicleMoves(v)
                   /\ vehicle' \in [Vehicles -> LoopState]
                   /\ \A w \in Vehicles \ {v} : vehicle'[w] = vehicle[w]
                   /\ UNCHANGED <<okTotal, cancelled, aggregating>>
                   /\ statsCh' = statsCh \/ Offer(vehicle[v].delta)
<1>1. vehicle \in [Vehicles -> LoopState] /\ vehicle[v] \in LoopState
  BY DEF FleetInv
<1>2. ASSUME TelemetryTick(v)
      PROVE  Goal
  <2> DEFINE tick == (vehicle[v].tick + 1) % InferEvery
             label == IF tick = 0 THEN "send" ELSE "report"
             r == [pc |-> label, tick |-> tick, conn |-> NoConn, delta |-> "other"]
  <2>1. tick \in 0..InferEvery - 1
    BY <1>1, InferEveryAssumption DEF LoopState
  <2>2. r \in LoopState
    BY <2>1 DEF LoopState, Outcomes
  <2>3. vehicle' = [vehicle EXCEPT ![v] = r]
    <3>1. r = [Idle EXCEPT !.tick = tick, !.pc = label]
      <4> DEFINE r1 == [pc |-> "select", tick |-> tick, conn |-> NoConn, delta |-> "other"]
      <4> HIDE DEF tick, label
      <4>1. [Idle EXCEPT !.tick = tick] = r1
        BY DEF Idle
      <4>2. [r1 EXCEPT !.pc = label] = r
        OBVIOUS
      <4> HIDE DEF r, r1
      <4> QED
        BY <4>1, <4>2
    <3> QED
      BY <1>2, <3>1 DEF TelemetryTick
  <2>4. UNCHANGED <<gatewayVars, statsCh, okTotal, cancelled, aggregating>>
    BY <1>2 DEF TelemetryTick
  <2>5. r.delta = "other" /\ r.pc # "wait"
    OBVIOUS
  <2> HIDE DEF r
  <2> QED
    BY <1>1, <2>2, <2>3, <2>4, <2>5 DEF VehicleMoves
<1>3. ASSUME NEW c \in Conns, SendInfer(v, c)
      PROVE  Goal
  <2>1. vehicle' = [vehicle EXCEPT ![v] = Sending(vehicle[v], c)]
    BY <1>3 DEF SendInfer, Sending
  <2>2. /\ Sending(vehicle[v], c) \in LoopState
        /\ Sending(vehicle[v], c).pc = "wait" /\ Sending(vehicle[v], c).conn = c
        /\ Sending(vehicle[v], c).delta = vehicle[v].delta
    BY <1>1, LoopFacts DEF Outcomes
  <2>3. Arrive(c, FleetClient, TRUE) /\ UNCHANGED <<statsCh, okTotal, cancelled, aggregating>>
    BY <1>3 DEF SendInfer
  <2> QED
    BY <1>1, <2>1, <2>2, <2>3 DEF VehicleMoves
<1>4. ASSUME Answered(v)
      PROVE  Goal
  <2>1. /\ Report(v, StatusOutcome(conn[vehicle[v].conn].status))
        /\ UNCHANGED <<statsCh, okTotal, cancelled, aggregating>>
    BY <1>4 DEF Answered
  <2>2. StatusOutcome(conn[vehicle[v].conn].status) \in Outcomes
    BY DEF StatusOutcome, Outcomes
  <2>3. vehicle[v].conn \in Conns
    BY <1>4 DEF Answered, FleetInv
  <2> QED
    BY <1>4, <2>1, <2>2, <2>3, ReportFacts DEF VehicleMoves
<1>5. ASSUME SendFails(v)
      PROVE  Goal
  <2>1. /\ Report(v, "other")
        /\ UNCHANGED <<statsCh, okTotal, cancelled, aggregating>>
    BY <1>5 DEF SendFails
  <2>2. "other" \in Outcomes
    BY DEF Outcomes
  <2> QED
    BY <1>5, <2>1, <2>2, ReportFacts DEF VehicleMoves
<1>6. ASSUME SendStats(v)
      PROVE  Goal
  <2>1. vehicle' = [vehicle EXCEPT ![v] = Reported(vehicle[v])]
    BY <1>6 DEF SendStats, Reported
  <2>2. Reported(vehicle[v]) \in LoopState /\ Reported(vehicle[v]).pc = "select" /\ Reported(vehicle[v]).delta = "other"
    BY <1>1 DEF Reported, LoopState, Outcomes
  <2>3. Offer(vehicle[v].delta) /\ UNCHANGED <<gatewayVars, okTotal, cancelled, aggregating>>
    BY <1>6 DEF SendStats
  <2> QED
    BY <1>1, <2>1, <2>2, <2>3 DEF VehicleMoves
<1>7. ASSUME StopVehicle(v)
      PROVE  Goal
  <2> DEFINE r == [pc |-> "stopped", tick |-> 0, conn |-> NoConn, delta |-> "other"]
  <2>1. r \in LoopState
    BY InferEveryAssumption DEF LoopState, Outcomes
  <2>2. vehicle' = [vehicle EXCEPT ![v] = r]
    <3>1. r = [Idle EXCEPT !.pc = "stopped"]
      BY DEF Idle
    <3> QED
      BY <1>7, <3>1 DEF StopVehicle
  <2>3. UNCHANGED <<gatewayVars, statsCh, okTotal, cancelled, aggregating>>
    BY <1>7 DEF StopVehicle
  <2>4. r.delta = "other" /\ r.pc # "wait"
    OBVIOUS
  <2> HIDE DEF r
  <2> QED
    BY <1>1, <2>1, <2>2, <2>3, <2>4 DEF VehicleMoves
<1> QED
  BY <1>2, <1>3, <1>4, <1>5, <1>6, <1>7 DEF VehicleStep

(* The non-blocking send, on a channel with room and on a full one.        *)
LEMMA OfferFacts ==
    ASSUME FleetInv, NEW kind \in Outcomes, Offer(kind)
    PROVE  /\ statsCh' \in [ok: Nat, other: Nat] /\ Waiting' <= Capacity
           /\ statsCh'.ok <= statsCh.ok + (IF kind = "ok" THEN 1 ELSE 0)
<1>1. Capacity \in Nat /\ statsCh \in [ok: Nat, other: Nat] /\ Waiting <= Capacity
  BY VehiclesAssumption, FS_CardinalityType DEF FleetInv, Capacity
<1>2. CASE statsCh' = statsCh
  BY <1>1, <1>2 DEF Waiting
<1>3. CASE Waiting < Capacity /\ statsCh' = [statsCh EXCEPT ![kind] = @ + 1]
  <2>1. CASE kind = "ok"
    <3>1. /\ statsCh' \in [ok: Nat, other: Nat]
          /\ statsCh'.ok = statsCh.ok + 1 /\ statsCh'.other = statsCh.other
      BY <1>1, <1>3, <2>1
    <3> QED
      BY <1>1, <1>3, <2>1, <3>1 DEF Waiting
  <2>2. CASE kind = "other"
    <3>1. /\ statsCh' \in [ok: Nat, other: Nat]
          /\ statsCh'.ok = statsCh.ok /\ statsCh'.other = statsCh.other + 1
      BY <1>1, <1>3, <2>2
    <3> QED
      BY <1>1, <1>3, <2>2, <3>1 DEF Waiting
  <2> QED
    BY <2>1, <2>2 DEF Outcomes
<1> QED
  BY <1>2, <1>3 DEF Offer

(* The aggregator takes a delta from the channel.                          *)
LEMMA AggregateFacts ==
    ASSUME FleetInv, NEW kind \in Outcomes, Aggregate(kind)
    PROVE  /\ statsCh' \in [ok: Nat, other: Nat] /\ Waiting' <= Waiting
           /\ okTotal' \in Nat /\ okTotal' + statsCh'.ok = okTotal + statsCh.ok
<1>1. statsCh \in [ok: Nat, other: Nat] /\ okTotal \in Nat
  BY DEF FleetInv
<1>2. CASE kind = "ok"
  <2>1. /\ statsCh' \in [ok: Nat, other: Nat]
        /\ statsCh'.ok = statsCh.ok - 1 /\ statsCh'.other = statsCh.other
    BY <1>1, <1>2 DEF Aggregate
  <2>2. okTotal' = okTotal + 1
    BY <1>2 DEF Aggregate
  <2> QED
    BY <1>1, <2>1, <2>2 DEF Waiting
<1>3. CASE kind = "other"
  <2>1. /\ statsCh' \in [ok: Nat, other: Nat]
        /\ statsCh'.ok = statsCh.ok /\ statsCh'.other = statsCh.other - 1
    BY <1>1, <1>3 DEF Aggregate
  <2>2. okTotal' = okTotal
    BY <1>3 DEF Aggregate
  <2> QED
    BY <1>1, <2>1, <2>2 DEF Waiting
<1> QED
  BY <1>2, <1>3 DEF Outcomes

(* Every step keeps the fleet's loops and its statistics channel in order. *)
LEMMA FleetStepInv ==
    ASSUME FleetInv, [Next]_vars
    PROVE  FleetInv'
<1>1. Waiting \in Nat /\ Capacity \in Nat
  BY VehiclesAssumption, FS_CardinalityType DEF FleetInv, Capacity, Waiting
<1>2. ASSUME NEW v \in Vehicles, VehicleStep(v)
      PROVE  FleetInv'
  <2>1. /\ VehicleMoves(v)
        /\ vehicle' \in [Vehicles -> LoopState]
        /\ \A w \in Vehicles \ {v} : vehicle'[w] = vehicle[w]
        /\ UNCHANGED <<okTotal, cancelled, aggregating>>
        /\ statsCh' = statsCh \/ Offer(vehicle[v].delta)
    BY <1>2, VehicleView
  <2>2. vehicle'[v].pc = "wait" => vehicle'[v].conn \in Conns
    BY <2>1 DEF VehicleMoves
  <2>3. vehicle[v].delta \in Outcomes
    BY DEF FleetInv, LoopState
  <2>4. statsCh' \in [ok: Nat, other: Nat] /\ Waiting' <= Capacity
    BY <2>1, <2>3, OfferFacts DEF FleetInv, Waiting
  <2> QED
    BY <2>1, <2>2, <2>4 DEF FleetInv, Capacity
<1>3. ASSUME NEW kind \in Outcomes, Aggregate(kind)
      PROVE  FleetInv'
  <2>1. /\ statsCh' \in [ok: Nat, other: Nat] /\ Waiting' <= Waiting /\ okTotal' \in Nat
    BY <1>3, AggregateFacts
  <2>2. Waiting' \in Nat
    BY <2>1 DEF Waiting
  <2>3. Waiting' <= Capacity
    BY <1>1, <2>1, <2>2 DEF FleetInv
  <2> QED
    BY <1>3, <2>1, <2>3 DEF FleetInv, Aggregate, Capacity
<1>4. StopAggregator \/ Cancel \/ UNCHANGED fleetVars => FleetInv'
  BY DEF FleetInv, StopAggregator, Cancel, fleetVars, Waiting, Capacity
<1> QED
  BY <1>2, <1>3, <1>4 DEF Next, vars

----------------------------------------------------------------------------
(* What the chain has answered.                                            *)
LEMMA StatusStepInv ==
    ASSUME ConnInv, StatusInv, [Next]_vars
    PROVE  StatusInv'
<1> USE DEF StatusInv
<1>1. ASSUME NEW c \in Conns, NEW status \in Statuses, Answer(c, status)
      PROVE  StatusInv'
  BY <1>1 DEF Answer, ConnInv, ConnType
<1>2. ASSUME NEW c \in Conns, NEW label, Pass(c, label), label \in {"handler"} \cup InLimiter \/ conn[c].pc = "finish"
      PROVE  StatusInv'
  BY <1>2 DEF Pass, ConnInv, ConnType, InLimiter
<1>3. ASSUME NEW c, conn' = [conn EXCEPT ![c] = Free]
      PROVE  StatusInv'
  BY <1>3 DEF Free, ConnInv, ConnType
<1>4. conn' = conn => StatusInv'
  OBVIOUS
<1>5. ASSUME NEW c \in Conns, Chain(c)
      PROVE  StatusInv'
  BY <1>1, <1>2, <1>5, ChainView DEF Statuses
<1>6. ASSUME NEW c \in Conns, Finish(c)
      PROVE  StatusInv'
  BY <1>2, <1>3, <1>6 DEF Finish
<1>7. ASSUME NEW c \in Conns, NEW status \in Statuses, Handle(c, status)
      PROVE  StatusInv'
  BY <1>1, <1>7 DEF Handle
<1>8. ASSUME NEW c \in Conns, NEW cl \in Clients, NEW reader \in BOOLEAN, Arrive(c, cl, reader)
      PROVE  StatusInv'
  BY <1>8 DEF Arrive, FirstStage, ConnInv, ConnType
<1>9. Restart => StatusInv'
  BY DEF Restart, Free, ConnInv, ConnType
<1>10. ASSUME NEW c, LetGo(c)
       PROVE  StatusInv'
  <2>1. CASE conn' = [conn EXCEPT ![c] = Free]
    BY <1>3, <2>1
  <2>2. CASE conn' = [conn EXCEPT ![c].reader = FALSE]
    BY <2>2 DEF ConnInv, ConnType
  <2> QED
    BY <1>10, <2>1, <2>2 DEF LetGo
<1> QED
  BY GatewayView, <1>4, <1>5, <1>6, <1>7, <1>8, <1>9, <1>10 DEF Tick, Shutdown, gatewayVars

(* What a step adds to either side of SuccessInv, in numbers.              *)
LEMMA Balance ==
    ASSUME NEW m \in Nat, NEW n \in Nat, NEW u \in Nat, NEW u1 \in Nat, NEW s \in Nat, NEW s1 \in Nat,
           n <= m, m + u <= s, u1 + s <= u + s1
    PROVE  n + u1 <= s1
  OBVIOUS

(* A success is on the gateway's metrics before anybody can read it.       *)
LEMMA UnreadStep ==
    ASSUME ConnInv, GatewayInv, [Next]_vars
    PROVE  /\ Cardinality(Unread') + served <= Cardinality(Unread) + served'
           /\ served <= served' /\ served' \in Nat
           /\ Cardinality(Unread) \in Nat /\ Cardinality(Unread') \in Nat
<1> DEFINE Goal == /\ Cardinality(Unread') + served <= Cardinality(Unread) + served'
                   /\ served <= served' /\ served' \in Nat
<1>1. /\ IsFiniteSet(Unread) /\ IsFiniteSet(Unread') /\ served \in Nat
      /\ Cardinality(Unread) \in Nat /\ Cardinality(Unread') \in Nat
  BY ConnsAssumption, Smaller DEF Unread, GatewayInv
<1>2. ASSUME Unread' \subseteq Unread, served' = served \/ served' = served + 1
      PROVE  Goal
  <2>1. Cardinality(Unread') <= Cardinality(Unread)
    BY <1>1, <1>2, Smaller
  <2> QED
    BY <1>1, <1>2, <2>1
<1>3. ASSUME NEW c \in Conns, Finish(c)
      PROVE  Goal
  <2>1. CASE conn[c].status = 200
    <3>1. Unread' \in SUBSET (Unread \cup {c}) /\ served' = served + 1
      BY <1>3, <2>1 DEF Finish, Pass, Free, Unread, ConnInv, ConnType
    <3>2. Cardinality(Unread') <= Cardinality(Unread) + 1
      BY <1>1, <3>1, OneMore
    <3> QED
      BY <1>1, <3>1, <3>2
  <2>2. CASE conn[c].status # 200
    <3>1. Unread' \subseteq Unread
      BY <1>3, <2>2 DEF Finish, Pass, Free, Unread, ConnInv, ConnType
    <3>2. served' = served
      BY <1>1, <1>3, <2>2 DEF Finish
    <3> QED
      BY <1>2, <3>1, <3>2
  <2> QED
    BY <2>1, <2>2
<1>4. ASSUME NEW c \in Conns, Chain(c)
      PROVE  Unread' \subseteq Unread /\ served' = served
  BY <1>4, ChainView DEF InLimiter, Pass, Answer, Unread, ConnInv, ConnType
<1>5. ASSUME NEW c \in Conns, NEW status \in Statuses, Handle(c, status)
      PROVE  Unread' \subseteq Unread /\ served' = served
  BY <1>5 DEF Handle, Answer, Unread, ConnInv, ConnType
<1>6. ASSUME NEW c \in Conns, NEW cl \in Clients, NEW reader \in BOOLEAN, Arrive(c, cl, reader)
      PROVE  Unread' \subseteq Unread /\ served' = served
  BY <1>6 DEF Arrive, FirstStage, Unread, ConnInv, ConnType
<1>7. Restart => Unread' \subseteq Unread /\ served' = served
  BY DEF Restart, Free, Unread, ConnInv, ConnType
<1>8. ASSUME NEW c, LetGo(c)
      PROVE  Unread' \subseteq Unread /\ served' = served
  BY <1>8 DEF LetGo, Free, Unread, ConnInv, ConnType
<1>9. Tick \/ Shutdown \/ UNCHANGED gatewayVars => Unread' \subseteq Unread /\ served' = served
  BY DEF Tick, Shutdown, gatewayVars, Unread
<1> QED
  BY GatewayView, <1>1, <1>2, <1>3, <1>4, <1>5, <1>6, <1>7, <1>8, <1>9

(* One success is counted in one of four places at a time, or lost.        *)
LEMMA SuccessStepInv ==
    ASSUME ConnInv, GatewayInv, FleetInv, FleetInv', StatusInv, SuccessInv, [Next]_vars
    PROVE  SuccessInv'
<1> DEFINE nU == Cardinality(Unread)
           nU1 == Cardinality(Unread')
           nC == Cardinality(Claims)
           nC1 == Cardinality(Claims')
<1>1. /\ nU1 + served <= nU + served' /\ served <= served' /\ served' \in Nat /\ served \in Nat
      /\ nU \in Nat /\ nU1 \in Nat
  BY UnreadStep DEF GatewayInv
<1>2. /\ IsFiniteSet(Claims) /\ IsFiniteSet(Claims') /\ nC \in Nat /\ nC1 \in Nat
      /\ IsFiniteSet(Unread)
  BY VehiclesAssumption, ConnsAssumption, Smaller DEF Claims, Unread
<1>3. /\ statsCh.ok \in Nat /\ statsCh'.ok \in Nat /\ okTotal \in Nat /\ okTotal' \in Nat
      /\ okTotal + statsCh.ok + nC + nU <= served
  BY DEF FleetInv, SuccessInv
<1> SUFFICES okTotal' + statsCh'.ok + nC1 + nU1 <= served'
  BY DEF SuccessInv
<1>4. Claims' \subseteq Claims => nC1 <= nC
  BY <1>2, Smaller
<1> HIDE DEF nU, nU1, nC, nC1
<1>5. ASSUME nC1 <= nC, okTotal' + statsCh'.ok <= okTotal + statsCh.ok
      PROVE  okTotal' + statsCh'.ok + nC1 + nU1 <= served'
  <2> DEFINE a == okTotal + statsCh.ok
             a1 == okTotal' + statsCh'.ok
  <2>1. a \in Nat /\ a1 \in Nat /\ a1 <= a /\ a + nC + nU <= served
    BY <1>3, <1>5
  <2> HIDE DEF a, a1
  <2>2. nC1 \in Nat /\ nC \in Nat /\ nC1 <= nC
    BY <1>2, <1>5
  <2>3. a1 + nC1 \in Nat /\ a + nC \in Nat /\ a1 + nC1 <= a + nC
    BY <2>1, <2>2
  <2>4. a1 + nC1 + nU1 <= served'
    <3> DEFINE m == a + nC
               n == a1 + nC1
    <3>1. m \in Nat /\ n \in Nat /\ n <= m
      BY <2>3
    <3>2. m + nU <= served
      BY <2>1
    <3>3. nU1 + served <= nU + served' /\ served' \in Nat /\ served \in Nat /\ nU \in Nat /\ nU1 \in Nat
      BY <1>1
    <3> HIDE DEF m, n
    <3>4. n + nU1 <= served'
      BY <3>1, <3>2, <3>3, Balance
    <3> QED
      BY <3>4 DEF n
  <2> QED
    BY <2>4 DEF a1
<1>6. ASSUME NEW v \in Vehicles, VehicleStep(v)
      PROVE  okTotal' + statsCh'.ok + nC1 + nU1 <= served'
  <2>1. /\ VehicleMoves(v)
        /\ \A w \in Vehicles \ {v} : vehicle'[w] = vehicle[w]
        /\ okTotal' = okTotal
    BY <1>6, VehicleView
  <2>2. vehicle'[v].delta \in {"other", vehicle[v].delta} => Claims' \subseteq Claims
    BY <2>1 DEF Claims
  <2>3. ASSUME Answered(v), vehicle[v].conn \in Conns,
               vehicle'[v].delta = StatusOutcome(conn[vehicle[v].conn].status)
        PROVE  okTotal' + statsCh'.ok + nC1 + nU1 <= served'
    <3> DEFINE c == vehicle[v].conn
    <3>1. /\ conn[c].pc = "answered" /\ conn' = [conn EXCEPT ![c] = Free]
          /\ statsCh' = statsCh /\ served' = served
      BY <2>3 DEF Answered
    <3>2. conn[c].status \in Statuses
      BY <2>3, <3>1 DEF StatusInv
    <3>3. CASE conn[c].status = 200
      <4>1. c \in Unread /\ Unread' \in SUBSET (Unread \ {c})
        BY <2>3, <3>1, <3>3 DEF Unread, Free, ConnInv, ConnType
      <4>2. nU1 <= nU - 1
        BY <1>2, <4>1, OneLess DEF nU, nU1
      <4>3. Claims' \in SUBSET (Claims \cup {v})
        BY <2>1 DEF Claims
      <4>4. nC1 <= nC + 1
        BY <1>2, <4>3, OneMore DEF nC, nC1
      <4> QED
        BY <1>1, <1>2, <1>3, <2>1, <3>1, <4>2, <4>4
    <3>4. CASE conn[c].status # 200
      <4>1. vehicle'[v].delta = "other"
        BY <2>3, <3>2, <3>4 DEF StatusOutcome, Statuses
      <4> QED
        BY <1>3, <1>4, <1>5, <2>1, <2>2, <3>1, <4>1
    <3> QED
      BY <3>3, <3>4
  <2>4. ASSUME Offer(vehicle[v].delta), vehicle'[v].delta = "other", UNCHANGED gatewayVars
        PROVE  okTotal' + statsCh'.ok + nC1 + nU1 <= served'
    <3>1. nU1 = nU /\ served' = served
      BY <2>4 DEF gatewayVars, nU, nU1, Unread
    <3>2. CASE vehicle[v].delta = "ok"
      <4>1. v \in Claims /\ Claims' \in SUBSET (Claims \ {v})
        BY <2>1, <2>4, <3>2 DEF Claims
      <4>2. nC1 <= nC - 1
        BY <1>2, <4>1, OneLess DEF nC, nC1
      <4>3. statsCh'.ok <= statsCh.ok + 1
        BY <2>4, <3>2, OfferFacts DEF Outcomes
      <4> QED
        BY <1>1, <1>2, <1>3, <2>1, <3>1, <4>2, <4>3
    <3>3. CASE vehicle[v].delta = "other"
      <4>1. statsCh'.ok <= statsCh.ok
        BY <1>3, <2>4, <3>3, OfferFacts DEF Outcomes
      <4> QED
        BY <1>3, <1>4, <1>5, <2>1, <2>2, <2>4, <4>1
    <3> QED
      BY <3>2, <3>3 DEF FleetInv, LoopState, Outcomes
  <2>5. SendFails(v) => statsCh' = statsCh
    BY DEF SendFails
  <2>6. ASSUME statsCh' = statsCh, vehicle'[v].delta \in {"other", vehicle[v].delta}
        PROVE  okTotal' + statsCh'.ok + nC1 + nU1 <= served'
    BY <1>3, <1>4, <1>5, <2>1, <2>2, <2>6
  <2> QED
    BY <2>1, <2>3, <2>4, <2>5, <2>6 DEF VehicleMoves
<1>7. ASSUME NEW kind \in Outcomes, Aggregate(kind)
      PROVE  okTotal' + statsCh'.ok + nC1 + nU1 <= served'
  <2>1. okTotal' + statsCh'.ok = okTotal + statsCh.ok
    BY <1>7, AggregateFacts
  <2>2. Claims' = Claims
    BY <1>7 DEF Aggregate, Claims
  <2> QED
    BY <1>3, <1>4, <1>5, <2>1, <2>2
<1>8. ASSUME StopAggregator \/ Cancel \/ UNCHANGED fleetVars
      PROVE  okTotal' + statsCh'.ok + nC1 + nU1 <= served'
  <2>1. UNCHANGED <<okTotal, statsCh, vehicle>>
    BY <1>8 DEF StopAggregator, Cancel, fleetVars
  <2>2. Claims' \subseteq Claims
    BY <2>1 DEF Claims
  <2>3. okTotal' + statsCh'.ok <= okTotal + statsCh.ok
    BY <1>3, <2>1
  <2> QED
    BY <1>4, <1>5, <2>2, <2>3
<1> QED
  BY <1>6, <1>7, <1>8 DEF Next, vars

(* The gateway's counts, the fleet's loops and the count of successes hold *)
(* in every reachable state.                                               *)
LEMMA FleetInvariance == Spec => [](GatewayInv /\ FleetInv /\ StatusInv /\ SuccessInv)
<1>1. Init => GatewayInv /\ FleetInv /\ StatusInv /\ SuccessInv
  <2> SUFFICES ASSUME Init PROVE GatewayInv /\ FleetInv /\ StatusInv /\ SuccessInv
    OBVIOUS
  <2>1. GatewayInv
    BY GatewayBoundsAssumption DEF Init, GatewayInit, GatewayInv, NewKeySet
  <2>2. Idle \in LoopState /\ Idle.pc = "select" /\ Idle.delta = "other"
    BY InferEveryAssumption DEF Idle, LoopState, Outcomes
  <2>3. Capacity \in Nat
    BY VehiclesAssumption, FS_CardinalityType DEF Capacity
  <2>4. FleetInv
    <3>1. statsCh \in [ok: Nat, other: Nat] /\ Waiting = 0
      BY DEF Init, Waiting
    <3>2. /\ vehicle \in [Vehicles -> LoopState]
          /\ \A v \in Vehicles : vehicle[v].pc # "wait"
      BY <2>2 DEF Init
    <3>3. Waiting <= Capacity
      BY <2>3, <3>1
    <3> QED
      BY <3>1, <3>2, <3>3 DEF Init, FleetInv
  <2>5. StatusInv
    BY DEF Init, GatewayInit, StatusInv, Free
  <2>6. Unread = {} /\ Claims = {}
    BY <2>2 DEF Init, GatewayInit, Unread, Claims, Free
  <2>7. SuccessInv
    BY <2>6, FS_EmptySet DEF Init, GatewayInit, SuccessInv
  <2> QED
    BY <2>1, <2>4, <2>5, <2>7
<1>2. /\ IInv /\ [Next]_vars
      /\ GatewayInv /\ FleetInv /\ StatusInv /\ SuccessInv
      => (GatewayInv /\ FleetInv /\ StatusInv /\ SuccessInv)'
  BY GatewayStepInv, FleetStepInv, StatusStepInv, SuccessStepInv DEF IInv
<1> QED
  BY <1>1, <1>2, Invariance, PTL DEF Spec

(* Buckets, gauge, vehicles and the channel of Stats stay in their ranges; *)
(* the channel never holds more than its capacity.                         *)
THEOREM TypeCorrect == Spec => []TypeOK
<1>1. IInv /\ GatewayInv /\ FleetInv => TypeOK
  <2> SUFFICES ASSUME IInv, GatewayInv, FleetInv PROVE TypeOK
    OBVIOUS
  <2>1. gauge \in 0..Cardinality(Conns)
    <3>1. /\ Cardinality(InFlight) \in Nat /\ Cardinality(Conns) \in Nat
          /\ Cardinality(InFlight) <= Cardinality(Conns)
      BY ConnsAssumption, Smaller DEF InFlight
    <3> QED
      BY <3>1 DEF IInv, GaugeIsExact
  <2>2. GatewayTypeOK
    BY <2>1 DEF GatewayTypeOK, IInv, ConnInv, ConnType, RateInv, GatewayInv
  <2> QED
    BY <2>2 DEF TypeOK, FleetInv, LoopState
<1> QED
  BY <1>1, Invariance, FleetInvariance, PTL

(* The fleet never claims a success the gateway has not counted, with any  *)
(* number of vehicles, timeouts, full channels, restarts and other clients.*)
THEOREM SuccessesAreServed == Spec => []SuccessIsServed
<1>1. GatewayInv /\ FleetInv /\ SuccessInv => SuccessIsServed
  <2> SUFFICES ASSUME GatewayInv, FleetInv, SuccessInv PROVE SuccessIsServed
    OBVIOUS
  <2>1. Cardinality(Unread) \in Nat /\ Cardinality(Claims) \in Nat
    BY ConnsAssumption, VehiclesAssumption, Smaller DEF Unread, Claims
  <2>2. okTotal \in Nat /\ statsCh.ok \in Nat /\ served \in Nat
    BY DEF FleetInv, GatewayInv
  <2>3. okTotal + statsCh.ok + Cardinality(Claims) <= served
    BY <2>1, <2>2 DEF SuccessInv
  <2> QED
    BY <2>3 DEF SuccessIsServed, Claims
<1> QED
  BY <1>1, FleetInvariance, PTL
=============================================================================
