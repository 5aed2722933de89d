------------------------------- MODULE Gateway ------------------------------
(***************************************************************************)
(* One gateway process: each request runs in a goroutine of its own        *)
(* through the chain metrics, API key, rate limiter, handler that main.go  *)
(* builds.  The goroutines share the limiter's buckets and the metrics.    *)
(*                                                                         *)
(* A client is an API key, or none, and a remote host.  The token buckets  *)
(* are those of golang.org/x/time/rate, with one Tick as the unit of time. *)
(***************************************************************************)
EXTENDS Naturals, FiniteSets

CONSTANTS
    Clients,      \* who sends requests
    Key,          \* Key[cl]: the X-API-Key cl sends, or NoKey
    Host,         \* Host[cl]: its remote host
    NoKey,        \* no X-API-Key header
    KeyLists,     \* values of GATEWAY_API_KEYS after splitCSV
    Conns,        \* requests open at the same time
    Rate,         \* RATE_LIMIT_RPS, tokens per tick (50)
    Burst,        \* RATE_LIMIT_BURST (100)
    MaxRequests,  \* bound: requests that arrive
    MaxRestarts   \* bound: terminations of the process

ASSUME LimitsAssumption == Rate \in Nat /\ Burst \in Nat
ASSUME ConnsAssumption == IsFiniteSet(Conns)
ASSUME ClientsAssumption == \A cl \in Clients : Host[cl] # NoKey
ASSUME GatewayBoundsAssumption == MaxRequests \in Nat /\ MaxRestarts \in Nat

VARIABLES
    phase,    \* of the process: serving, or draining in srv.Shutdown
    keys,     \* the KeySet built at the start
    buckets,  \* the limiters map: tokens left, by client key
    conn,     \* conn[c]: the request on connection c
    gauge,    \* in_flight_requests
    served,   \* requests_total with a 2xx status, summed over restarts
    excess,   \* excess[k]: the most that k got through in any period ending
              \* now, less Rate for each tick of it; kept over restarts (history)
    bounds    \* what is left of the bounds

gatewayVars == <<phase, keys, buckets, conn, gauge, served, excess, bounds>>

(* What Handler.Infer and Handler.SubmitJob write: success (200, 202), a   *)
(* bad body (400), the router or the queue failed (502, 503).  One status  *)
(* stands for its class; the 401 and the 429 of the chain are in 400.      *)
Statuses == {200, 400, 500}
NoStatus == 0

NoClient == "nobody"
Free == [pc |-> "free", client |-> NoClient, status |-> NoStatus, reader |-> FALSE]

(* ratelimit.clientKey.                                                    *)
ClientKey(cl) == IF Key[cl] # NoKey THEN Key[cl] ELSE Host[cl]
ClientKeys == {ClientKey(cl) : cl \in Clients}

GatewayTypeOK ==
    /\ phase \in {"serving", "draining"}
    /\ \E list \in KeyLists : keys \subseteq list
    /\ DOMAIN buckets \subseteq ClientKeys
    /\ \A k \in DOMAIN buckets : buckets[k] \in 0..Burst
    /\ conn \in [Conns -> [pc: {"free", "auth", "limit", "create", "allow", "handler",
                                "finish", "answered", "cut"},
                           client: Clients \cup {NoClient}, status: Statuses \cup {NoStatus},
                           reader: BOOLEAN]]
    /\ gauge \in 0..Cardinality(Conns)
    /\ served \in Nat
    /\ excess \in [ClientKeys -> Nat]
    /\ bounds \in [requests: Nat, restarts: Nat]

(* auth.NewKeySet: empty entries of the list are no keys.                  *)
NewKeySet(list) == list \ {""}

GatewayInit ==
    /\ phase = "serving"
    /\ keys \in {NewKeySet(list) : list \in KeyLists}
    /\ buckets = [k \in {} |-> Burst]
    /\ conn = [c \in Conns |-> Free]
    /\ gauge = 0
    /\ served = 0
    /\ excess = [k \in ClientKeys |-> 0]
    /\ bounds = [requests |-> MaxRequests, restarts |-> MaxRestarts]

Use(k) ==
    /\ bounds[k] > 0
    /\ bounds' = [bounds EXCEPT ![k] = @ - 1]

----------------------------------------------------------------------------
(* Mutant of FirstStage: the limiter wraps the key check.                  *)
FirstStageLimit == "limit"

(* The order in which chain wraps the handlers.                            *)
FirstStage == "auth"

(* A request arrives: the metrics middleware counts it in.  With a reader  *)
(* its client is modelled and waits for the answer.                        *)
Arrive(c, cl, reader) ==
    /\ phase = "serving"
    /\ conn[c].pc = "free"
    /\ Use("requests")
    /\ gauge' = gauge + 1
    /\ conn' = [conn EXCEPT ![c] = [pc |-> FirstStage, client |-> cl, status |-> NoStatus,
                                      reader |-> reader]]
    /\ UNCHANGED <<phase, keys, buckets, served, excess>>

Pass(c, label) == conn' = [conn EXCEPT ![c].pc = label]

Answer(c, status) ==
    conn' = [conn EXCEPT ![c] = [pc |-> "finish", client |-> NoClient, status |-> status,
                                   reader |-> @.reader]]

(* KeySet.Middleware; without configured keys everyone gets through.       *)
Authenticate(c) ==
    /\ conn[c].pc = "auth"
    /\ IF keys = {} \/ Key[conn[c].client] \in keys \ {NoKey}
         THEN Pass(c, "limit")
         ELSE Answer(c, 400)
    /\ UNCHANGED <<phase, keys, buckets, gauge, served, excess, bounds>>

(* Mutant of Lookup: the map is read without the mutex.                    *)
LookupUnlocked(c) ==
    /\ conn[c].pc = "limit"
    /\ Pass(c, IF ClientKey(conn[c].client) \in DOMAIN buckets THEN "allow" ELSE "create")
    /\ UNCHANGED <<phase, keys, buckets, gauge, served, excess, bounds>>

(* limiterFor takes the mutex, once no other request holds it, and looks   *)
(* for the client's bucket.                                                *)
Lookup(c) ==
    /\ conn[c].pc = "limit"
    /\ \A d \in Conns : conn[d].pc # "create"
    /\ Pass(c, IF ClientKey(conn[c].client) \in DOMAIN buckets THEN "allow" ELSE "create")
    /\ UNCHANGED <<phase, keys, buckets, gauge, served, excess, bounds>>

(* A client seen for the first time gets a full bucket, and the mutex goes.*)
Create(c) ==
    LET k == ClientKey(conn[c].client)
    IN /\ conn[c].pc = "create"
       /\ buckets' = [j \in DOMAIN buckets \cup {k} |-> IF j = k THEN Burst ELSE buckets[j]]
       /\ Pass(c, "allow")
       /\ UNCHANGED <<phase, keys, gauge, served, excess, bounds>>

(* Allow takes a token or answers 429.                                     *)
Allow(c) ==
    LET k == ClientKey(conn[c].client)
    IN /\ conn[c].pc = "allow"
       /\ IF buckets[k] > 0
            THEN /\ buckets' = [buckets EXCEPT ![k] = @ - 1]
                 /\ excess' = [excess EXCEPT ![k] = @ + 1]
                 /\ Pass(c, "handler")
            ELSE /\ Answer(c, 400)
                 /\ UNCHANGED <<buckets, excess>>
       /\ UNCHANGED <<phase, keys, gauge, served, bounds>>

(* Handler.Infer or Handler.SubmitJob decides on its answer.  The router   *)
(* and the queue may answer, fail, or run into a timeout.                  *)
Handle(c, status) ==
    /\ conn[c].pc = "handler"
    /\ Answer(c, status)
    /\ UNCHANGED <<phase, keys, buckets, gauge, served, excess, bounds>>

(* Mutant of Finish: Dec is not deferred, an early return misses it.        *)
FinishWithoutDec(c) ==
    /\ conn[c].pc = "finish"
    /\ gauge' = IF conn[c].status = 400 THEN gauge ELSE gauge - 1
    /\ served' = served + (IF conn[c].status = 200 THEN 1 ELSE 0)
    /\ IF conn[c].reader THEN Pass(c, "answered") ELSE conn' = [conn EXCEPT ![c] = Free]
    /\ UNCHANGED <<phase, keys, buckets, excess, bounds>>

(* The metrics middleware counts the request out, and net/http flushes the *)
(* answer.                                                                 *)
Finish(c) ==
    /\ conn[c].pc = "finish"
    /\ gauge' = gauge - 1
    /\ served' = served + (IF conn[c].status = 200 THEN 1 ELSE 0)
    /\ IF conn[c].reader THEN Pass(c, "answered") ELSE conn' = [conn EXCEPT ![c] = Free]
    /\ UNCHANGED <<phase, keys, buckets, excess, bounds>>

----------------------------------------------------------------------------
(* Time passes: every bucket is refilled, up to its burst.                 *)
Tick ==
    /\ buckets' = [k \in DOMAIN buckets |->
                     IF buckets[k] + Rate < Burst THEN buckets[k] + Rate ELSE Burst]
    /\ excess' = [k \in ClientKeys |-> IF excess[k] > Rate THEN excess[k] - Rate ELSE 0]
    /\ UNCHANGED <<phase, keys, conn, gauge, served, bounds>>

(* SIGTERM: srv.Shutdown lets no request in any more.                      *)
Shutdown ==
    /\ phase = "serving"
    /\ Use("restarts")
    /\ phase' = "draining"
    /\ UNCHANGED <<keys, buckets, conn, gauge, served, excess>>

(* Shutdown has waited for the open requests, or for its five seconds; the *)
(* process ends and is started again, with an empty limiter.               *)
Restart ==
    /\ phase = "draining"
    /\ phase' = "serving"
    /\ buckets' = [k \in {} |-> Burst]
    /\ gauge' = 0
    /\ conn' = [c \in Conns |-> IF conn[c].pc = "answered" THEN conn[c]
                                ELSE IF conn[c].reader THEN [Free EXCEPT !.pc = "cut"]
                                ELSE Free]
    /\ UNCHANGED <<keys, served, excess, bounds>>

ConnStep(c) ==
    \/ Authenticate(c)
    \/ Lookup(c)
    \/ Create(c)
    \/ Allow(c)
    \/ \E status \in Statuses : Handle(c, status)
    \/ Finish(c)

GatewayStep ==
    \/ \E c \in Conns : ConnStep(c)
    \/ \E c \in Conns, cl \in Clients : Arrive(c, cl, FALSE)
    \/ Tick
    \/ Shutdown
    \/ Restart

----------------------------------------------------------------------------
(* Processes started so far: each begins with empty buckets.               *)
Lives == 1 + (MaxRestarts - bounds.restarts) - (IF phase = "draining" THEN 1 ELSE 0)

(* No client gets more through in any period than the rate allows and one  *)
(* burst for each process that served in it, however its requests race for *)
(* the bucket and wherever a restart falls between them.                   *)
RateLimited == \A k \in ClientKeys : excess[k] <= Burst * Lives

(* The limiter never removes a bucket, and its map stays bounded all the   *)
(* same when keys are configured: a request must pass the key check before *)
(* it can add one.                                                         *)
BucketsBounded == keys # {} => DOMAIN buckets \subseteq keys

InFlight == {c \in Conns : conn[c].pc \in {"auth", "limit", "create", "allow", "handler", "finish"}}

(* in_flight_requests is exact: every way through the chain, rejections    *)
(* included, counts a request in once and out once.                        *)
GaugeIsExact == gauge = Cardinality(InFlight)
=============================================================================
