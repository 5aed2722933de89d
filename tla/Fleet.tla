-------------------------------- MODULE Fleet -------------------------------
(***************************************************************************)
(* The fleet simulator as a client of the gateway: one goroutine per       *)
(* vehicle, the aggregator goroutine behind a bounded channel of Stats,    *)
(* and main, which waits for the vehicles.  They all send one API key from *)
(* one host, so they share one token bucket at the gateway.                *)
(***************************************************************************)
EXTENDS Gateway

CONSTANTS
    Vehicles,     \* the fleet
    FleetClient,  \* the client the gateway sees
    InferEvery,   \* one inference every so many telemetry ticks (5)
    NoConn        \* no request open

ASSUME VehiclesAssumption == IsFiniteSet(Vehicles)
ASSUME FleetClientAssumption == FleetClient \in Clients
ASSUME InferEveryAssumption == InferEvery \in Nat \ {0}

VARIABLES
    vehicle,     \* vehicle[v]: where its loop is
    statsCh,     \* the channel: how many deltas in it report a success, how many not
    okTotal,     \* infer_ok_total
    cancelled,   \* SIGINT or SIGTERM cancelled the context
    aggregating  \* the aggregator goroutine has not returned

fleetVars == <<vehicle, statsCh, okTotal, cancelled, aggregating>>
vars == <<gatewayVars, fleetVars>>

Outcomes == {"ok", "other"}
Idle == [pc |-> "select", tick |-> 0, conn |-> NoConn, delta |-> "other"]
Capacity == 2 * Cardinality(Vehicles)

Waiting == statsCh.ok + statsCh.other

TypeOK ==
    /\ GatewayTypeOK
    /\ vehicle \in [Vehicles -> [pc: {"select", "send", "wait", "report", "stopped"},
                                 tick: 0..InferEvery - 1, conn: Conns \cup {NoConn},
                                 delta: Outcomes]]
    /\ statsCh \in [ok: Nat, other: Nat]
    /\ Waiting <= Capacity
    /\ okTotal \in Nat
    /\ cancelled \in BOOLEAN
    /\ aggregating \in BOOLEAN

Init ==
    /\ GatewayInit
    /\ vehicle = [v \in Vehicles |-> Idle]
    /\ statsCh = [ok |-> 0, other |-> 0]
    /\ okTotal = 0
    /\ cancelled = FALSE
    /\ aggregating = TRUE

----------------------------------------------------------------------------
(* The ticker fires; also after the cancellation, since select picks any   *)
(* case that is ready.                                                     *)
TelemetryTick(v) ==
    LET tick == (vehicle[v].tick + 1) % InferEvery
    IN /\ vehicle[v].pc = "select"
       /\ vehicle' = [vehicle EXCEPT ![v] = [Idle EXCEPT !.tick = tick,
                                               !.pc = IF tick = 0 THEN "send" ELSE "report"]]
       /\ UNCHANGED <<gatewayVars, statsCh, okTotal, cancelled, aggregating>>

(* sendInfer's request reaches the gateway.                                *)
SendInfer(v, c) ==
    /\ vehicle[v].pc = "send"
    /\ ~cancelled
    /\ Arrive(c, FleetClient, TRUE)
    /\ vehicle' = [vehicle EXCEPT ![v].pc = "wait", ![v].conn = c]
    /\ UNCHANGED <<statsCh, okTotal, cancelled, aggregating>>

Report(v, delta) ==
    vehicle' = [vehicle EXCEPT ![v].pc = "report", ![v].delta = delta, ![v].conn = NoConn]

(* Mutant of StatusOutcome: the status of the answer is not looked at.     *)
StatusOutcomeUnchecked(status) == "ok"

StatusOutcome(status) == IF status >= 300 THEN "other" ELSE "ok"

(* The answer arrives.                                                     *)
Answered(v) ==
    LET c == vehicle[v].conn
    IN /\ vehicle[v].pc = "wait"
       /\ conn[c].pc = "answered"
       /\ Report(v, StatusOutcome(conn[c].status))
       /\ conn' = [conn EXCEPT ![c] = Free]
       /\ UNCHANGED <<phase, keys, buckets, gauge, served, excess, bounds>>
       /\ UNCHANGED <<statsCh, okTotal, cancelled, aggregating>>

(* The connection is refused, breaks or is cut, the client's five seconds  *)
(* pass, or the context is cancelled; the gateway may go on for a while.   *)
SendFails(v) ==
    LET c == vehicle[v].conn
    IN /\ vehicle[v].pc \in {"send", "wait"}
       /\ Report(v, "other")
       /\ IF c = NoConn
            THEN UNCHANGED conn
            ELSE conn' = [conn EXCEPT ![c] = IF @.pc \in {"answered", "cut"} THEN Free
                                             ELSE [@ EXCEPT !.reader = FALSE]]
       /\ UNCHANGED <<phase, keys, buckets, gauge, served, excess, bounds>>
       /\ UNCHANGED <<statsCh, okTotal, cancelled, aggregating>>

(* Mutant of Offer: a queue without a bound.                               *)
OfferUnbounded(kind) == statsCh' = [statsCh EXCEPT ![kind] = @ + 1]

(* Mutant of Offer: a send that blocks.                                    *)
OfferBlocking(kind) == Waiting < Capacity /\ statsCh' = [statsCh EXCEPT ![kind] = @ + 1]

(* The non-blocking send on statsCh: a full channel drops the delta.       *)
Offer(kind) ==
    statsCh' = IF Waiting < Capacity THEN [statsCh EXCEPT ![kind] = @ + 1] ELSE statsCh

SendStats(v) ==
    /\ vehicle[v].pc = "report"
    /\ Offer(vehicle[v].delta)
    /\ vehicle' = [vehicle EXCEPT ![v].pc = "select", ![v].delta = "other"]
    /\ UNCHANGED <<gatewayVars, okTotal, cancelled, aggregating>>

(* The loop sees ctx.Done.                                                 *)
StopVehicle(v) ==
    /\ cancelled
    /\ vehicle[v].pc = "select"
    /\ vehicle' = [vehicle EXCEPT ![v] = [Idle EXCEPT !.pc = "stopped"]]
    /\ UNCHANGED <<gatewayVars, statsCh, okTotal, cancelled, aggregating>>

(* Aggregator.Observe.                                                     *)
Aggregate(kind) ==
    /\ aggregating
    /\ statsCh[kind] > 0
    /\ statsCh' = [statsCh EXCEPT ![kind] = @ - 1]
    /\ okTotal' = IF kind = "ok" THEN okTotal + 1 ELSE okTotal
    /\ UNCHANGED <<gatewayVars, vehicle, cancelled, aggregating>>

StopAggregator ==
    /\ cancelled
    /\ aggregating
    /\ aggregating' = FALSE
    /\ UNCHANGED <<gatewayVars, vehicle, statsCh, okTotal, cancelled>>

Cancel ==
    /\ ~cancelled
    /\ cancelled' = TRUE
    /\ UNCHANGED <<gatewayVars, vehicle, statsCh, okTotal, aggregating>>

VehicleStep(v) ==
    \/ TelemetryTick(v)
    \/ \E c \in Conns : SendInfer(v, c)
    \/ Answered(v)
    \/ SendFails(v)
    \/ SendStats(v)
    \/ StopVehicle(v)

Next ==
    \/ \E v \in Vehicles : VehicleStep(v)
    \/ \E kind \in Outcomes : Aggregate(kind)
    \/ StopAggregator
    \/ Cancel
    \/ GatewayStep /\ UNCHANGED fleetVars

(* Every goroutine that can run does.  The http.Client's timeout bounds    *)
(* every request, and a vehicle that keeps coming back to its select finds *)
(* ctx.Done ready on its own between two ticks, so it takes it in the end. *)
Fairness ==
    \A v \in Vehicles : /\ WF_vars(SendFails(v))
                        /\ WF_vars(SendStats(v))
                        /\ SF_vars(StopVehicle(v))

Spec == Init /\ [][Next]_vars /\ Fairness

----------------------------------------------------------------------------
(* The fleet never claims more successes than the gateway has counted: an  *)
(* answer is on the gateway's metrics before its client can read it, and a *)
(* success lost to a timeout, a full channel or a shutdown is only missing.*)
SuccessIsServed ==
    okTotal + statsCh.ok + Cardinality({v \in Vehicles : vehicle[v].delta = "ok"}) <= served

(* main's wg.Wait returns: after the signal every vehicle stops, although  *)
(* nobody reads the channel any more and the gateway may never answer.     *)
ShutdownCompletes == cancelled ~> \A v \in Vehicles : vehicle[v].pc = "stopped"
=============================================================================
