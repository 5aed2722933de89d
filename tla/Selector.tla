------------------------------ MODULE Selector ------------------------------
(***************************************************************************)
(* The routing policy of selector.go, as operators: which workers are      *)
(* eligible for a request, their scores, and the scan that picks one.      *)
(* Worker identifiers are numbers; their order is the order of the IDs.    *)
(***************************************************************************)
EXTENDS Integers, FiniteSets

CONSTANTS
    Workers,       \* worker identifiers
    Supports,      \* Supports[w]: the models w serves
    Configured,    \* Configured[w]: MODEL_PRECISION in w's environment
    GPU            \* GPU[w]: whether w has a GPU

ASSUME WorkersAssumption == Workers \subseteq Nat \ {0} /\ IsFiniteSet(Workers)

NoWorker == 0

(* A client's precision and priority reach the router as protobuf enums:   *)
(* a name the gateway does not know becomes the default of its enum.       *)
Known == {"int4", "int8", "fp16", "fp32"}
precisionToProto(p) == IF p \in Known THEN p ELSE "unspecified"
priorityToProto(p) == IF p \in {"high", "critical"} THEN p ELSE "normal"

(* The router turns them into its own values, unspecified into "".         *)
precisionToDomain(p) == IF p = "unspecified" THEN "" ELSE p
priorityToDomain(p) == IF p \in {"high", "critical"} THEN p ELSE "normal"

(* A worker registers an unknown precision as fp32.                        *)
MaxPrecision(w) == IF Configured[w] \in Known THEN Configured[w] ELSE "fp32"

(* precisionRank, a Go map: a missing key reads as 0.                      *)
precisionRank(p) == CASE p = "int8" -> 1 [] p = "fp16" -> 2 [] p = "fp32" -> 3 [] OTHER -> 0

loadWeight == 15
gpuBonus == 25

supportsModel(w, model) == model \in Supports[w]

(* Mutant of Eligible: the comparison of ranks is the wrong way round.     *)
EligibleBackwards(w, req) ==
    LET preferred == precisionToDomain(precisionToProto(req.precision))
    IN /\ supportsModel(w, req.model)
       /\ preferred # "" => precisionRank(MaxPrecision(w)) <= precisionRank(preferred)

(* The filter before scoring.  A request without a precision takes any.    *)
Eligible(w, req) ==
    LET preferred == precisionToDomain(precisionToProto(req.precision))
    IN /\ supportsModel(w, req.model)
       /\ preferred # "" => precisionRank(MaxPrecision(w)) >= precisionRank(preferred)

(* Lower is better; rec is the router's record of w as the scan reads it.  *)
Score(w, req, rec) ==
    rec.latency + rec.inFlight * loadWeight
      - (IF priorityToDomain(priorityToProto(req.priority)) = "critical" /\ GPU[w]
           THEN gpuBonus ELSE 0)

(* Mutant of Scan: a later worker with an equal score wins.                *)
ScanLastOfEqual(best, bestScore, w, score) ==
    IF best = NoWorker \/ score <= bestScore THEN w ELSE best

(* One iteration of the scan: a strictly better score replaces the best    *)
(* one so far, which starts above every score.                             *)
Scan(best, bestScore, w, score) ==
    IF best = NoWorker \/ score < bestScore THEN w ELSE best

(* What the scan is for, given the scores it read: none of them is better  *)
(* than the chosen worker's, and of the equal ones it has the lowest ID.   *)
IsBest(w, scores) ==
    /\ w \in DOMAIN scores
    /\ \A u \in DOMAIN scores : scores[w] < scores[u] \/ (scores[w] = scores[u] /\ w <= u)
=============================================================================
