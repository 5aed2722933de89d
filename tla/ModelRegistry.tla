--------------------------- MODULE ModelRegistry ----------------------------
(***************************************************************************)
(* The model deployer's registry: the versions of one model in the table   *)
(* model_versions and its audit log deployment_events.  Every statement of *)
(* registry.go filters on model_name, so models do not interact.           *)
(*                                                                         *)
(* Register and SetTraffic are single statements.  Deploy and Rollback are *)
(* transactions of several statements, and the HTTP server runs any number *)
(* of them at once.  Postgres is external: READ COMMITTED (nothing in the  *)
(* code asks for more), a snapshot per statement, a row lock per updated   *)
(* row held to the end of the transaction, the WHERE clause evaluated      *)
(* again on a row that was locked meanwhile, and a deadlock detector.      *)
(***************************************************************************)
EXTENDS Integers, Sequences, FiniteSets

CONSTANTS
    Versions,       \* version names clients may use
    NoVersion,      \* stands for no version chosen yet
    Txs,            \* requests handled at the same time
    Percentages,    \* traffic percentages clients ask for
    MaxRequests,    \* bound: Deploy and Rollback requests
    MaxStatements,  \* bound: Register and SetTraffic requests
    MaxFaults       \* bound: transactions whose connection breaks

ASSUME PercentagesAssumption == Percentages \subseteq Int
ASSUME NoVersionAssumption == NoVersion \notin Versions
ASSUME RegistryBoundsAssumption == /\ MaxRequests \in Nat
                                   /\ MaxStatements \in Nat
                                   /\ MaxFaults \in Nat

VARIABLES
    rows,         \* committed table: rows[v]
    events,       \* deployment_events, in commit order
    tx,           \* tx[t]: the transaction request t runs
    writes,       \* writes[t]: its uncommitted row versions
    archivedAt,   \* archivedAt[v]: Len(events) after the commit that archived v (history)
    registeredAt, \* registeredAt[v]: Len(events) when v was last registered (history)
    budget        \* what is left of the bounds

vars == <<rows, events, tx, writes, archivedAt, registeredAt, budget>>

Stages == {"absent", "staging", "production", "archived"}
Row == [stage: Stages, traffic: 0..100, created: Nat]
NoRow == [stage |-> "absent", traffic |-> 0, created |-> 0]
Event == [version: Versions, action: {"deploy", "rollback"}]

(* A transaction: the request it serves, the version it promotes, the      *)
(* statement it is in and the rows that statement still has to visit.      *)
Tx == [kind: {"none", "deploy", "rollback"}, version: Versions \cup {NoVersion},
       pc: {"idle", "select", "demote", "promote", "commit"}, todo: SUBSET Versions]
NoTx == [kind |-> "none", version |-> NoVersion, pc |-> "idle", todo |-> {}]

(* Uncommitted row versions; the other rows are not locked by t.           *)
Clean == [v \in Versions |-> NoRow]

TypeOK ==
    /\ rows \in [Versions -> Row]
    /\ events \in Seq(Event)
    /\ tx \in [Txs -> Tx]
    /\ writes \in [Txs -> [Versions -> Row]]
    /\ archivedAt \in [Versions -> Nat]
    /\ registeredAt \in [Versions -> Nat]
    /\ budget \in [requests: Nat, statements: Nat, faults: Nat]

Init ==
    /\ rows = Clean
    /\ events = <<>>
    /\ tx = [t \in Txs |-> NoTx]
    /\ writes = [t \in Txs |-> Clean]
    /\ archivedAt = [v \in Versions |-> 0]
    /\ registeredAt = [v \in Versions |-> 0]
    /\ budget = [requests |-> MaxRequests, statements |-> MaxStatements, faults |-> MaxFaults]

Spend(k) ==
    /\ budget[k] > 0
    /\ budget' = [budget EXCEPT ![k] = @ - 1]

----------------------------------------------------------------------------
Exists(v) == rows[v].stage # "absent"

LockedBy(t, v) == writes[t][v] # NoRow
Locked(v) == \E t \in Txs : LockedBy(t, v)

(* The row as t sees it, and the rows in a stage in t's statement snapshot. *)
View(t, v) == IF LockedBy(t, v) THEN writes[t][v] ELSE rows[v]
InStage(t, s) == {v \in Versions : View(t, v).stage = s}

Archived(row) == [row EXCEPT !.stage = "archived", !.traffic = 0]
Promoted(row) == [row EXCEPT !.stage = "production", !.traffic = 100]

(* Rollback's SELECT: the archived row with the latest created_at.         *)
LatestArchived(t) ==
    CHOOSE v \in InStage(t, "archived") :
        \A w \in InStage(t, "archived") : View(t, w).created <= View(t, v).created

(* tx.Rollback: locks go, uncommitted versions go.                         *)
Abort(t) ==
    /\ tx' = [tx EXCEPT ![t] = NoTx]
    /\ writes' = [writes EXCEPT ![t] = Clean]
    /\ UNCHANGED <<rows, events, archivedAt, registeredAt>>

----------------------------------------------------------------------------
(* Mutant of Upserted: ON CONFLICT leaves the stage as it is.              *)
UpsertedKeepsStage(v) ==
    [stage |-> IF Exists(v) THEN rows[v].stage ELSE "staging", traffic |-> 0,
     created |-> IF Exists(v) THEN rows[v].created
                 ELSE 1 + Cardinality({w \in Versions : Exists(w)})]

(* Registry.Register's upsert: the version in staging with no traffic; an  *)
(* existing row keeps its created_at.                                      *)
Upserted(v) ==
    [stage |-> "staging", traffic |-> 0,
     created |-> IF Exists(v) THEN rows[v].created
                 ELSE 1 + Cardinality({w \in Versions : Exists(w)})]

(* Handler.Register, which lets no client choose the stage; the upsert     *)
(* waits for row locks.                                                    *)
Register(v) ==
    /\ ~Locked(v)
    /\ Spend("statements")
    /\ rows' = [rows EXCEPT ![v] = Upserted(v)]
    /\ registeredAt' = [registeredAt EXCEPT ![v] = Len(events)]
    /\ UNCHANGED <<events, tx, writes, archivedAt>>

(* Mutant of SetTraffic: the handler's range check is missing.             *)
SetTrafficUnchecked(v, pct) ==
    /\ Exists(v)
    /\ ~Locked(v)
    /\ Spend("statements")
    /\ rows' = [rows EXCEPT ![v].traffic = pct]
    /\ UNCHANGED <<events, tx, writes, archivedAt, registeredAt>>

(* Handler.Traffic's check of the body.                                    *)
ValidTraffic(pct) == pct \in 0..100

(* Registry.SetTraffic updates any registered version, whatever its stage. *)
SetTraffic(v, pct) ==
    /\ ValidTraffic(pct)
    /\ Exists(v)
    /\ ~Locked(v)
    /\ Spend("statements")
    /\ rows' = [rows EXCEPT ![v].traffic = pct]
    /\ UNCHANGED <<events, tx, writes, archivedAt, registeredAt>>

----------------------------------------------------------------------------
(* Registry.Deploy begins: the snapshot of its first UPDATE.               *)
BeginDeploy(t, v) ==
    /\ tx[t].pc = "idle"
    /\ Spend("requests")
    /\ tx' = [tx EXCEPT ![t] = [kind |-> "deploy", version |-> v, pc |-> "demote",
                                todo |-> InStage(t, "production")]]
    /\ UNCHANGED <<rows, events, writes, archivedAt, registeredAt>>

(* Registry.Rollback begins.                                               *)
BeginRollback(t) ==
    /\ tx[t].pc = "idle"
    /\ Spend("requests")
    /\ tx' = [tx EXCEPT ![t] = [kind |-> "rollback", version |-> NoVersion, pc |-> "select",
                                todo |-> {}]]
    /\ UNCHANGED <<rows, events, writes, archivedAt, registeredAt>>

(* Rollback's SELECT, which locks nothing, and the start of its UPDATE;    *)
(* with no archived version it is ErrNotFound.                             *)
Select(t) ==
    /\ tx[t].pc = "select"
    /\ InStage(t, "archived") # {}
    /\ tx' = [tx EXCEPT ![t] = [kind |-> "rollback", version |-> LatestArchived(t), pc |-> "demote",
                                todo |-> InStage(t, "production")]]
    /\ UNCHANGED <<rows, events, writes, archivedAt, registeredAt, budget>>

SelectNotFound(t) ==
    /\ tx[t].pc = "select"
    /\ InStage(t, "archived") = {}
    /\ Abort(t)
    /\ UNCHANGED budget

(* Mutant of DemoteRow: the old production version keeps its stage.        *)
DemoteRowTrafficOnly(t, v) ==
    /\ tx[t].pc = "demote"
    /\ v \in tx[t].todo
    /\ \A u \in Txs \ {t} : ~LockedBy(u, v)
    /\ tx' = [tx EXCEPT ![t].todo = @ \ {v}]
    /\ writes' = [writes EXCEPT ![t][v] = [View(t, v) EXCEPT !.traffic = 0]]
    /\ UNCHANGED <<rows, events, archivedAt, registeredAt, budget>>

(* The demoting UPDATE reaches a row of its snapshot: it waits for the     *)
(* row's lock, and updates the row if it is still in production.           *)
DemoteRow(t, v) ==
    /\ tx[t].pc = "demote"
    /\ v \in tx[t].todo
    /\ \A u \in Txs \ {t} : ~LockedBy(u, v)
    /\ tx' = [tx EXCEPT ![t].todo = @ \ {v}]
    /\ writes' = IF View(t, v).stage = "production"
                   THEN [writes EXCEPT ![t][v] = Archived(View(t, v))]
                   ELSE writes
    /\ UNCHANGED <<rows, events, archivedAt, registeredAt, budget>>

(* The promoting UPDATE starts: its snapshot has the row or it has not.    *)
StartPromote(t) ==
    /\ tx[t].pc = "demote"
    /\ tx[t].todo = {}
    /\ Exists(tx[t].version)
    /\ tx' = [tx EXCEPT ![t] = [@ EXCEPT !.pc = "promote", !.todo = {tx[t].version}]]
    /\ UNCHANGED <<rows, events, writes, archivedAt, registeredAt, budget>>

(* Mutant of PromoteNotFound: RowsAffected is not looked at.               *)
PromoteNotFoundCommits(t) ==
    /\ tx[t].pc = "demote"
    /\ tx[t].todo = {}
    /\ ~Exists(tx[t].version)
    /\ tx' = [tx EXCEPT ![t].pc = "commit"]
    /\ UNCHANGED <<rows, events, writes, archivedAt, registeredAt, budget>>

(* Mutant of PromoteNotFound: no deferred Rollback, the locks stay.        *)
PromoteNotFoundLeaks(t) ==
    /\ tx[t].pc = "demote"
    /\ tx[t].todo = {}
    /\ ~Exists(tx[t].version)
    /\ tx' = [tx EXCEPT ![t] = NoTx]
    /\ UNCHANGED <<rows, events, writes, archivedAt, registeredAt, budget>>

(* RowsAffected is 0: ErrNotFound, and the deferred tx.Rollback.           *)
PromoteNotFound(t) ==
    /\ tx[t].pc = "demote"
    /\ tx[t].todo = {}
    /\ ~Exists(tx[t].version)
    /\ Abort(t)
    /\ UNCHANGED budget

PromoteRow(t) ==
    LET v == tx[t].version
    IN /\ tx[t].pc = "promote"
       /\ \A u \in Txs \ {t} : ~LockedBy(u, v)
       /\ tx' = [tx EXCEPT ![t] = [@ EXCEPT !.pc = "commit", !.todo = {}]]
       /\ writes' = [writes EXCEPT ![t][v] = Promoted(View(t, v))]
       /\ UNCHANGED <<rows, events, archivedAt, registeredAt, budget>>

(* The event row is inserted and the transaction commits.                  *)
Commit(t) ==
    /\ tx[t].pc = "commit"
    /\ rows' = [v \in Versions |-> View(t, v)]
    /\ events' = Append(events, [version |-> tx[t].version, action |-> tx[t].kind])
    /\ archivedAt' = [v \in Versions |->
                        IF rows[v].stage = "production" /\ View(t, v).stage = "archived"
                          THEN Len(events) + 1 ELSE archivedAt[v]]
    /\ tx' = [tx EXCEPT ![t] = NoTx]
    /\ writes' = [writes EXCEPT ![t] = Clean]
    /\ UNCHANGED <<registeredAt, budget>>

----------------------------------------------------------------------------
(* A statement fails or the connection breaks: the transaction is undone.  *)
Fail(t) ==
    /\ tx[t].pc # "idle"
    /\ Spend("faults")
    /\ Abort(t)

(* t may be waiting for a row u has locked.                                *)
WaitsFor(t, u) == t # u /\ \E v \in tx[t].todo : LockedBy(u, v)

(* Postgres breaks a cycle of waiting transactions by aborting one.        *)
DeadlockAbort(t) ==
    /\ \E S \in SUBSET Txs : t \in S /\ \A u \in S : \E w \in S : WaitsFor(u, w)
    /\ Abort(t)
    /\ UNCHANGED budget

TxStep(t) ==
    \/ Select(t)
    \/ SelectNotFound(t)
    \/ \E v \in Versions : DemoteRow(t, v)
    \/ StartPromote(t)
    \/ PromoteNotFound(t)
    \/ PromoteRow(t)
    \/ Commit(t)

TxMove(t) == TxStep(t) \/ Fail(t) \/ DeadlockAbort(t)

Request ==
    \/ \E v \in Versions, pct \in Percentages : SetTraffic(v, pct)
    \/ \E t \in Txs, v \in Versions : BeginDeploy(t, v)
    \/ \E t \in Txs : BeginRollback(t)

Next ==
    \/ \E v \in Versions : Register(v)
    \/ Request
    \/ \E t \in Txs : TxMove(t)

(* A handler whose statement can go on does go on, and Postgres looks for  *)
(* deadlocks after deadlock_timeout.                                       *)
Fairness == \A t \in Txs : WF_vars(TxStep(t)) /\ WF_vars(DeadlockAbort(t))

Spec == Init /\ [][Next]_vars /\ Fairness

----------------------------------------------------------------------------
InProduction == {v \in Versions : rows[v].stage = "production"}

(* docs/architecture.md: "a deploy must atomically demote the old          *)
(* production version and promote the new one".  Registry.Production       *)
(* expects one row.                                                        *)
AtMostOneProduction == Cardinality(InProduction) <= 1

(* The audit log tells the truth about what serves: the version of the     *)
(* last event is in production unless it was registered again since, so a  *)
(* Deploy or a Rollback that committed never leaves the model unserved.    *)
LastEventInProduction ==
    events # <<>> =>
        LET v == events[Len(events)].version
        IN rows[v].stage = "production" \/ registeredAt[v] = Len(events)

(* What serves can be read off the audit log, whatever overlaps: the       *)
(* versions in production are those with an event since they were last     *)
(* registered and last archived.  In particular a stale Rollback puts no   *)
(* version in production, and takes none out, without its event saying so. *)
ProductionIsAudited ==
    \A v \in Versions :
        v \in InProduction <=>
            \E i \in 1..Len(events) :
                events[i].version = v /\ i > registeredAt[v] /\ i > archivedAt[v]

(* Every request is answered: commit, not found, or an error; no           *)
(* transaction stays open waiting for a row somebody never releases.       *)
RequestsFinish == \A t \in Txs : tx[t].pc # "idle" ~> tx[t].pc = "idle"

(* What the registry promises its readers when requests do not overlap:    *)
(* see RegistryPromise.  Registry.Production returns the first row found.  *)
Serving == IF InProduction = {} THEN NoVersion ELSE CHOOSE v \in InProduction : TRUE

Promise == INSTANCE RegistryPromise WITH serving <- Serving, log <- events

(* Deploy and Rollback, with all their statements, are one atomic switch   *)
(* of the version that serves.                                             *)
SwitchesAtomically == Promise!Spec

(* registry.go on Rollback: "finds the most recently archived version and  *)
(* promotes it back to production".                                        *)
RollsBackToLastArchived ==
    [][ \A t \in Txs : tx[t].pc = "select" /\ tx'[t].pc = "demote" =>
          \A w \in InStage(t, "archived") : archivedAt[w] <= archivedAt[tx'[t].version] ]_vars
=============================================================================
