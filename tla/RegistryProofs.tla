--------------------------- MODULE RegistryProofs ---------------------------
(***************************************************************************)
(* Proofs about the model registry, for any versions, any number of        *)
(* requests at the same time and any number of faults.                     *)
(***************************************************************************)
EXTENDS ModelRegistry, FiniteSetTheorems, SequenceTheorems, WellFoundedInduction, TLAPS

Existing == {v \in Versions : Exists(v)}

(* created counts the versions that were there: it has a largest value.    *)
RowsInv ==
    /\ IsFiniteSet(Existing)
    /\ \A v \in Versions : rows[v].created <= Cardinality(Existing)

(* What a transaction has written: registered versions, all demoted but    *)
(* the one it is about to commit.                                          *)
WritesInv ==
    \A t \in Txs, v \in Versions : LockedBy(t, v) =>
        /\ Exists(v)
        /\ writes[t][v].created <= Cardinality(Existing)
        /\ writes[t][v].stage \in {"archived", "production"}
        /\ writes[t][v].stage = "production" => tx[t].pc = "commit" /\ v = tx[t].version

(* What a transaction knows at each of its statements.                     *)
TxInv ==
    \A t \in Txs :
        /\ tx[t].pc = "idle" => writes[t] = Clean
        /\ tx[t].pc # "idle" => tx[t].kind \in {"deploy", "rollback"}
        /\ tx[t].pc = "select" => tx[t].kind = "rollback"
        /\ tx[t].pc \in {"demote", "promote", "commit"} => tx[t].version \in Versions
        /\ tx[t].pc = "promote" => Exists(tx[t].version)
        /\ tx[t].pc = "commit" => writes[t][tx[t].version].stage = "production"

(* No version was registered or archived after more events than there are. *)
HistoryInv ==
    \A v \in Versions : registeredAt[v] <= Len(events) /\ archivedAt[v] <= Len(events)

IInv ==
    /\ TypeOK
    /\ RowsInv
    /\ WritesInv
    /\ TxInv
    /\ HistoryInv
    /\ LastEventInProduction
    /\ ProductionIsAudited

(* No two requests are open at the same time.                              *)
OneAtATime == \A t, u \in Txs : tx[t].pc # "idle" /\ tx[u].pc # "idle" => t = u

(* Then an open transaction still has every other version in production    *)
(* before it: on its list while it demotes, none left when it promotes.    *)
SoleInv ==
    /\ \A v, w \in InProduction : v = w
    /\ \A t \in Txs, v \in Versions : View(t, v).stage = "production" =>
          /\ tx[t].pc = "demote" => v \in tx[t].todo
          /\ tx[t].pc # "promote"
          /\ tx[t].pc = "commit" => v = tx[t].version

----------------------------------------------------------------------------
(* A nonempty set of versions with a bounded attribute has a largest one.  *)
LEMMA LargestExists ==
    ASSUME NEW S, S # {}, NEW f \in [S -> Nat], NEW b \in Nat, \A v \in S : f[v] <= b
    PROVE  \E v \in S : \A w \in S : f[w] <= f[v]
<1> DEFINE T == {b - f[v] : v \in S}
<1>1. T \subseteq Nat /\ T # {}
  OBVIOUS
<1>2. \E m \in T : \A n \in T : <<n, m>> \notin OpToRel(<, Nat)
  <2> HIDE DEF T
  <2> QED
    BY <1>1, NatLessThanWellFounded, WFMin
<1>3. PICK m \in T : \A n \in T : ~(n < m)
  BY <1>1, <1>2 DEF OpToRel
<1>4. PICK v \in S : m = b - f[v]
  BY <1>3
<1>5. ASSUME NEW w \in S
      PROVE  f[w] <= f[v]
  <2>1. ~(b - f[w] < b - f[v])
    BY <1>3, <1>4
  <2> QED
    BY <2>1
<1> QED
  BY <1>5

(* The row as a transaction sees it is a row of the table.                 *)
LEMMA ViewType ==
    ASSUME TypeOK, NEW t \in Txs, NEW v \in Versions
    PROVE  View(t, v) \in Row
BY DEF TypeOK, View

(* The two UPDATEs change the stage and the traffic of a row.              *)
LEMMA UpdatedRow ==
    ASSUME NEW row \in Row
    PROVE  /\ Archived(row) \in Row /\ Promoted(row) \in Row
           /\ Archived(row).stage = "archived" /\ Promoted(row).stage = "production"
           /\ Archived(row).created = row.created /\ Promoted(row).created = row.created
<1>1. ASSUME NEW s \in Stages, NEW n \in 0..100
      PROVE  LET r == [row EXCEPT !.stage = s, !.traffic = n]
             IN  r \in Row /\ r.stage = s /\ r.created = row.created
  <2> DEFINE r1 == [row EXCEPT !.stage = s]
             r2 == [r1 EXCEPT !.traffic = n]
  <2>1. r1 \in Row /\ r1.stage = s /\ r1.created = row.created
    BY DEF Row
  <2> HIDE DEF r1
  <2>2. r2 \in Row /\ r2.stage = s /\ r2.created = row.created
    BY <2>1 DEF Row
  <2> QED
    BY <2>2 DEF r1
<1> QED
  BY <1>1 DEF Archived, Promoted, Stages

(* A transaction goes to its next statement, or to the next row of one.    *)
LEMMA UpdatedTx ==
    ASSUME NEW r \in Tx, NEW todo \in SUBSET Versions, NEW label \in {"promote", "commit"}
    PROVE  /\ [r EXCEPT !.todo = todo] \in Tx
           /\ [r EXCEPT !.pc = label, !.todo = todo] \in Tx
BY DEF Tx

(* Rollback's SELECT returns an archived version.                          *)
LEMMA LatestArchivedType ==
    ASSUME TypeOK, RowsInv, WritesInv, NEW t \in Txs, InStage(t, "archived") # {}
    PROVE  LatestArchived(t) \in InStage(t, "archived")
<1> DEFINE S == InStage(t, "archived")
           f == [v \in S |-> View(t, v).created]
           b == Cardinality(Existing)
<1>1. S \subseteq Versions
  BY DEF InStage
<1>2. f \in [S -> Nat]
  BY <1>1, ViewType DEF Row
<1>3. b \in Nat
  BY FS_CardinalityType DEF RowsInv
<1>4. \A v \in S : f[v] <= b
  BY <1>1 DEF View, RowsInv, WritesInv
<1>5. \E v \in S : \A w \in S : f[w] <= f[v]
  <2> HIDE DEF S, f, b
  <2> QED
    BY <1>2, <1>3, <1>4, LargestExists DEF S
<1> QED
  BY <1>5 DEF LatestArchived

----------------------------------------------------------------------------
(* Types: one step per action.                                             *)
LEMMA TypeStep ==
    ASSUME TypeOK, RowsInv, WritesInv, TxInv, [Next]_vars
    PROVE  TypeOK'
<1> USE DEF TypeOK
<1>1. \A k \in {"requests", "statements", "faults"} :
        Spend(k) => budget' \in [requests: Nat, statements: Nat, faults: Nat]
  BY DEF Spend
<1>2. ASSUME NEW v \in Versions, Register(v)
      PROVE  TypeOK'
  <2>1. Cardinality({w \in Versions : Exists(w)}) \in Nat
    BY FS_CardinalityType DEF RowsInv, Existing
  <2>2. Upserted(v) \in Row
    BY <2>1 DEF Upserted, Row, Stages
  <2> QED
    BY <1>1, <1>2, <2>2 DEF Register
<1>3. ASSUME NEW v \in Versions, NEW pct \in Percentages, SetTraffic(v, pct)
      PROVE  TypeOK'
  <2>1. ASSUME NEW r \in Row
        PROVE  [r EXCEPT !.traffic = pct] \in Row
    BY <1>3 DEF SetTraffic, ValidTraffic, Row
  <2>2. rows' = [rows EXCEPT ![v] = [rows[v] EXCEPT !.traffic = pct]]
    BY <1>3 DEF SetTraffic
  <2>3. rows' \in [Versions -> Row]
    BY <2>1, <2>2
  <2> QED
    BY <1>1, <1>3, <2>3 DEF SetTraffic
<1>4. ASSUME NEW t \in Txs, NEW v \in Versions, BeginDeploy(t, v)
      PROVE  TypeOK'
  BY <1>1, <1>4 DEF BeginDeploy, Tx, InStage
<1>5. ASSUME NEW t \in Txs, BeginRollback(t)
      PROVE  TypeOK'
  BY <1>1, <1>5 DEF BeginRollback, Tx
<1>6. ASSUME NEW t \in Txs, Abort(t)
      PROVE  tx' \in [Txs -> Tx] /\ writes' \in [Txs -> [Versions -> Row]]
  BY <1>6 DEF Abort, NoTx, Tx, Clean, NoRow, Row, Stages
<1>7. ASSUME NEW t \in Txs, TxMove(t)
      PROVE  TypeOK'
  <2>1. CASE Select(t)
    <3>1. LatestArchived(t) \in Versions
      BY <2>1, LatestArchivedType DEF Select, InStage
    <3> QED
      BY <2>1, <3>1 DEF Select, Tx, InStage
  <2>2. CASE SelectNotFound(t) \/ PromoteNotFound(t) \/ DeadlockAbort(t)
    BY <1>6, <2>2 DEF SelectNotFound, PromoteNotFound, DeadlockAbort, Abort
  <2>3. ASSUME NEW v \in Versions, DemoteRow(t, v)
        PROVE  TypeOK'
    <3>1. tx' = [tx EXCEPT ![t] = [@ EXCEPT !.todo = tx[t].todo \ {v}]]
      BY <2>3 DEF DemoteRow
    <3>2. tx[t].todo \ {v} \in SUBSET Versions
      BY DEF Tx
    <3>3. tx' \in [Txs -> Tx]
      BY <3>1, <3>2, UpdatedTx
    <3>4. Archived(View(t, v)) \in Row
      BY ViewType, UpdatedRow
    <3> QED
      BY <2>3, <3>3, <3>4 DEF DemoteRow
  <2>4. CASE StartPromote(t)
    <3>1. {tx[t].version} \in SUBSET Versions
      BY <2>4 DEF StartPromote, TxInv
    <3>2. tx' \in [Txs -> Tx]
      BY <2>4, <3>1, UpdatedTx DEF StartPromote
    <3> QED
      BY <2>4, <3>2 DEF StartPromote
  <2>5. CASE PromoteRow(t)
    <3>1. tx' \in [Txs -> Tx]
      BY <2>5, UpdatedTx DEF PromoteRow
    <3>2. Promoted(View(t, tx[t].version)) \in Row
      BY <2>5, ViewType, UpdatedRow DEF PromoteRow, TxInv
    <3> QED
      BY <2>5, <3>1, <3>2 DEF PromoteRow
  <2>6. CASE Commit(t)
    <3>1. rows' \in [Versions -> Row]
      BY <2>6, ViewType DEF Commit
    <3>2. [version |-> tx[t].version, action |-> tx[t].kind] \in Event
      BY <2>6 DEF Commit, TxInv, Event
    <3>3. events' \in Seq(Event) /\ archivedAt' \in [Versions -> Nat]
      BY <2>6, <3>2, AppendProperties, LenProperties DEF Commit
    <3>4. tx' \in [Txs -> Tx] /\ writes' \in [Txs -> [Versions -> Row]]
      BY <2>6 DEF Commit, NoTx, Tx, Clean, NoRow, Row, Stages
    <3> QED
      BY <2>6, <3>1, <3>3, <3>4 DEF Commit
  <2>7. CASE Fail(t)
    BY <1>1, <1>6, <2>7 DEF Fail, Abort
  <2> QED
    BY <1>7, <2>1, <2>2, <2>3, <2>4, <2>5, <2>6, <2>7 DEF TxMove, TxStep
<1>8. CASE UNCHANGED vars
  BY <1>8 DEF vars
<1> QED
  BY <1>2, <1>3, <1>4, <1>5, <1>7, <1>8 DEF Next, Request
----------------------------------------------------------------------------
(* A step, by what it does to the table and to the transactions.           *)
LEMMA StepKinds ==
    ASSUME [Next]_vars
    PROVE  \/ \E v \in Versions : Register(v)
           \/ \E v \in Versions, pct \in Percentages : SetTraffic(v, pct)
           \/ \E t \in Txs, v \in Versions : BeginDeploy(t, v) \/ DemoteRow(t, v)
           \/ \E t \in Txs : \/ BeginRollback(t) \/ Select(t) \/ StartPromote(t)
                            \/ PromoteRow(t) \/ Commit(t) \/ Abort(t)
           \/ UNCHANGED vars
BY DEF Next, Request, TxMove, TxStep, SelectNotFound, PromoteNotFound, Fail, DeadlockAbort

(* The table changes by Register, SetTraffic and Commit; rows are never    *)
(* removed, and stay bounded by their number.                              *)
LEMMA RowsStep ==
    ASSUME TypeOK, RowsInv, WritesInv, [Next]_vars
    PROVE  /\ RowsInv'
           /\ Existing \subseteq Existing'
           /\ Cardinality(Existing) <= Cardinality(Existing')
<1> DEFINE Goal == /\ RowsInv'
                   /\ Existing \subseteq Existing'
                   /\ Cardinality(Existing) <= Cardinality(Existing')
<1>1. Cardinality(Existing) \in Nat
  BY FS_CardinalityType DEF RowsInv
<1>2. ASSUME NEW v \in Versions, Register(v)
      PROVE  Goal
  <2>1. rows' = [rows EXCEPT ![v] = Upserted(v)] /\ Upserted(v).stage = "staging"
    BY <1>2 DEF Register, Upserted
  <2>2. Existing' = Existing \cup {v}
    BY <2>1 DEF Existing, Exists, TypeOK
  <2>3. /\ IsFiniteSet(Existing')
        /\ Cardinality(Existing') = Cardinality(Existing) + (IF Exists(v) THEN 0 ELSE 1)
    BY <1>1, <2>2, FS_AddElement DEF RowsInv, Existing
  <2>4. Upserted(v).created <= Cardinality(Existing')
    BY <1>1, <2>3 DEF Upserted, RowsInv, Existing
  <2>5. \A w \in Versions : rows'[w].created <= Cardinality(Existing')
    BY <1>1, <2>1, <2>3, <2>4 DEF RowsInv, TypeOK, Row
  <2>6. RowsInv'
    BY <2>3, <2>5 DEF RowsInv
  <2>7. Cardinality(Existing) <= Cardinality(Existing')
    BY <1>1, <2>3
  <2> QED
    BY <2>2, <2>6, <2>7
<1>3. ASSUME NEW v \in Versions, NEW pct \in Percentages, SetTraffic(v, pct)
      PROVE  Goal
  <2>1. \A w \in Versions : /\ rows'[w].stage = rows[w].stage
                           /\ rows'[w].created = rows[w].created
    BY <1>3 DEF SetTraffic, TypeOK, Row
  <2>2. Existing' = Existing
    BY <2>1 DEF Existing, Exists
  <2> QED
    BY <1>1, <2>1, <2>2 DEF RowsInv
<1>4. ASSUME NEW t \in Txs, Commit(t)
      PROVE  Goal
  <2>1. \A w \in Versions : rows'[w] = View(t, w)
    BY <1>4 DEF Commit
  <2>2. Existing' = Existing
    BY <2>1 DEF Existing, Exists, View, WritesInv
  <2>3. \A w \in Versions : rows'[w].created <= Cardinality(Existing)
    BY <2>1 DEF View, RowsInv, WritesInv
  <2> QED
    BY <1>1, <2>2, <2>3 DEF RowsInv
<1>5. ASSUME rows' = rows
      PROVE  Goal
  BY <1>1, <1>5 DEF RowsInv, Existing, Exists
<1>6. \/ \E v \in Versions : Register(v)
      \/ \E v \in Versions, pct \in Percentages : SetTraffic(v, pct)
      \/ \E t \in Txs : Commit(t)
      \/ rows' = rows
  BY StepKinds DEF BeginDeploy, DemoteRow, BeginRollback, Select, StartPromote, PromoteRow, Abort,
                   vars
<1> QED
  BY <1>2, <1>3, <1>4, <1>5, <1>6

(* A step writes for one transaction at most.                              *)
LEMMA OthersKeep ==
    ASSUME TypeOK, [Next]_vars, NEW t \in Txs
    PROVE  \/ tx'[t] = tx[t] /\ writes'[t] = writes[t]
           \/ \E v \in Versions : BeginDeploy(t, v) \/ DemoteRow(t, v)
           \/ BeginRollback(t) \/ Select(t) \/ StartPromote(t) \/ PromoteRow(t)
           \/ tx'[t] = NoTx /\ writes'[t] = Clean
<1> USE DEF TypeOK
<1>1. ASSUME NEW u \in Txs, u # t,
             \/ \E v \in Versions : BeginDeploy(u, v) \/ DemoteRow(u, v)
             \/ BeginRollback(u) \/ Select(u) \/ StartPromote(u) \/ PromoteRow(u)
             \/ Commit(u) \/ Abort(u)
      PROVE  tx'[t] = tx[t] /\ writes'[t] = writes[t]
  BY <1>1 DEF BeginDeploy, DemoteRow, BeginRollback, Select, StartPromote, PromoteRow, Commit, Abort
<1>2. Commit(t) \/ Abort(t) => tx'[t] = NoTx /\ writes'[t] = Clean
  BY DEF Commit, Abort
<1>3. ASSUME \/ \E v \in Versions : Register(v)
             \/ \E v \in Versions, pct \in Percentages : SetTraffic(v, pct)
             \/ UNCHANGED vars
      PROVE  tx'[t] = tx[t] /\ writes'[t] = writes[t]
  BY <1>3 DEF Register, SetTraffic, vars
<1> QED
  BY StepKinds, <1>1, <1>2, <1>3

(* Only the promoting statement writes a row in production.                *)
LEMMA WritesStep ==
    ASSUME TypeOK, RowsInv, WritesInv, TxInv, [Next]_vars
    PROVE  WritesInv'
<1> SUFFICES ASSUME NEW t \in Txs, NEW v \in Versions, LockedBy(t, v)'
             PROVE  /\ Exists(v)'
                    /\ writes'[t][v].created <= Cardinality(Existing')
                    /\ writes'[t][v].stage \in {"archived", "production"}
                    /\ writes'[t][v].stage = "production" =>
                           tx'[t].pc = "commit" /\ v = tx'[t].version
  BY DEF WritesInv
<1>1. /\ Exists(v) => Exists(v)'
      /\ Cardinality(Existing) \in Nat /\ Cardinality(Existing') \in Nat
      /\ Cardinality(Existing) <= Cardinality(Existing')
  BY RowsStep, FS_CardinalityType DEF RowsInv, Existing
<1>2. ASSUME NEW row \in Row, Exists(v), row.created <= Cardinality(Existing)
      PROVE  Exists(v)' /\ row.created <= Cardinality(Existing')
  BY <1>1, <1>2 DEF Row
<1>3. View(t, v) \in Row /\ View(t, v).created <= Cardinality(Existing)
  BY ViewType DEF View, RowsInv, WritesInv
<1>4. View(t, v).stage = "production" => Exists(v)
  BY DEF View, Exists, WritesInv
<1>5. CASE writes'[t][v] = writes[t][v] /\ (tx'[t] = tx[t] \/ tx[t].pc # "commit")
  BY <1>2, <1>5 DEF LockedBy, WritesInv, TypeOK
<1>6. CASE writes'[t] = Clean
  BY <1>6 DEF LockedBy, Clean
<1>7. ASSUME NEW w \in Versions, DemoteRow(t, w), v # w \/ View(t, w).stage # "production"
      PROVE  writes'[t][v] = writes[t][v] /\ tx[t].pc # "commit"
  BY <1>7 DEF DemoteRow, TypeOK
<1>8. CASE DemoteRow(t, v) /\ View(t, v).stage = "production"
  <2>1. writes'[t][v] = Archived(View(t, v))
    BY <1>8 DEF DemoteRow, TypeOK
  <2> QED
    BY <1>2, <1>3, <1>4, <1>8, <2>1, UpdatedRow
<1>9. CASE PromoteRow(t) /\ v # tx[t].version
  BY <1>5, <1>9 DEF PromoteRow, TypeOK
<1>10. CASE PromoteRow(t) /\ v = tx[t].version
  <2>1. /\ writes'[t][v] = Promoted(View(t, v)) /\ Exists(v)
        /\ tx'[t].pc = "commit" /\ tx'[t].version = v
    BY <1>10 DEF PromoteRow, TypeOK, TxInv, Tx
  <2> QED
    BY <1>2, <1>3, <2>1, UpdatedRow
<1>11. ASSUME \/ \E w \in Versions : BeginDeploy(t, w)
              \/ BeginRollback(t) \/ Select(t) \/ StartPromote(t)
       PROVE  writes'[t][v] = writes[t][v] /\ tx[t].pc # "commit"
  BY <1>11 DEF BeginDeploy, BeginRollback, Select, StartPromote
<1> QED
  BY OthersKeep, <1>5, <1>6, <1>7, <1>8, <1>9, <1>10, <1>11

(* At each statement a transaction knows what it needs for the next one.   *)
LEMMA TxInvStep ==
    ASSUME TypeOK, RowsInv, WritesInv, TxInv, [Next]_vars
    PROVE  TxInv'
<1> DEFINE Inv(t) ==
        /\ tx[t].pc = "idle" => writes[t] = Clean
        /\ tx[t].pc # "idle" => tx[t].kind \in {"deploy", "rollback"}
        /\ tx[t].pc = "select" => tx[t].kind = "rollback"
        /\ tx[t].pc \in {"demote", "promote", "commit"} => tx[t].version \in Versions
        /\ tx[t].pc = "promote" => Exists(tx[t].version)
        /\ tx[t].pc = "commit" => writes[t][tx[t].version].stage = "production"
<1> SUFFICES ASSUME NEW t \in Txs
             PROVE  Inv(t)'
  BY DEF TxInv
<1>1. Inv(t)
  BY DEF TxInv
<1>2. \A v \in Versions : Exists(v) => Exists(v)'
  BY RowsStep DEF Existing
<1>3. CASE tx'[t] = tx[t] /\ writes'[t] = writes[t]
  BY <1>1, <1>2, <1>3
<1>4. CASE tx'[t] = NoTx /\ writes'[t] = Clean
  BY <1>4 DEF NoTx
<1>5. ASSUME NEW v \in Versions, BeginDeploy(t, v)
      PROVE  Inv(t)'
  BY <1>5 DEF BeginDeploy, TypeOK
<1>6. CASE BeginRollback(t)
  BY <1>6 DEF BeginRollback, TypeOK
<1>7. CASE Select(t)
  <2>1. LatestArchived(t) \in Versions
    BY <1>7, LatestArchivedType DEF Select, InStage
  <2> QED
    BY <1>7, <2>1 DEF Select, TypeOK
<1>8. ASSUME NEW v \in Versions, DemoteRow(t, v)
      PROVE  Inv(t)'
  <2>1. /\ tx[t].pc = "demote" /\ tx'[t].pc = "demote"
        /\ tx'[t].kind = tx[t].kind /\ tx'[t].version = tx[t].version
    BY <1>8 DEF DemoteRow, TypeOK, Tx
  <2> QED
    BY <1>1, <2>1
<1>9. CASE StartPromote(t)
  <2>1. /\ tx[t].pc = "demote" /\ tx'[t].pc = "promote" /\ Exists(tx[t].version)
        /\ tx'[t].kind = tx[t].kind /\ tx'[t].version = tx[t].version
    BY <1>9 DEF StartPromote, TypeOK, Tx
  <2> QED
    BY <1>1, <1>2, <2>1
<1>10. CASE PromoteRow(t)
  <2>1. /\ tx[t].pc = "promote" /\ tx'[t].pc = "commit"
        /\ tx'[t].kind = tx[t].kind /\ tx'[t].version = tx[t].version
    BY <1>10 DEF PromoteRow, TypeOK, Tx
  <2>2. tx[t].version \in Versions
    BY <1>1, <2>1
  <2>3. writes'[t][tx[t].version] = Promoted(View(t, tx[t].version))
    BY <1>10, <2>2 DEF PromoteRow, TypeOK
  <2> QED
    BY <1>1, <2>1, <2>2, <2>3, ViewType, UpdatedRow
<1> QED
  BY OthersKeep, <1>3, <1>4, <1>5, <1>6, <1>7, <1>8, <1>9, <1>10

(* What a commit does to the table and to the log.                         *)
LEMMA CommitEffect ==
    ASSUME TypeOK, WritesInv, TxInv, NEW t \in Txs, Commit(t)
    PROVE  /\ tx[t].version \in Versions
           /\ rows'[tx[t].version].stage = "production"
           /\ \A v \in Versions : rows'[v].stage = "production" =>
                 v = tx[t].version \/ rows[v].stage = "production"
           /\ events' = Append(events, [version |-> tx[t].version, action |-> tx[t].kind])
           /\ Len(events') = Len(events) + 1
           /\ events'[Len(events')] = [version |-> tx[t].version, action |-> tx[t].kind]
           /\ \A i \in 1..Len(events) : events'[i] = events[i]
<1>1. tx[t].version \in Versions /\ writes[t][tx[t].version].stage = "production"
  BY DEF Commit, TxInv
<1>2. rows'[tx[t].version] = writes[t][tx[t].version]
  BY <1>1 DEF Commit, View, LockedBy, NoRow
<1>3. \A v \in Versions : rows'[v].stage = "production" =>
        v = tx[t].version \/ rows[v].stage = "production"
  BY DEF Commit, View, WritesInv
<1>4. [version |-> tx[t].version, action |-> tx[t].kind] \in Event
  BY <1>1 DEF Commit, TxInv, Event
<1> QED
  BY <1>1, <1>2, <1>3, <1>4, AppendProperties DEF Commit, TypeOK

(* A log that is not empty has a last event.                               *)
LEMMA LastEvent ==
    ASSUME TypeOK
    PROVE  /\ Len(events) \in Nat
           /\ events # <<>> => Len(events) \in 1..Len(events)
           /\ \A i \in 1..Len(events) : events[i] \in Event
<1>1. events \in Seq(Event)
  BY DEF TypeOK
<1>2. Len(events) \in Nat /\ (events # <<>> => Len(events) > 0)
  BY <1>1, EmptySeq
<1>3. \A i \in 1..Len(events) : events[i] \in Event
  BY <1>1, ElementOfSeq
<1> QED
  BY <1>2, <1>3

(* What a commit does to the history: it ends the life in production of    *)
(* the versions it archives.                                               *)
LEMMA CommitHistory ==
    ASSUME TypeOK, WritesInv, TxInv, NEW t \in Txs, Commit(t)
    PROVE  /\ registeredAt' = registeredAt
           /\ archivedAt'[tx[t].version] = archivedAt[tx[t].version]
           /\ \A v \in Versions \ {tx[t].version} :
                 \/ /\ rows'[v].stage = "production" <=> rows[v].stage = "production"
                    /\ archivedAt'[v] = archivedAt[v]
                 \/ /\ rows'[v].stage # "production"
                    /\ archivedAt'[v] = Len(events) + 1
<1>1. registeredAt' = registeredAt
  BY DEF Commit
<1>2. \A v \in Versions : rows'[v] = View(t, v)
  BY DEF Commit
<1>3. \A v \in Versions :
        archivedAt'[v] = IF rows[v].stage = "production" /\ View(t, v).stage = "archived"
                           THEN Len(events) + 1 ELSE archivedAt[v]
  BY DEF Commit
<1>4. tx[t].version \in Versions /\ rows'[tx[t].version].stage = "production"
  BY CommitEffect
<1>5. archivedAt'[tx[t].version] = archivedAt[tx[t].version]
  BY <1>2, <1>3, <1>4
<1>6. ASSUME NEW v \in Versions \ {tx[t].version}
      PROVE  View(t, v) = rows[v] \/ View(t, v).stage = "archived"
  BY DEF View, WritesInv
<1> QED
  BY <1>1, <1>2, <1>3, <1>5, <1>6

(* The log and the table, step by step.                                    *)
LEMMA LogStep ==
    ASSUME IInv, [Next]_vars
    PROVE  HistoryInv' /\ LastEventInProduction' /\ ProductionIsAudited'
<1> DEFINE n == Len(events)
           Goal == HistoryInv' /\ LastEventInProduction' /\ ProductionIsAudited'
<1> USE DEF IInv
<1>1. n \in Nat /\ \A v \in Versions : registeredAt[v] \in Nat /\ archivedAt[v] \in Nat
  BY LastEvent DEF TypeOK
<1>2. events # <<>> => events[n].version \in Versions
  BY LastEvent DEF Event
<1>3. ASSUME NEW t \in Txs, Commit(t)
      PROVE  Goal
  <2> DEFINE w == tx[t].version
  <2>1. /\ w \in Versions /\ Len(events') = n + 1
        /\ events'[n + 1].version = w
        /\ \A i \in 1..n : events'[i] = events[i]
        /\ rows'[w].stage = "production"
    <3>1. /\ w \in Versions /\ Len(events') = n + 1
          /\ events'[Len(events')] = [version |-> w, action |-> tx[t].kind]
          /\ \A i \in 1..n : events'[i] = events[i]
          /\ rows'[w].stage = "production"
      BY <1>3, CommitEffect
    <3> QED
      BY <3>1
  <2>2. /\ registeredAt' = registeredAt /\ archivedAt'[w] = archivedAt[w]
        /\ \A v \in Versions \ {w} :
              \/ /\ rows'[v].stage = "production" <=> rows[v].stage = "production"
                 /\ archivedAt'[v] = archivedAt[v]
              \/ rows'[v].stage # "production" /\ archivedAt'[v] = n + 1
    BY <1>3, CommitHistory
  <2> HIDE DEF n, w
  <2>3. LastEventInProduction'
    BY <1>1, <2>1 DEF LastEventInProduction
  <2>4. \A v \in Versions : registeredAt[v] <= n /\ archivedAt[v] <= n
    BY DEF HistoryInv, n
  <2>5. HistoryInv'
    BY <1>1, <2>1, <2>2, <2>4 DEF HistoryInv
  <2>6. ASSUME NEW v \in Versions
        PROVE  rows'[v].stage = "production" <=>
                 \E i \in 1..n + 1 :
                    events'[i].version = v /\ i > registeredAt'[v] /\ i > archivedAt'[v]
    <3>1. CASE v = w
      BY <1>1, <2>1, <2>2, <2>4, <3>1
    <3>2. CASE v # w /\ archivedAt'[v] = n + 1 /\ rows'[v].stage # "production"
      BY <1>1, <3>2
    <3>3. CASE /\ v # w /\ archivedAt'[v] = archivedAt[v]
               /\ rows'[v].stage = "production" <=> rows[v].stage = "production"
      <4>1. rows[v].stage = "production" <=>
              \E i \in 1..n :
                 events[i].version = v /\ i > registeredAt[v] /\ i > archivedAt[v]
        BY DEF ProductionIsAudited, InProduction, n
      <4>2. \A i \in 1..n + 1 : i \in 1..n \/ i = n + 1
        BY <1>1
      <4>3. 1..n \subseteq 1..n + 1
        BY <1>1
      <4> QED
        BY <2>1, <2>2, <3>3, <4>1, <4>2, <4>3
    <3> QED
      BY <2>2, <3>1, <3>2, <3>3
  <2>7. ProductionIsAudited'
    BY <2>1, <2>6 DEF ProductionIsAudited, InProduction
  <2> QED
    BY <2>3, <2>5, <2>7
<1>4. ASSUME NEW v \in Versions, Register(v)
      PROVE  Goal
  <2>1. /\ events' = events /\ archivedAt' = archivedAt
        /\ registeredAt'[v] = n
        /\ \A w \in Versions \ {v} : rows'[w] = rows[w] /\ registeredAt'[w] = registeredAt[w]
        /\ rows'[v].stage = "staging"
    BY <1>4 DEF Register, Upserted, TypeOK
  <2> HIDE DEF n
  <2>2. HistoryInv'
    BY <1>1, <2>1 DEF HistoryInv, n
  <2>3. LastEventInProduction'
    BY <1>2, <2>1 DEF LastEventInProduction, n
  <2>4. ASSUME NEW w \in Versions
        PROVE  rows'[w].stage = "production" <=>
                 \E i \in 1..n :
                    events[i].version = w /\ i > registeredAt'[w] /\ i > archivedAt[w]
    <3>1. CASE w = v
      BY <1>1, <2>1, <3>1
    <3>2. CASE w # v
      BY <2>1, <3>2 DEF ProductionIsAudited, InProduction, n
    <3> QED
      BY <3>1, <3>2
  <2>5. ProductionIsAudited'
    BY <2>1, <2>4 DEF ProductionIsAudited, InProduction, n
  <2> QED
    BY <2>2, <2>3, <2>5
<1>5. ASSUME UNCHANGED <<events, archivedAt, registeredAt>>,
             \A v \in Versions : rows'[v].stage = rows[v].stage
      PROVE  Goal
  BY <1>2, <1>5 DEF HistoryInv, LastEventInProduction, ProductionIsAudited, InProduction
<1>6. ASSUME NEW v \in Versions, NEW pct \in Percentages, SetTraffic(v, pct)
      PROVE  /\ UNCHANGED <<events, archivedAt, registeredAt>>
             /\ \A w \in Versions : rows'[w].stage = rows[w].stage
  BY <1>6 DEF SetTraffic, TypeOK, Row
<1>7. \/ \E v \in Versions : Register(v)
      \/ \E v \in Versions, pct \in Percentages : SetTraffic(v, pct)
      \/ \E t \in Txs : Commit(t)
      \/ UNCHANGED <<rows, events, archivedAt, registeredAt>>
  BY StepKinds DEF BeginDeploy, DemoteRow, BeginRollback, Select, StartPromote, PromoteRow, Abort,
                   vars
<1> QED
  BY <1>3, <1>4, <1>5, <1>6, <1>7

----------------------------------------------------------------------------
(* The inductive invariant, under any fairness.                            *)
LEMMA Invariance == Init /\ [][Next]_vars => []IInv
<1>1. Init => IInv
  <2> SUFFICES ASSUME Init PROVE IInv
    OBVIOUS
  <2>1. TypeOK
    BY RegistryBoundsAssumption, EmptySeq
       DEF Init, TypeOK, Clean, NoRow, Row, Stages, NoTx, Tx
  <2>2. Existing = {}
    BY DEF Init, Existing, Exists, Clean, NoRow
  <2>3. RowsInv
    BY <2>2, FS_EmptySet DEF Init, RowsInv, Clean, NoRow
  <2>4. WritesInv /\ TxInv
    BY DEF Init, WritesInv, TxInv, LockedBy, Clean, NoTx
  <2>5. HistoryInv /\ LastEventInProduction /\ ProductionIsAudited
    BY EmptySeq DEF Init, HistoryInv, LastEventInProduction, ProductionIsAudited, InProduction,
                    Clean, NoRow
  <2> QED
    BY <2>1, <2>3, <2>4, <2>5 DEF IInv
<1>2. IInv /\ [Next]_vars => IInv'
  <2> SUFFICES ASSUME IInv, [Next]_vars PROVE IInv'
    OBVIOUS
  <2> QED
    BY TypeStep, RowsStep, WritesStep, TxInvStep, LogStep DEF IInv
<1> QED
  BY <1>1, <1>2, PTL

(* Rows, log and transactions have their types; in particular traffic      *)
(* stays a percentage, and Rollback's SELECT always finds its version.     *)
THEOREM TypeCorrect == Spec => []TypeOK
<1>1. IInv => TypeOK
  BY DEF IInv
<1> QED
  BY <1>1, Invariance, PTL DEF Spec

(* The last event tells what serves, whatever requests overlap, fail or    *)
(* deadlock: a commit has promoted the version it logs.                    *)
THEOREM LastEventServes == Spec => []LastEventInProduction
<1>1. IInv => LastEventInProduction
  BY DEF IInv
<1> QED
  BY <1>1, Invariance, PTL DEF Spec

(* The audit log tells which versions serve, under any interleaving.       *)
THEOREM ProductionHasEvent == Spec => []ProductionIsAudited
<1>1. IInv => ProductionIsAudited
  BY DEF IInv
<1> QED
  BY <1>1, Invariance, PTL DEF Spec

----------------------------------------------------------------------------
(* One request at a time: one version in production.                       *)
LEMMA SoleStep ==
    ASSUME IInv, SoleInv, OneAtATime, [Next]_vars
    PROVE  SoleInv'
<1> USE DEF IInv
<1>1. ASSUME NEW t \in Txs, Commit(t)
      PROVE  SoleInv'
  <2>1. \A v \in Versions : rows'[v] = View(t, v)
    BY <1>1 DEF Commit
  <2>2. \A v \in Versions : View(t, v).stage = "production" => v = tx[t].version
    BY <1>1 DEF Commit, SoleInv
  <2>3. \A v, w \in InProduction' : v = w
    BY <2>1, <2>2 DEF InProduction
  <2>4. \A u \in Txs : tx'[u].pc = "idle"
    BY <1>1 DEF Commit, OneAtATime, TypeOK, NoTx
  <2> QED
    BY <2>3, <2>4 DEF SoleInv
<1>2. ASSUME \A v \in Versions : rows'[v].stage = "production" => rows[v].stage = "production",
             \A v \in Versions, t \in Txs : rows'[v] = rows[v] \/ ~LockedBy(t, v)
      PROVE  SoleInv'
  <2>1. \A v, w \in InProduction' : v = w
    BY <1>2 DEF SoleInv, InProduction
  <2>2. SUFFICES ASSUME NEW t \in Txs, NEW v \in Versions, View(t, v)'.stage = "production"
                 PROVE  /\ tx'[t].pc = "demote" => v \in tx'[t].todo
                        /\ tx'[t].pc # "promote"
                        /\ tx'[t].pc = "commit" => v = tx'[t].version
    BY <2>1 DEF SoleInv
  <2>3. writes'[t][v] = writes[t][v] => View(t, v).stage = "production"
    BY <1>2, <2>2 DEF View, LockedBy
  <2>4. CASE tx'[t] = tx[t] /\ writes'[t] = writes[t]
    BY <2>3, <2>4 DEF SoleInv
  <2>5. CASE tx'[t] = NoTx
    BY <2>5 DEF NoTx
  <2>6. CASE \/ \E w \in Versions : BeginDeploy(t, w)
             \/ Select(t)
    <3>1. tx'[t].pc = "demote" /\ tx'[t].todo = InStage(t, "production")
      BY <2>6 DEF BeginDeploy, Select, TypeOK
    <3>2. v \in InStage(t, "production")
      BY <2>3, <2>6 DEF BeginDeploy, Select, InStage
    <3> QED
      BY <3>1, <3>2
  <2>7. CASE BeginRollback(t)
    BY <2>7 DEF BeginRollback, TypeOK
  <2>8. ASSUME NEW w \in Versions, DemoteRow(t, w)
        PROVE  tx'[t].pc = "demote" /\ v \in tx'[t].todo
    <3>1. /\ tx[t].pc = "demote" /\ tx'[t].pc = "demote"
          /\ tx'[t].todo = tx[t].todo \ {w}
      BY <2>8 DEF DemoteRow, TypeOK, Tx
    <3>2. rows' = rows
      BY <2>8 DEF DemoteRow
    <3>3. CASE v = w
      <4>1. View(t, w).stage = "production" => View(t, w)'.stage = "archived"
        <5> SUFFICES ASSUME View(t, w).stage = "production"
                     PROVE  View(t, w)'.stage = "archived"
          OBVIOUS
        <5>1. writes'[t][w] = Archived(View(t, w))
          BY <2>8 DEF DemoteRow, TypeOK
        <5>2. writes'[t][w].stage = "archived"
          BY <5>1, ViewType, UpdatedRow
        <5> QED
          BY <5>2 DEF View, LockedBy, NoRow
      <4>2. View(t, w).stage # "production" => View(t, w)' = View(t, w)
        BY <2>8, <3>2 DEF DemoteRow, View, LockedBy
      <4> QED
        BY <2>2, <3>3, <4>1, <4>2
    <3>4. CASE v # w
      <4>1. writes'[t][v] = writes[t][v]
        BY <2>8, <3>4 DEF DemoteRow, TypeOK
      <4> QED
        BY <2>3, <3>1, <3>4, <4>1 DEF SoleInv
    <3> QED
      BY <3>1, <3>3, <3>4
  <2>9. CASE StartPromote(t)
    <3>1. View(t, v).stage = "production" /\ tx[t].pc = "demote" /\ tx[t].todo = {}
      BY <2>3, <2>9 DEF StartPromote
    <3> QED
      BY <3>1 DEF SoleInv
  <2>10. CASE PromoteRow(t)
    <3>1. tx[t].pc = "promote" /\ tx'[t].pc = "commit" /\ tx'[t].version = tx[t].version
      BY <2>10 DEF PromoteRow, TypeOK, Tx
    <3>2. v # tx[t].version => writes'[t][v] = writes[t][v]
      BY <2>10 DEF PromoteRow, TypeOK
    <3> QED
      BY <2>3, <3>1, <3>2 DEF SoleInv
  <2> QED
    BY OthersKeep, <2>4, <2>5, <2>6, <2>7, <2>8, <2>9, <2>10
<1>3. ASSUME NEW v \in Versions, Register(v)
      PROVE  SoleInv'
  <2>1. /\ rows'[v].stage = "staging" /\ ~Locked(v)
        /\ \A w \in Versions \ {v} : rows'[w] = rows[w]
    BY <1>3 DEF Register, Upserted, TypeOK
  <2> QED
    BY <1>2, <2>1 DEF Locked
<1>4. ASSUME NEW v \in Versions, NEW pct \in Percentages, SetTraffic(v, pct)
      PROVE  SoleInv'
  <2>1. /\ rows'[v].stage = rows[v].stage /\ ~Locked(v)
        /\ \A w \in Versions \ {v} : rows'[w] = rows[w]
    BY <1>4 DEF SetTraffic, TypeOK, Row
  <2> QED
    BY <1>2, <2>1 DEF Locked
<1>5. \/ \E v \in Versions : Register(v)
      \/ \E v \in Versions, pct \in Percentages : SetTraffic(v, pct)
      \/ \E t \in Txs : Commit(t)
      \/ rows' = rows
  BY StepKinds DEF BeginDeploy, DemoteRow, BeginRollback, Select, StartPromote, PromoteRow, Abort,
                   vars
<1> QED
  BY <1>1, <1>2, <1>3, <1>4, <1>5

(* While requests do not overlap, one version is in production and the     *)
(* transaction under way sees it.                                          *)
LEMMA SoleInvariance == Init /\ [][Next]_vars /\ []OneAtATime => []SoleInv
<1>1. Init => SoleInv
  BY DEF Init, SoleInv, InProduction, View, LockedBy, Clean, NoRow, NoTx
<1>2. IInv /\ SoleInv /\ OneAtATime /\ [Next]_vars => SoleInv'
  BY SoleStep
<1> QED
  BY <1>1, <1>2, Invariance, PTL

(* One version in production is what the invariant says.                   *)
LEMMA SoleIsAtMostOne == SoleInv => AtMostOneProduction
<1> SUFFICES ASSUME SoleInv PROVE Cardinality(InProduction) <= 1
  BY DEF AtMostOneProduction
<1>1. CASE InProduction = {}
  BY <1>1, FS_EmptySet
<1>2. ASSUME NEW v \in InProduction
      PROVE  Cardinality(InProduction) <= 1
  <2>1. InProduction = {v}
    BY <1>2 DEF SoleInv
  <2>2. Cardinality({v}) = 1
    BY FS_Singleton
  <2> QED
    BY <2>1, <2>2
<1> QED
  BY <1>1, <1>2

(* docs/architecture.md: "a deploy must atomically demote the old          *)
(* production version and promote the new one".  While no two requests are *)
(* open at the same time, whoever sends them, one version serves.          *)
THEOREM OneServes == Spec /\ []OneAtATime => []AtMostOneProduction
BY SoleIsAtMostOne, SoleInvariance, PTL DEF Spec

(* Each step of the registry switches the serving version and logs it,     *)
(* withdraws it, or is none of its readers' business.                      *)
LEMMA RegistrySwitches ==
    ASSUME IInv, SoleInv, SoleInv', [Next]_vars
    PROVE  [Promise!Next]_<<Serving, events>>
<1>1. /\ InProduction = {} => Serving = NoVersion
      /\ \A v \in InProduction : Serving = v
  BY DEF Serving, SoleInv
<1>2. /\ InProduction' = {} => Serving' = NoVersion
      /\ \A v \in InProduction' : Serving' = v
  BY DEF Serving, SoleInv
<1> HIDE DEF Serving
<1>3. ASSUME NEW t \in Txs, Commit(t)
      PROVE  Promise!Next
  <2> DEFINE v == tx[t].version
  <2>1. v \in InProduction' /\ events' = Append(events, [version |-> v, action |-> tx[t].kind])
    BY <1>3, CommitEffect DEF IInv, InProduction
  <2>2. Serving' = v
    BY <1>2, <2>1
  <2>3. v \in Versions /\ tx[t].kind \in {"deploy", "rollback"}
    BY <1>3, CommitEffect DEF IInv, TxInv, Commit
  <2> QED
    BY <2>1, <2>2, <2>3 DEF Promise!Next, Promise!Switch
<1>4. ASSUME UNCHANGED events, InProduction' = InProduction
      PROVE  UNCHANGED <<Serving, events>>
  BY <1>1, <1>2, <1>4
<1>5. ASSUME NEW v \in Versions, Register(v)
      PROVE  [Promise!Next]_<<Serving, events>>
  <2>1. InProduction' = InProduction \ {v} /\ events' = events
    BY <1>5 DEF Register, Upserted, InProduction, IInv, TypeOK
  <2>2. CASE v \notin InProduction
    BY <1>4, <2>1, <2>2
  <2>3. CASE v \in InProduction
    <3>1. InProduction' = {}
      BY <2>1, <2>3 DEF SoleInv
    <3>2. Serving # NoVersion /\ Serving' = NoVersion
      BY <1>1, <1>2, <2>3, <3>1, NoVersionAssumption
    <3> QED
      BY <2>1, <3>2 DEF Promise!Next, Promise!Withdraw
  <2> QED
    BY <2>2, <2>3
<1>6. ASSUME NEW v \in Versions, NEW pct \in Percentages, SetTraffic(v, pct)
      PROVE  UNCHANGED events /\ InProduction' = InProduction
  BY <1>6 DEF SetTraffic, InProduction, IInv, TypeOK, Row
<1>7. ASSUME UNCHANGED <<rows, events>>
      PROVE  UNCHANGED events /\ InProduction' = InProduction
  BY <1>7 DEF InProduction
<1>8. \/ \E v \in Versions : Register(v)
      \/ \E v \in Versions, pct \in Percentages : SetTraffic(v, pct)
      \/ \E t \in Txs : Commit(t)
      \/ UNCHANGED <<rows, events>>
  BY StepKinds DEF BeginDeploy, DemoteRow, BeginRollback, Select, StartPromote, PromoteRow, Abort,
                   vars
<1> QED
  BY <1>3, <1>4, <1>5, <1>6, <1>7, <1>8

(* The registry starts where its promise starts: nothing serves.           *)
LEMMA RegistryStartsWithdrawn == Init => Promise!Init
BY DEF Init, Promise!Init, Serving, InProduction, Clean, NoRow

(* Deploy and Rollback, statement by statement, implement RegistryPromise: *)
(* one atomic switch that is logged in the same step.                      *)
THEOREM RegistryKeepsPromise == Spec /\ []OneAtATime => SwitchesAtomically
<1>1. IInv /\ SoleInv /\ SoleInv' /\ [Next]_vars => [Promise!Next]_<<Serving, events>>
  BY RegistrySwitches
<1> QED
  BY <1>1, Invariance, SoleInvariance, RegistryStartsWithdrawn, PTL
     DEF Spec, SwitchesAtomically, Promise!Spec
=============================================================================
