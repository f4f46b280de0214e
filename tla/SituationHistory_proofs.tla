----------------------- MODULE SituationHistory_proofs -----------------------
(***************************************************************************)
(* The histories of a situation, for any actors, areas, requests, bodies,  *)
(* sweepers, windows of the SLA and policy spacing, and any overlap of     *)
(* PATCH requests with everything else: the closing, the effects, the      *)
(* missed deadline, the warnings and the escalations are told as they      *)
(* were, and the requests keep the promise of SituationRecord.             *)
(*                                                                         *)
(* update() saves an entity it loaded without a lock, so a column may go   *)
(* back to what it was.  `lost` holds the columns in which that happened,  *)
(* and each statement says which part of it survives the loss of which     *)
(* column.  What carries the rest is MemoryIsOfItsLoad: but for its own    *)
(* edits, an entity holds what the row held when it was loaded, so that a  *)
(* write leaves a column alone, or makes its own transition, or adds the   *)
(* column to `lost`.  Each of the histories then has its own invariant.    *)
(***************************************************************************)
EXTENDS SituationLifecycle_proofs

-----------------------------------------------------------------------------
(* Ranks and plans *)

\* A level is the level of its rank.
LEMMA LevelOfRank ==
    ASSUME NEW s \in Severities PROVE SeverityOfRank(SeverityRank(s)) = s
<1>1. /\ SeverityRank("LOW") = 0
      /\ SeverityRank("MEDIUM") = 1
      /\ SeverityRank("HIGH") = 2
      /\ SeverityRank("CRITICAL") = 3
  BY Zenon DEF SeverityRank
<1>2. \A x, y \in Severities : SeverityRank(x) = SeverityRank(y) => x = y
  BY <1>1 DEF Severities
<1>3. PICK x \in Severities : x = SeverityOfRank(SeverityRank(s)) /\ SeverityRank(x) = SeverityRank(s)
  BY DEF SeverityOfRank
<1> QED BY <1>2, <1>3

\* The first step of a policy starts at the reported level.
LEMMA FirstStepLevel ==
    ASSUME NEW s \in Severities PROVE StepLevel(s, 1 - 1) = s
<1>1. SeverityRank(s) + (1 - 1) = SeverityRank(s)
  BY RankType
<1> QED BY <1>1, LevelOfRank DEF StepLevel

\* Rules are taken in their order: a set of them is nothing, the first or both.
InOrder(R) == R \subseteq {1, 2} /\ (2 \in R => 1 \in R)

\* Such sets are three.
LEMMA ThreePlans ==
    ASSUME NEW R, InOrder(R) PROVE R = {} \/ R = {1} \/ R = {1, 2}
<1>1. CASE 2 \in R
  BY <1>1 DEF InOrder
<1>2. CASE 2 \notin R /\ 1 \in R
  BY <1>2 DEF InOrder
<1>3. CASE 2 \notin R /\ 1 \notin R
  BY <1>3 DEF InOrder
<1> QED BY <1>1, <1>2, <1>3

\* The level a set of rules leads to is that of the last of them.
LEMMA LevelAfter ==
    ASSUME NEW v, NEW s
    PROVE  /\ SeverityAfter(v, s, {}) = v
           /\ SeverityAfter(v, s, {1}) = StepLevel(s, 1)
           /\ SeverityAfter(v, s, {2}) = StepLevel(s, 2)
           /\ SeverityAfter(v, s, {1, 2}) = StepLevel(s, 2)
<1>1. (CHOOSE k \in {1} : \A j \in {1} : j <= k) = 1
  OBVIOUS
<1>2. (CHOOSE k \in {2} : \A j \in {2} : j <= k) = 2
  OBVIOUS
<1>3. (CHOOSE k \in {1, 2} : \A j \in {1, 2} : j <= k) = 2
  OBVIOUS
<1>4. {1} # {} /\ {2} # {} /\ {1, 2} # {}
  OBVIOUS
<1> QED BY Zenon, <1>1, <1>2, <1>3, <1>4 DEF SeverityAfter

\* What falls due at an instant is what was missing, in order.
LEMMA DueInOrder ==
    ASSUME TypeOK, NEW t \in Nat, InOrder(RegisteredRules)
    PROVE  /\ InOrder(RegisteredRules \cup DueRules(t))
           /\ RegisteredRules \cap DueRules(t) = {}
<1>1. row.createdAt \in Nat /\ row.closedAt \in Optional(Nat) /\ row.reported \in Severities
  BY DEF TypeOK, RowType
<1>2. StepTime(row.createdAt, 1) \in Nat /\ StepTime(row.createdAt, 2) \in Nat
  BY <1>1, StepTimeType
<1>3. StepTime(row.createdAt, 1) <= StepTime(row.createdAt, 2)
  BY <1>1, PolicyAssumption DEF StepTime
<1>4. 2 \in PolicyRules(row.reported) => 1 \in PolicyRules(row.reported)
  BY <1>1, RankType DEF PolicyRules
<1>5. DueRules(t) \subseteq {1, 2} /\ RegisteredRules \cap DueRules(t) = {}
  BY DEF DueRules, PlanDueEscalations, PolicyRules
<1>6. 2 \in DueRules(t) => 1 \in DueRules(t) \cup RegisteredRules
  BY <1>1, <1>2, <1>3, <1>4 DEF DueRules, PlanDueEscalations, Optional
<1> QED BY <1>5, <1>6 DEF InOrder

-----------------------------------------------------------------------------
(* The invariant *)

Busy(p) == Loaded(p) \/ Selected(p)

\* A sweep has found the deadline missed.
Detected == timeline["SLA_BREACHED"] > 0

\* The status of an entity is the one it was loaded with, or that of the only
\* transition a PATCH makes; and the mark it holds, if any, was really made.
MemoryIsOfItsLoad ==
    \A p \in PatchRequests : Busy(p) =>
        /\ patch[p].entity.status # patch[p].from =>
              patch[p].from = "OPEN" /\ patch[p].entity.status = "IN_PROGRESS"
        /\ patch[p].entity.breachedAt # None =>
              patch[p].entity.breachedAt = row.dueAt /\ Detected

\* A closing is final unless a PATCH overwrites the status.
ClosingIsFinal == "status" \notin lost => ClosedStaysClosed

EffectsArePast ==
    /\ IsFiniteSet(consequences)
    /\ \A c \in consequences : c.createdAt <= now
    /\ row.closedAt # None /\ "status" \notin lost =>
          \A c \in consequences : c.createdAt <= row.closedAt

\* What was detected is true even where the mark was overwritten.
BreachKept ==
    /\ row.dueAt \in Nat
    /\ Detected =>
          /\ row.dueAt < now
          /\ row.closedAt # None /\ "status" \notin lost => row.dueAt < row.closedAt
    /\ row.breachedAt # None => row.breachedAt = row.dueAt /\ Detected
    /\ "breachedAt" \notin lost =>
          timeline["SLA_BREACHED"] = IF row.breachedAt = None THEN 0 ELSE 1

\* The reminder in the row is the last of the warnings.
WarningsKept ==
    /\ IsFiniteSet(warnings)
    /\ \A t \in warnings : InWarningWindow(row.dueAt, row.reported, t)
    /\ "remindedAt" \notin lost =>
          /\ timeline["SLA_WARNING"] = Cardinality(warnings)
          /\ row.remindedAt = None => warnings = {}
          /\ row.remindedAt # None => \A t \in warnings : t <= row.remindedAt
          /\ \A s, t \in warnings : s < t => t - s >= ReminderCooldown

\* The history is that of the rules registered, these were taken in order, and
\* the level in the row is the one they lead to.
EscalationsKept ==
    /\ InOrder(RegisteredRules) /\ RegisteredRules \subseteq PolicyRules(row.reported)
    /\ severityChanges = EscalationRows(row.reported, row.createdAt, RegisteredRules)
    /\ timeline["SEVERITY_ESCALATED"] = Cardinality(RegisteredRules)
    /\ "severity" \notin lost =>
          /\ row.severity = SeverityAfter(row.reported, row.reported, RegisteredRules)
          /\ timeline["SEVERITY_CHANGED"] = 0

HistoryInv ==
    /\ MemoryIsOfItsLoad /\ ClosingIsFinal /\ EffectsArePast
    /\ BreachKept /\ WarningsKept /\ EscalationsKept

-----------------------------------------------------------------------------
(* Escalations *)

\* A plan of several rules has the rows of each.
LEMMA RowsOfPlans ==
    ASSUME NEW s, NEW t, NEW R, NEW D
    PROVE  /\ EscalationRows(s, t, R \cup D) = EscalationRows(s, t, R) \cup EscalationRows(s, t, D)
           /\ {c.rule : c \in EscalationRows(s, t, D)} = D
<1> DEFINE r(k) == [rule |-> k, previous |-> StepLevel(s, k - 1), new |-> StepLevel(s, k),
                    effectiveAt |-> StepTime(t, k)]
<1>1. \A P : EscalationRows(s, t, P) = {r(k) : k \in P}
  BY Zenon DEF EscalationRows
<1>2. \A k : r(k).rule = k
  OBVIOUS
<1> HIDE DEF r
<1>3. {r(k) : k \in R \cup D} = {r(k) : k \in R} \cup {r(k) : k \in D}
  OBVIOUS
<1>4. {c.rule : c \in {r(k) : k \in D}} = D
  BY <1>2
<1> QED BY <1>1, <1>3, <1>4

\* Sets of rules are finite.
LEMMA PlansAreFinite ==
    ASSUME NEW R, R \subseteq {1, 2} PROVE IsFiniteSet(R) /\ Cardinality(R) \in Nat
<1>1. IsFiniteSet({} \cup {1}) /\ IsFiniteSet(({} \cup {1}) \cup {2})
  BY FS_EmptySet, FS_AddElement
<1>2. R \subseteq ({} \cup {1}) \cup {2}
  OBVIOUS
<1> QED BY <1>1, <1>2, FS_Subset, FS_CardinalityType

\* A step that takes no escalation keeps them.
LEMMA EscalationsFrame ==
    ASSUME EscalationsKept, UNCHANGED <<severityChanges, lost>>,
           \A f \in {"reported", "createdAt", "severity"} : row'[f] = row[f],
           \A e \in {"SEVERITY_ESCALATED", "SEVERITY_CHANGED"} : timeline'[e] = timeline[e]
    PROVE  EscalationsKept'
<1>1. RegisteredRules' = RegisteredRules
  BY DEF RegisteredRules
<1>2. /\ row'.reported = row.reported /\ row'.createdAt = row.createdAt
      /\ row'.severity = row.severity
      /\ timeline'["SEVERITY_ESCALATED"] = timeline["SEVERITY_ESCALATED"]
      /\ timeline'["SEVERITY_CHANGED"] = timeline["SEVERITY_CHANGED"]
  OBVIOUS
<1> QED BY <1>1, <1>2 DEF EscalationsKept

\* A plan registers what was missing, raises the level to where the whole plan
\* leads, and announces each rule.
LEMMA PlanKept ==
    ASSUME TypeOK, EscalationsKept, NEW t \in Nat, RegisterEscalations(t),
           row'.severity = EscalatedSeverity(t),
           row'.reported = row.reported, row'.createdAt = row.createdAt,
           timeline'["SEVERITY_ESCALATED"] =
              timeline["SEVERITY_ESCALATED"] + Cardinality(DueRules(t)),
           timeline'["SEVERITY_CHANGED"] = timeline["SEVERITY_CHANGED"],
           UNCHANGED lost
    PROVE  EscalationsKept'
<1> DEFINE R == RegisteredRules
           D == DueRules(t)
           s == row.reported
<1>1. InOrder(R) /\ InOrder(R \cup D) /\ R \cap D = {} /\ D \subseteq PolicyRules(s)
  BY DueInOrder, DueRulesFacts DEF EscalationsKept, TypeOK
<1>2. severityChanges' = EscalationRows(s, row.createdAt, R \cup D)
  BY RowsOfPlans DEF RegisterEscalations, EscalationsKept
<1>3. RegisteredRules' = R \cup D
  <2>1. {c.rule : c \in EscalationRows(s, row.createdAt, R \cup D)} = R \cup D
    BY RowsOfPlans
  <2>2. RegisteredRules' = {c.rule : c \in severityChanges'}
    BY DEF RegisteredRules
  <2> QED BY <1>2, <2>1, <2>2
<1>4. ASSUME "severity" \notin lost PROVE EscalatedSeverity(t) = SeverityAfter(s, s, R \cup D)
  <2>1. EscalatedSeverity(t) = SeverityAfter(SeverityAfter(s, s, R), s, D)
    BY <1>4 DEF EscalatedSeverity, EscalationsKept
  <2> HIDE DEF R, D, s
  <2>2. CASE R = {}
    BY <2>1, <2>2, LevelAfter
  <2>3. CASE R = {1}
    <3>1. D = {} \/ D = {2}
      BY <1>1, <2>3 DEF InOrder
    <3>2. CASE D = {}
      BY <2>1, <2>3, <3>2, LevelAfter
    <3>3. CASE D = {2}
      <4>1. R \cup D = {1, 2}
        BY <2>3, <3>3
      <4> QED BY <2>1, <3>3, <4>1, LevelAfter
    <3> QED BY <3>1, <3>2, <3>3
  <2>4. CASE R = {1, 2}
    <3>1. D = {} /\ R \cup D = R
      BY <1>1, <2>4 DEF InOrder
    <3> QED BY <2>1, <3>1, LevelAfter
  <2> QED BY <1>1, <2>2, <2>3, <2>4, ThreePlans
<1>5. Cardinality(R \cup D) = Cardinality(R) + Cardinality(D)
  <2>1. IsFiniteSet(R) /\ IsFiniteSet(D) /\ Cardinality(R) \in Nat /\ Cardinality(D) \in Nat
    BY <1>1, PlansAreFinite DEF InOrder
  <2> HIDE DEF R, D
  <2>2. Cardinality(R \cup D) = Cardinality(R) + Cardinality(D) - Cardinality(R \cap D)
    BY <2>1, FS_Union
  <2>3. Cardinality(R \cap D) = 0
    BY <1>1, FS_EmptySet
  <2> QED BY <2>1, <2>2, <2>3
<1> QED BY <1>1, <1>2, <1>3, <1>4, <1>5 DEF EscalationsKept

\* The level in force is that of the last change that took effect,
LEMMA LevelInForce ==
    ASSUME NEW s, NEW changes, NEW t \in Int, NEW c \in changes,
           \A b \in changes : b.effectiveAt \in Int,
           c.effectiveAt <= t,
           \A b \in changes : b.effectiveAt <= t /\ b # c => b.effectiveAt < c.effectiveAt
    PROVE  SeverityAt(s, changes, t) = c.new
<1> DEFINE inForce == {b \in changes : b.effectiveAt <= t}
<1>1. c \in inForce /\ \A b \in inForce : b.effectiveAt <= c.effectiveAt
  OBVIOUS
<1>2. \A d \in inForce : (\A b \in inForce : b.effectiveAt <= d.effectiveAt) => d = c
  BY <1>1
<1>3. (CHOOSE d \in inForce : \A b \in inForce : b.effectiveAt <= d.effectiveAt) = c
  <2> HIDE DEF inForce
  <2> QED BY <1>1, <1>2
<1>4. inForce # {}
  BY <1>1
<1> QED BY Zenon, <1>3, <1>4 DEF SeverityAt

\* or the reported one if none did.
LEMMA ReportedInForce ==
    ASSUME NEW s, NEW changes, NEW t, \A b \in changes : ~ (b.effectiveAt <= t)
    PROVE  SeverityAt(s, changes, t) = s
<1>1. {b \in changes : b.effectiveAt <= t} = {}
  OBVIOUS
<1> QED BY Zenon, <1>1 DEF SeverityAt

\* A history is coherent if each change starts from the level that was in force
\* and none comes after the closing, but for the level of the row, which must be
\* the one the last change leads to.
LEMMA CoherentHistory ==
    ASSUME NEW s, NEW severity, NEW closedAt, NEW changes, NEW level,
           \A c \in changes : c.previous = SeverityAt(s, changes, c.effectiveAt - 1),
           \A t \in {c.effectiveAt : c \in changes} \cup {0} :
              (\A c \in changes : c.effectiveAt <= t) => level = SeverityAt(s, changes, t),
           closedAt # None => \A c \in changes : ~ (c.effectiveAt > closedAt)
    PROVE  SeverityHistoryViolations(s, severity, closedAt, changes) \subseteq
              IF severity = level THEN {} ELSE {"CURRENT_MISMATCH"}
<1>1. "BROKEN_CHAIN" \notin SeverityHistoryViolations(s, severity, closedAt, changes)
  BY Zenon DEF SeverityHistoryViolations
<1>2. "ESCALATION_AFTER_CLOSE" \notin SeverityHistoryViolations(s, severity, closedAt, changes)
  BY Zenon DEF SeverityHistoryViolations
<1>3. severity = level =>
         "CURRENT_MISMATCH" \notin SeverityHistoryViolations(s, severity, closedAt, changes)
  BY Zenon DEF SeverityHistoryViolations
<1>4. SeverityHistoryViolations(s, severity, closedAt, changes) \subseteq
         {"BROKEN_CHAIN", "CURRENT_MISMATCH", "ESCALATION_AFTER_CLOSE"}
  BY DEF SeverityHistoryViolations
<1> QED BY <1>1, <1>2, <1>3, <1>4

\* So is the history of a first step,
LEMMA OneChangeIsCoherent ==
    ASSUME NEW s, NEW severity, NEW closedAt, NEW c, c.effectiveAt \in Nat, c.previous = s,
           closedAt # None => ~ (c.effectiveAt > closedAt)
    PROVE  SeverityHistoryViolations(s, severity, closedAt, {c}) \subseteq
              IF severity = c.new THEN {} ELSE {"CURRENT_MISMATCH"}
<1>1. SeverityAt(s, {c}, c.effectiveAt - 1) = s
  BY ReportedInForce
<1>2. ASSUME NEW t \in Nat, c.effectiveAt <= t PROVE SeverityAt(s, {c}, t) = c.new
  BY <1>2, LevelInForce
<1> DEFINE changes == {c}
<1>3. \A b \in changes : b.previous = SeverityAt(s, changes, b.effectiveAt - 1)
  BY <1>1
<1>4. \A t \in {b.effectiveAt : b \in changes} \cup {0} :
         (\A b \in changes : b.effectiveAt <= t) => c.new = SeverityAt(s, changes, t)
  BY <1>2
<1>5. closedAt # None => \A b \in changes : ~ (b.effectiveAt > closedAt)
  OBVIOUS
<1> HIDE DEF changes
<1>6. SeverityHistoryViolations(s, severity, closedAt, changes) \subseteq
         IF severity = c.new THEN {} ELSE {"CURRENT_MISMATCH"}
  BY <1>3, <1>4, <1>5, CoherentHistory
<1> QED BY <1>6 DEF changes

\* and of two steps one after the other.
LEMMA TwoChangesAreCoherent ==
    ASSUME NEW s, NEW severity, NEW closedAt, NEW c, NEW d, c.effectiveAt \in Nat,
           d.effectiveAt \in Nat, c.effectiveAt < d.effectiveAt, c.previous = s,
           d.previous = c.new,
           closedAt # None => ~ (c.effectiveAt > closedAt) /\ ~ (d.effectiveAt > closedAt)
    PROVE  SeverityHistoryViolations(s, severity, closedAt, {c, d}) \subseteq
              IF severity = d.new THEN {} ELSE {"CURRENT_MISMATCH"}
<1> DEFINE changes == {c, d}
<1>0. /\ c \in changes /\ d \in changes /\ \A b \in changes : b = c \/ b = d
      /\ \A b \in changes : b.effectiveAt \in Int
  OBVIOUS
<1> HIDE DEF changes
<1>1. SeverityAt(s, changes, c.effectiveAt - 1) = s
  BY <1>0, ReportedInForce
<1>2. SeverityAt(s, changes, d.effectiveAt - 1) = c.new
  BY <1>0, LevelInForce
<1>3. ASSUME NEW t \in Nat, d.effectiveAt <= t PROVE SeverityAt(s, changes, t) = d.new
  BY <1>0, <1>3, LevelInForce
<1>4. \A b \in changes : b.previous = SeverityAt(s, changes, b.effectiveAt - 1)
  BY <1>0, <1>1, <1>2
<1>5. \A t \in {b.effectiveAt : b \in changes} \cup {0} :
         (\A b \in changes : b.effectiveAt <= t) => d.new = SeverityAt(s, changes, t)
  BY <1>0, <1>3
<1>6. closedAt # None => \A b \in changes : ~ (b.effectiveAt > closedAt)
  BY <1>0
<1>7. SeverityHistoryViolations(s, severity, closedAt, changes) \subseteq
         IF severity = d.new THEN {} ELSE {"CURRENT_MISMATCH"}
  BY <1>4, <1>5, <1>6, CoherentHistory
<1> QED BY <1>7 DEF changes

\* The coherence that checkSeverityHistoryInvariants looks for.
LEMMA KeptIsCoherent ==
    ASSUME TypeOK, EscalationsKept, EscalationsStopAtClosing PROVE SeverityHistoryCoherent
<1> DEFINE s == row.reported
           R == RegisteredRules
           t1 == StepTime(row.createdAt, 1)
           t2 == StepTime(row.createdAt, 2)
           c1 == [rule |-> 1, previous |-> s, new |-> StepLevel(s, 1), effectiveAt |-> t1]
           c2 == [rule |-> 2, previous |-> StepLevel(s, 1), new |-> StepLevel(s, 2),
                  effectiveAt |-> t2]
           level == SeverityAfter(s, s, R)
           found(changes) == SeverityHistoryViolations(s, row.severity, row.closedAt, changes)
           ok(changes) == found(changes) \subseteq
                             IF row.severity = level THEN {} ELSE {"CURRENT_MISMATCH"}
<1>1. s \in Severities /\ row.createdAt \in Nat
  BY DEF TypeOK, RowType
<1>2. t1 \in Nat /\ t2 \in Nat /\ t1 < t2
  BY <1>1, StepTimeType, PolicyAssumption DEF StepTime
<1>3. /\ EscalationRows(s, row.createdAt, {}) = {}
      /\ EscalationRows(s, row.createdAt, {1}) = {c1}
      /\ EscalationRows(s, row.createdAt, {1, 2}) = {c1, c2}
  <2>1. StepLevel(s, 1 - 1) = s /\ StepLevel(s, 2 - 1) = StepLevel(s, 1)
    BY <1>1, FirstStepLevel
  <2> QED BY <2>1 DEF EscalationRows
<1>4. row.closedAt # None => \A c \in severityChanges : ~ (c.effectiveAt > row.closedAt)
  BY DEF EscalationsStopAtClosing, TypeOK, RowType, Optional
<1>5. severityChanges = EscalationRows(s, row.createdAt, R) /\ InOrder(R)
  BY DEF EscalationsKept
<1>6. /\ c1.effectiveAt = t1 /\ c1.previous = s /\ c1.new = StepLevel(s, 1)
      /\ c2.effectiveAt = t2 /\ c2.previous = StepLevel(s, 1) /\ c2.new = StepLevel(s, 2)
      /\ c1 # c2
  OBVIOUS
<1>0. "severity" \notin lost => row.severity = level
  BY DEF EscalationsKept
<1> HIDE DEF s, t1, t2, c1, c2
<1>7. ok(severityChanges) /\ Cardinality(severityChanges) = Cardinality(R)
  <2>1. ASSUME R = {} PROVE ok(severityChanges) /\ Cardinality(severityChanges) = Cardinality(R)
    <3>1. severityChanges = {} /\ level = s
      BY <1>3, <1>5, <2>1, LevelAfter
    <3>2. \A t : SeverityAt(s, {}, t) = s
      BY ReportedInForce
    <3> HIDE DEF R, level
    <3>3. ok({})
      BY <3>1, <3>2, CoherentHistory
    <3> QED BY <2>1, <3>1, <3>3
  <2>2. ASSUME R = {1} PROVE ok(severityChanges) /\ Cardinality(severityChanges) = Cardinality(R)
    <3>1. severityChanges = {c1} /\ level = c1.new
      BY <1>3, <1>5, <1>6, <2>2, LevelAfter
    <3> HIDE DEF R, level
    <3>2. ok({c1})
      BY <1>2, <1>4, <1>6, <3>1, OneChangeIsCoherent
    <3>3. Cardinality({c1}) = 1 /\ Cardinality({1}) = 1
      BY FS_Singleton
    <3> QED BY <2>2, <3>1, <3>2, <3>3
  <2>3. ASSUME R = {1, 2} PROVE ok(severityChanges) /\ Cardinality(severityChanges) = Cardinality(R)
    <3>1. severityChanges = {c1, c2} /\ level = c2.new
      BY <1>3, <1>5, <1>6, <2>3, LevelAfter
    <3> HIDE DEF R, level
    <3>2. ok({c1, c2})
      BY <1>2, <1>4, <1>6, <3>1, TwoChangesAreCoherent
    <3>3. ASSUME NEW x, NEW y, x # y PROVE Cardinality({x, y}) = 2
      <4>1. IsFiniteSet({x}) /\ Cardinality({x}) = 1 /\ y \notin {x}
        BY <3>3, FS_Singleton
      <4>2. Cardinality({x} \cup {y}) = Cardinality({x}) + 1
        BY <4>1, FS_AddElement
      <4>3. {x} \cup {y} = {x, y}
        OBVIOUS
      <4> QED BY <4>1, <4>2, <4>3
    <3>4. Cardinality({c1, c2}) = 2
      BY <1>6, <3>3
    <3>5. Cardinality({1, 2}) = 2
      <4>1. \A x, y : x # y => Cardinality({x, y}) = 2
        BY <3>3
      <4>2. 1 # 2
        OBVIOUS
      <4> QED BY Zenon, <4>1, <4>2
    <3> QED BY <2>3, <3>1, <3>2, <3>4, <3>5
  <2> QED BY <1>5, <2>1, <2>2, <2>3, ThreePlans
<1>8. timeline["SEVERITY_CHANGED"] > 0 => "severity" \in lost
  BY DEF EscalationsKept
<1>9. timeline["SEVERITY_ESCALATED"] = Cardinality(R)
  BY DEF EscalationsKept
<1>10. found(severityChanges) \subseteq IF "severity" \in lost THEN {"CURRENT_MISMATCH"} ELSE {}
  <2> HIDE DEF level
  <2> QED BY <1>0, <1>7
<1> QED BY <1>7, <1>8, <1>9, <1>10 DEF SeverityHistoryCoherent, s, R

-----------------------------------------------------------------------------
(* Steps that keep a history *)

\* Nothing comes into a history but with its own step: effects,
LEMMA EffectsFrame ==
    ASSUME TypeOK, TypeOK', EffectsArePast, UNCHANGED consequences, lost \subseteq lost',
           row'.closedAt = row.closedAt, now' \in {now, now + 1}
    PROVE  EffectsArePast'
<1>1. now \in Nat /\ now' \in Nat /\ now <= now'
  BY DEF TypeOK
<1>2. \A c \in consequences : c.createdAt \in Nat
  BY DEF TypeOK
<1> QED BY <1>1, <1>2 DEF EffectsArePast

\* the missed deadline,
LEMMA BreachFrame ==
    ASSUME TypeOK, TypeOK', BreachKept, now' \in {now, now + 1}, lost \subseteq lost',
           \A f \in {"dueAt", "breachedAt", "closedAt"} : row'[f] = row[f],
           timeline'["SLA_BREACHED"] = timeline["SLA_BREACHED"]
    PROVE  BreachKept'
<1>1. now \in Nat /\ now' \in Nat /\ now <= now'
  BY DEF TypeOK
<1>2. row'.dueAt = row.dueAt /\ row'.breachedAt = row.breachedAt /\ row'.closedAt = row.closedAt
  OBVIOUS
<1> QED BY <1>1, <1>2 DEF BreachKept, Detected

\* and warnings.
LEMMA WarningsFrame ==
    ASSUME WarningsKept, UNCHANGED warnings, lost \subseteq lost',
           \A f \in {"dueAt", "reported", "remindedAt"} : row'[f] = row[f],
           timeline'["SLA_WARNING"] = timeline["SLA_WARNING"]
    PROVE  WarningsKept'
<1>1. row'.dueAt = row.dueAt /\ row'.reported = row.reported /\ row'.remindedAt = row.remindedAt
  OBVIOUS
<1> QED BY <1>1 DEF WarningsKept

\* The four histories together.
Histories == EffectsArePast /\ BreachKept /\ WarningsKept /\ EscalationsKept

HistoryColumns == {"reported", "createdAt", "dueAt", "severity", "closedAt", "breachedAt",
                   "remindedAt"}

HistoryEvents == {"SLA_BREACHED", "SLA_WARNING", "SEVERITY_ESCALATED", "SEVERITY_CHANGED"}

\* A step that writes none of their columns and announces none of their events.
LEMMA HistoriesFrame ==
    ASSUME TypeOK, TypeOK', Histories, now' \in {now, now + 1},
           UNCHANGED <<consequences, severityChanges, warnings, lost>>,
           \A f \in HistoryColumns : row'[f] = row[f],
           \A e \in HistoryEvents : timeline'[e] = timeline[e]
    PROVE  Histories'
<1> USE DEF Histories, HistoryColumns, HistoryEvents
<1>1. EffectsArePast'
  BY EffectsFrame
<1>2. BreachKept'
  BY BreachFrame
<1>3. WarningsKept'
  BY WarningsFrame
<1>4. EscalationsKept'
  BY EscalationsFrame
<1> QED BY <1>1, <1>2, <1>3, <1>4

\* A step that leaves the tables alone.
LEMMA TablesFrame ==
    ASSUME TypeOK, TypeOK', Histories, now' \in {now, now + 1}, UNCHANGED tables
    PROVE  Histories'
  BY HistoriesFrame DEF tables

\* What the requests hold in memory stays true: no deadline changes, and a
\* detection is not undone.
LEMMA MemoryFrame ==
    ASSUME MemoryIsOfItsLoad, UNCHANGED patch, row'.dueAt = row.dueAt, Detected => Detected'
    PROVE  MemoryIsOfItsLoad'
  BY DEF MemoryIsOfItsLoad, Busy, Loaded, Selected

\* A problem that is not closed has no learning and no instant of closing.
LEMMA OpenIsOpen ==
    ASSUME ClosingIsWitnessed, ClosingIsFinal, row.status # "CLOSED", "status" \notin lost
    PROVE  resolution = None /\ row.closedAt = None
  BY DEF ClosingIsWitnessed, ClosingIsFinal, ClosedStaysClosed, Closed

-----------------------------------------------------------------------------
(* Each step keeps the invariant *)

\* A closing: what came before it is dated before it.
LEMMA ResolveKeeps ==
    ASSUME IInv, TypeOK', HistoryInv, NEW a \in Actors, Resolve(a)
    PROVE  HistoryInv'
<1> USE DEF IInv, HistoryInv
<1>1. row' = ClosedRow(row, EscalatedSeverity(now), now)
  BY Zenon DEF Resolve, ClosedRow
<1>2. /\ row'.status = "CLOSED" /\ row'.closedAt = now
      /\ row'.severity = EscalatedSeverity(now)
      /\ \A f \in HistoryColumns \ {"closedAt", "severity"} : row'[f] = row[f]
  BY <1>1 DEF ClosedRow, RowType, TypeOK, HistoryColumns
<1>3. /\ RegisterEscalations(now) /\ now \in Nat
      /\ UNCHANGED <<now, consequences, warnings, lost, patch>>
  BY DEF Resolve, requests, TypeOK
<1>4. /\ timeline'["SLA_BREACHED"] = timeline["SLA_BREACHED"]
      /\ timeline'["SLA_WARNING"] = timeline["SLA_WARNING"]
      /\ timeline'["SEVERITY_CHANGED"] = timeline["SEVERITY_CHANGED"]
      /\ timeline'["SEVERITY_ESCALATED"] =
            timeline["SEVERITY_ESCALATED"] + Cardinality(DueRules(now))
  BY DEF Resolve, EscalationsThen, TypeOK, EventTypes
<1>5. row'.dueAt = row.dueAt /\ row'.breachedAt = row.breachedAt /\ row'.reported = row.reported
      /\ row'.createdAt = row.createdAt /\ row'.remindedAt = row.remindedAt
  BY <1>2 DEF HistoryColumns
<1>6. EffectsArePast'
  BY <1>2, <1>3 DEF EffectsArePast
<1>7. BreachKept'
  BY <1>2, <1>3, <1>4, <1>5 DEF BreachKept, Detected
<1>8. WarningsKept'
  BY <1>3, <1>4, <1>5, WarningsFrame
<1>9. EscalationsKept'
  BY <1>2, <1>3, <1>4, <1>5, PlanKept
<1>10. MemoryIsOfItsLoad'
  BY <1>3, <1>4, <1>5, MemoryFrame DEF Detected
<1>11. ClosingIsFinal'
  BY <1>2 DEF ClosingIsFinal, ClosedStaysClosed, Closed
<1> QED BY <1>6, <1>7, <1>8, <1>9, <1>10, <1>11

\* A request to add a consequence: none is accepted once the problem is closed.
LEMMA AddKeeps ==
    ASSUME IInv, TypeOK', HistoryInv, NEW c \in AddRequests,
           AddStep(c)
    PROVE  HistoryInv'
<1> USE DEF IInv, HistoryInv
<1>1. ASSUME UNCHANGED <<now, tables, patch>> PROVE HistoryInv'
  <2>1. MemoryIsOfItsLoad'
    BY <1>1, MemoryFrame DEF tables, Detected
  <2>2. Histories'
    BY <1>1, TablesFrame DEF Histories
  <2> QED BY <1>1, <2>1, <2>2 DEF Histories, tables, ClosingIsFinal, ClosedStaysClosed, Closed
<1>2. CASE AddCommit(c)
  <2> DEFINE at == adding[c].at
  <2>1. at \in Nat /\ at <= now
    BY <1>2 DEF AddCommit, TypeOK, AddType, InstantsArePast
  <2>2. /\ row' = [row EXCEPT !.severity = EscalatedSeverity(at)]
        /\ RegisterEscalations(at)
        /\ consequences' = consequences \cup
              {[request |-> c, occurredAt |-> adding[c].occurredAt, createdAt |-> at]}
        /\ timeline' = EscalationsThen(at, "CONSEQUENCE_ADDED")
        /\ UNCHANGED <<now, resolution, warnings, lost, patch>>
    BY <1>2 DEF AddCommit
  <2>3. row.status # "CLOSED"
    BY <1>2 DEF AddCommit, AddAccepted, AddConsequenceAllowed, ConsequenceOpenStatuses
  <2> HIDE DEF at
  <2>4. /\ row'.severity = EscalatedSeverity(at) /\ row'.status = row.status
        /\ \A f \in HistoryColumns \ {"severity"} : row'[f] = row[f]
    BY <2>2 DEF RowType, TypeOK, HistoryColumns
  <2>5. /\ timeline'["SLA_BREACHED"] = timeline["SLA_BREACHED"]
        /\ timeline'["SLA_WARNING"] = timeline["SLA_WARNING"]
        /\ timeline'["SEVERITY_CHANGED"] = timeline["SEVERITY_CHANGED"]
        /\ timeline'["SEVERITY_ESCALATED"] =
              timeline["SEVERITY_ESCALATED"] + Cardinality(DueRules(at))
    BY <2>2 DEF EscalationsThen, TypeOK, EventTypes
  <2>6. row'.dueAt = row.dueAt /\ row'.breachedAt = row.breachedAt /\ row'.closedAt = row.closedAt
        /\ row'.reported = row.reported /\ row'.createdAt = row.createdAt
        /\ row'.remindedAt = row.remindedAt
    BY <2>4 DEF HistoryColumns
  <2>7. EffectsArePast'
    <3>1. "status" \notin lost => row.closedAt = None
      BY <2>3, OpenIsOpen
    <3>2. IsFiniteSet(consequences')
      BY <2>2, FS_AddElement DEF EffectsArePast
    <3>3. \A x \in consequences' : x.createdAt <= now'
      BY <2>1, <2>2 DEF EffectsArePast
    <3>4. lost' = lost
      BY <2>2
    <3> QED BY <2>6, <3>1, <3>2, <3>3, <3>4 DEF EffectsArePast
  <2>8. BreachKept'
    BY <2>2, <2>5, <2>6 DEF BreachKept, Detected
  <2>9. WarningsKept'
    BY <2>2, <2>5, <2>6, WarningsFrame
  <2>10. EscalationsKept'
    BY <2>1, <2>2, <2>4, <2>5, <2>6, PlanKept
  <2>11. MemoryIsOfItsLoad'
    BY <2>2, <2>5, <2>6, MemoryFrame DEF Detected
  <2>12. ClosingIsFinal'
    BY <2>2, <2>4 DEF ClosingIsFinal, ClosedStaysClosed, Closed
  <2> QED BY <2>7, <2>8, <2>9, <2>10, <2>11, <2>12
<1> QED BY <1>1, <1>2 DEF AddStep, AddStart, AddFails

\* The instant a run marks a deadline at is past, and the problem alive.
LEMMA MarkKeeps ==
    ASSUME IInv, TypeOK', HistoryInv, NEW w \in Sweepers,
           MarkBreached(w)
    PROVE  HistoryInv'
<1> USE DEF IInv, HistoryInv
<1>1. /\ row' = [row EXCEPT !.breachedAt = row.dueAt]
      /\ timeline' = [timeline EXCEPT !["SLA_BREACHED"] = @ + 1]
      /\ UNCHANGED <<now, resolution, consequences, severityChanges, warnings, lost, patch>>
      /\ row.breachedAt = None /\ row.status \in SlaActiveStatuses
      /\ sweep[w].phase # "idle" /\ IsOverdue(row.dueAt, sweep[w].at)
  BY DEF MarkBreached, BreachDue
<1>2. /\ row'.breachedAt = row.dueAt /\ row'.status = row.status
      /\ \A f \in HistoryColumns \ {"breachedAt"} : row'[f] = row[f]
  BY <1>1 DEF RowType, TypeOK, HistoryColumns
<1>3. row'.dueAt = row.dueAt /\ row'.closedAt = row.closedAt /\ row'.reported = row.reported
      /\ row'.createdAt = row.createdAt /\ row'.severity = row.severity
      /\ row'.remindedAt = row.remindedAt
  BY <1>2 DEF HistoryColumns
<1>4. /\ timeline'["SLA_BREACHED"] = timeline["SLA_BREACHED"] + 1
      /\ \A e \in HistoryEvents \ {"SLA_BREACHED"} : timeline'[e] = timeline[e]
  BY <1>1 DEF TypeOK, EventTypes, HistoryEvents
<1>5. EffectsArePast'
  BY <1>1, <1>3, EffectsFrame
<1>6. BreachKept'
  <2>1. sweep[w].at \in Nat /\ sweep[w].at <= now /\ now \in Nat
    BY <1>1 DEF TypeOK, SweepType, InstantsArePast
  <2>2. row.dueAt \in Nat /\ row.dueAt < now
    BY <1>1, <2>1 DEF IsOverdue, BreachKept
  <2>3. "status" \notin lost => row.closedAt = None
    BY <1>1, OpenIsOpen DEF SlaActiveStatuses
  <2>4. row.dueAt # None /\ ("breachedAt" \notin lost => timeline["SLA_BREACHED"] = 0)
    BY <1>1, <2>2, LifecycleAssumption DEF BreachKept
  <2>5. Detected'
    BY <1>4 DEF TypeOK, EventTypes, Detected
  <2> QED BY <1>1, <1>2, <1>3, <1>4, <2>2, <2>3, <2>4, <2>5 DEF BreachKept
<1>7. WarningsKept'
  <2>1. timeline'["SLA_WARNING"] = timeline["SLA_WARNING"]
    BY <1>4 DEF HistoryEvents
  <2> QED BY <1>1, <1>3, <2>1, WarningsFrame
<1>8. EscalationsKept'
  BY <1>1, <1>3, <1>4, EscalationsFrame DEF HistoryEvents
<1>9. MemoryIsOfItsLoad' /\ ClosingIsFinal'
  BY <1>1, <1>2, <1>3, <1>4, MemoryFrame DEF TypeOK, EventTypes, Detected, ClosingIsFinal, ClosedStaysClosed, Closed
<1> QED BY <1>5, <1>6, <1>7, <1>8, <1>9

\* A warning is later than the last by the cooldown, whatever run sends it.
LEMMA WarnKeeps ==
    ASSUME IInv, TypeOK', HistoryInv, NEW w \in Sweepers, Warn(w)
    PROVE  HistoryInv'
<1> USE DEF IInv, HistoryInv
<1> DEFINE at == sweep[w].at
<1>1. /\ row' = [row EXCEPT !.remindedAt = at]
      /\ timeline' = [timeline EXCEPT !["SLA_WARNING"] = @ + 1]
      /\ warnings' = warnings \cup {at}
      /\ UNCHANGED <<now, resolution, consequences, severityChanges, lost, patch>>
      /\ InWarningWindow(row.dueAt, row.reported, at) /\ CooledDown(row.remindedAt, at)
  BY DEF Warn, WarningDue
<1>2. at \in Nat
  BY DEF Warn, TypeOK, SweepType
<1> HIDE DEF at
<1>3. /\ row'.remindedAt = at /\ row'.status = row.status
      /\ \A f \in HistoryColumns \ {"remindedAt"} : row'[f] = row[f]
  BY <1>1 DEF RowType, TypeOK, HistoryColumns
<1>4. row'.dueAt = row.dueAt /\ row'.closedAt = row.closedAt /\ row'.reported = row.reported
      /\ row'.createdAt = row.createdAt /\ row'.severity = row.severity
      /\ row'.breachedAt = row.breachedAt
  BY <1>3 DEF HistoryColumns
<1>5. /\ timeline'["SLA_WARNING"] = timeline["SLA_WARNING"] + 1
      /\ \A e \in HistoryEvents \ {"SLA_WARNING"} : timeline'[e] = timeline[e]
  BY <1>1 DEF TypeOK, EventTypes, HistoryEvents
<1>6. EffectsArePast'
  BY <1>1, <1>4, EffectsFrame
<1>7. BreachKept'
  <2>1. timeline'["SLA_BREACHED"] = timeline["SLA_BREACHED"]
    BY <1>5 DEF HistoryEvents
  <2> QED BY <1>1, <1>4, <2>1 DEF BreachKept, Detected
<1>8. WarningsKept'
  <2>1. ReminderCooldown \in Nat /\ ReminderCooldown >= 1
    BY PolicyAssumption
  <2>2. \A t \in warnings : t \in Nat
    BY DEF TypeOK
  <2>3. IsFiniteSet(warnings')
    BY <1>1, FS_AddElement DEF WarningsKept
  <2>4. \A t \in warnings' : InWarningWindow(row'.dueAt, row'.reported, t)
    BY <1>1, <1>4 DEF WarningsKept
  <2>5. ASSUME "remindedAt" \notin lost
        PROVE  /\ timeline'["SLA_WARNING"] = Cardinality(warnings')
               /\ row'.remindedAt # None /\ \A t \in warnings' : t <= row'.remindedAt
               /\ \A s, t \in warnings' : s < t => t - s >= ReminderCooldown
    <3>1. \A t \in warnings : t + ReminderCooldown <= at
      <4>1. CASE row.remindedAt = None
        BY <2>5, <4>1 DEF WarningsKept
      <4>2. CASE row.remindedAt # None
        <5>1. row.remindedAt \in Nat
          BY <4>2 DEF TypeOK, RowType, Optional
        <5>2. row.remindedAt + ReminderCooldown <= at
          BY <1>1, <4>2 DEF CooledDown
        <5>3. \A t \in warnings : t <= row.remindedAt
          BY <2>5, <4>2 DEF WarningsKept
        <5> QED BY <1>2, <2>1, <2>2, <5>1, <5>2, <5>3
      <4> QED BY <4>1, <4>2
    <3>2. at \notin warnings
      BY <1>2, <2>1, <3>1
    <3>3. Cardinality(warnings') = Cardinality(warnings) + 1
      BY <1>1, <3>2, FS_AddElement DEF WarningsKept
    <3>4. timeline'["SLA_WARNING"] = Cardinality(warnings')
      BY <1>5, <2>5, <3>3 DEF WarningsKept
    <3>5. row'.remindedAt # None /\ \A t \in warnings' : t <= row'.remindedAt
      BY <1>1, <1>2, <1>3, <2>1, <2>2, <3>1, LifecycleAssumption
    <3>6. \A s, t \in warnings' : s < t => t - s >= ReminderCooldown
      BY <1>1, <1>2, <2>1, <2>2, <2>5, <3>1 DEF WarningsKept
    <3> QED BY <3>4, <3>5, <3>6
  <2> QED BY <1>1, <2>3, <2>4, <2>5 DEF WarningsKept
<1>9. EscalationsKept'
  BY <1>1, <1>4, <1>5, EscalationsFrame DEF HistoryEvents
<1>10. MemoryIsOfItsLoad' /\ ClosingIsFinal'
  BY <1>1, <1>3, <1>4, <1>5, MemoryFrame DEF HistoryEvents, Detected, ClosingIsFinal, ClosedStaysClosed, Closed
<1> QED BY <1>6, <1>7, <1>8, <1>9, <1>10

\* Every step of a sweep.
LEMMA SweepKeeps ==
    ASSUME IInv, TypeOK', HistoryInv, NEW w \in Sweepers,
           SweepStep(w)
    PROVE  HistoryInv'
<1> USE DEF IInv, HistoryInv
<1>1. ASSUME UNCHANGED <<now, tables, patch>> PROVE HistoryInv'
  <2>1. MemoryIsOfItsLoad'
    BY <1>1, MemoryFrame DEF tables, Detected
  <2>2. Histories'
    BY <1>1, TablesFrame DEF Histories
  <2> QED BY <1>1, <2>1, <2>2 DEF Histories, tables, ClosingIsFinal, ClosedStaysClosed, Closed
<1>2. CASE EscalationPage(w)
  <2> DEFINE at == sweep[w].at
  <2>1. at \in Nat
    BY <1>2 DEF EscalationPage, TypeOK, SweepType
  <2>2. /\ row' = [row EXCEPT !.severity = EscalatedSeverity(at)]
        /\ RegisterEscalations(at)
        /\ timeline' = [timeline EXCEPT !["SEVERITY_ESCALATED"] = @ + Cardinality(DueRules(at))]
        /\ UNCHANGED <<now, resolution, consequences, warnings, lost, patch>>
    BY <1>2 DEF EscalationPage
  <2> HIDE DEF at
  <2>3. /\ row'.severity = EscalatedSeverity(at) /\ row'.status = row.status
        /\ \A f \in HistoryColumns \ {"severity"} : row'[f] = row[f]
    BY <2>2 DEF RowType, TypeOK, HistoryColumns
  <2>4. row'.dueAt = row.dueAt /\ row'.breachedAt = row.breachedAt /\ row'.closedAt = row.closedAt
        /\ row'.reported = row.reported /\ row'.createdAt = row.createdAt
        /\ row'.remindedAt = row.remindedAt
    BY <2>3 DEF HistoryColumns
  <2>5. /\ timeline'["SEVERITY_ESCALATED"] =
              timeline["SEVERITY_ESCALATED"] + Cardinality(DueRules(at))
        /\ timeline'["SLA_BREACHED"] = timeline["SLA_BREACHED"]
        /\ timeline'["SLA_WARNING"] = timeline["SLA_WARNING"]
        /\ timeline'["SEVERITY_CHANGED"] = timeline["SEVERITY_CHANGED"]
    BY <2>2 DEF TypeOK, EventTypes
  <2>6. EffectsArePast'
    BY <2>2, <2>4, EffectsFrame
  <2>7. BreachKept'
    BY <2>2, <2>4, <2>5 DEF BreachKept, Detected
  <2>8. WarningsKept'
    BY <2>2, <2>4, <2>5, WarningsFrame
  <2>9. EscalationsKept'
    BY <2>1, <2>2, <2>3, <2>4, <2>5, PlanKept
  <2>10. MemoryIsOfItsLoad' /\ ClosingIsFinal'
    BY <2>2, <2>3, <2>4, <2>5, MemoryFrame DEF Detected, ClosingIsFinal, ClosedStaysClosed, Closed
  <2> QED BY <2>6, <2>7, <2>8, <2>9, <2>10
<1>3. ASSUME SweepStart(w) \/ PassOver(w) \/ SweepStops(w) PROVE UNCHANGED <<now, tables, patch>>
  BY <1>3 DEF SweepStart, PassOver, SweepStops
<1> QED BY <1>1, <1>2, <1>3, MarkKeeps, WarnKeeps DEF SweepStep

\* The clock.
LEMMA TickKeeps ==
    ASSUME IInv, TypeOK', HistoryInv, Tick PROVE HistoryInv'
<1> USE DEF IInv, HistoryInv
<1>1. now' \in {now, now + 1} /\ UNCHANGED <<tables, patch>>
  BY DEF Tick, requests
<1>2. Histories'
  BY <1>1, TablesFrame DEF Histories
<1>3. MemoryIsOfItsLoad' /\ ClosingIsFinal'
  BY <1>1, MemoryFrame DEF tables, Detected, ClosingIsFinal, ClosedStaysClosed, Closed
<1> QED BY <1>2, <1>3 DEF Histories

\* A load: the edits are all the entity differs in.
LEMMA LoadKeeps ==
    ASSUME IInv, TypeOK', HistoryInv, NEW p \in PatchRequests, NEW a \in Actors,
           NEW d \in PatchBodies, PatchLoad(p, a, d)
    PROVE  HistoryInv'
<1> USE DEF IInv, HistoryInv
<1> DEFINE e == Edited(a, d)
<1>1. /\ PatchAccepted(a, d) /\ UNCHANGED <<now, tables>>
      /\ patch'[p].entity = e /\ patch'[p].from = row.status
      /\ \A q \in PatchRequests \ {p} : patch'[q] = patch[q]
  BY DEF PatchLoad, TypeOK
<1>2. Histories'
  BY <1>1, TablesFrame DEF Histories
<1>3. e.breachedAt = row.breachedAt
  BY DEF Edited, TypeOK, RowType
<1>4. e.status # row.status => row.status = "OPEN" /\ e.status = "IN_PROGRESS"
  <2>1. e.status = IF Transitions(d) THEN d.status ELSE row.status
    BY EditedColumns DEF TypeOK
  <2>2. row.status \in Statuses
    BY ColumnTypes DEF TypeOK
  <2>3. Transitions(d) => d.status \in NextStatuses(row.status) /\ d.status # "CLOSED"
    BY <1>1 DEF PatchAccepted, IsForwardTransition
  <2>4. /\ NextStatuses("OPEN") = {"IN_PROGRESS"} /\ NextStatuses("IN_PROGRESS") = {"CLOSED"}
        /\ NextStatuses("RESOLVED") = {"CLOSED"} /\ NextStatuses("CLOSED") = {}
    BY Zenon DEF NextStatuses
  <2> HIDE DEF e
  <2> QED BY <2>1, <2>2, <2>3, <2>4 DEF Statuses
<1> HIDE DEF e
<1>5. MemoryIsOfItsLoad'
  <2>1. row' = row /\ Detected' = Detected
    BY <1>1 DEF tables, Detected
  <2>2. \A q \in PatchRequests \ {p} : Busy(q)' => Busy(q) /\ patch'[q] = patch[q]
    BY <1>1 DEF Busy, Loaded, Selected
  <2>3. row.breachedAt # None => row.breachedAt = row.dueAt /\ Detected
    BY DEF BreachKept
  <2> QED BY <1>1, <1>3, <1>4, <2>1, <2>2, <2>3 DEF MemoryIsOfItsLoad
<1>6. ClosingIsFinal'
  BY <1>1 DEF tables, ClosingIsFinal, ClosedStaysClosed, Closed
<1> QED BY <1>2, <1>5, <1>6 DEF Histories

\* A step after which a request holds no entity, or the one it held.
LEMMA MemoryShrinks ==
    ASSUME MemoryIsOfItsLoad, NEW p \in PatchRequests, row'.dueAt = row.dueAt,
           Detected => Detected',
           Busy(p)' => /\ Busy(p) /\ patch'[p].entity = patch[p].entity
                       /\ patch'[p].from = patch[p].from,
           \A q \in PatchRequests \ {p} : patch'[q] = patch[q]
    PROVE  MemoryIsOfItsLoad'
<1>1. \A q \in PatchRequests : Busy(q)' =>
         Busy(q) /\ patch'[q].entity = patch[q].entity /\ patch'[q].from = patch[q].from
  BY DEF Busy, Loaded, Selected
<1> QED BY <1>1 DEF MemoryIsOfItsLoad

\* The comparison.
LEMMA SelectKeeps ==
    ASSUME IInv, TypeOK', HistoryInv, NEW p \in PatchRequests, PatchSelect(p) PROVE HistoryInv'
<1> USE DEF IInv, HistoryInv
<1>1. /\ UNCHANGED <<now, tables>> /\ Busy(p)
      /\ patch'[p].entity = patch[p].entity /\ patch'[p].from = patch[p].from
      /\ \A q \in PatchRequests \ {p} : patch'[q] = patch[q]
  BY DEF PatchSelect, TypeOK, Busy, Loaded
<1>2. Histories'
  BY <1>1, TablesFrame DEF Histories
<1>3. MemoryIsOfItsLoad'
  BY <1>1, MemoryShrinks DEF tables, Detected
<1>4. ClosingIsFinal'
  BY <1>1 DEF tables, ClosingIsFinal, ClosedStaysClosed, Closed
<1> QED BY <1>2, <1>3, <1>4 DEF Histories

\* What a write does to the columns of the histories: a column that no edit
\* assigns is lost or left alone; the status is lost, left alone, or advanced.
LEMMA WriteFacts ==
    ASSUME IInv, HistoryInv, NEW p \in PatchRequests, PatchWrite(p)
    PROVE  /\ lost \subseteq lost'
           /\ \A f \in {"kind", "reported", "createdAt", "dueAt", "closedAt"} : row'[f] = row[f]
           /\ \A f \in {"severity", "breachedAt", "remindedAt"} :
                 f \in lost' \/ (f \notin lost /\ f \notin patch[p].changed /\ row'[f] = row[f])
           /\ "status" \in lost' \/ row'.status = row.status
                 \/ (row.status = "OPEN" /\ row'.status = "IN_PROGRESS")
           /\ row'.breachedAt # None => row'.breachedAt = row.dueAt /\ Detected
<1> USE DEF IInv, HistoryInv
<1> DEFINE e == patch[p].entity
           C == patch[p].changed
<1>1. /\ Busy(p) /\ Selected(p)
      /\ row' = [f \in DOMAIN row |-> IF f \in C THEN e[f] ELSE row[f]]
      /\ lost' = lost \cup Overwritten(p)
  BY DEF PatchWrite, Selected, Busy
<1>2. C \subseteq MutableColumns /\ "closedAt" \notin C
  BY <1>1, PatchFacts DEF Selected, MemoryIsSound
<1>3. /\ C \ AssignedColumns \subseteq lost'
      /\ "status" \in C /\ row.status \notin {patch[p].from, e.status} => "status" \in lost'
  BY <1>1 DEF Overwritten
<1>4. e.status # patch[p].from => patch[p].from = "OPEN" /\ e.status = "IN_PROGRESS"
  BY <1>1 DEF MemoryIsOfItsLoad
<1>5. e.breachedAt # None => e.breachedAt = row.dueAt /\ Detected
  BY <1>1 DEF MemoryIsOfItsLoad
<1>6. row.breachedAt # None => row.breachedAt = row.dueAt /\ Detected
  BY DEF BreachKept
<1> HIDE DEF e, C
<1>7. \A f \in {"kind", "reported", "createdAt", "dueAt", "closedAt", "severity", "breachedAt",
                "remindedAt", "status"} :
         row'[f] = IF f \in C THEN e[f] ELSE row[f]
  BY <1>1 DEF TypeOK, RowType
<1>8. lost \subseteq lost'
  BY <1>1
<1>9. \A f \in {"kind", "reported", "createdAt", "dueAt", "closedAt"} : row'[f] = row[f]
  BY <1>2, <1>7 DEF MutableColumns
<1>10. \A f \in {"severity", "breachedAt", "remindedAt"} :
          f \in lost' \/ (f \notin lost /\ f \notin C /\ row'[f] = row[f])
  BY <1>3, <1>7, <1>8 DEF AssignedColumns
<1>11. "status" \in lost' \/ row'.status = row.status
          \/ (row.status = "OPEN" /\ row'.status = "IN_PROGRESS")
  BY <1>3, <1>4, <1>7
<1>12. row'.breachedAt # None => row'.breachedAt = row.dueAt /\ Detected
  BY <1>5, <1>6, <1>7
<1> QED BY <1>8, <1>9, <1>10, <1>11, <1>12 DEF C

\* The write of a PATCH, whatever was committed since its load.
LEMMA WriteKeeps ==
    ASSUME IInv, TypeOK', HistoryInv, NEW p \in PatchRequests, PatchWrite(p) PROVE HistoryInv'
<1> USE DEF IInv, HistoryInv
<1>1. UNCHANGED <<now, resolution, consequences, severityChanges, warnings>>
  BY DEF PatchWrite
<1>2. /\ lost \subseteq lost'
      /\ row'.reported = row.reported /\ row'.createdAt = row.createdAt
      /\ row'.dueAt = row.dueAt /\ row'.closedAt = row.closedAt
  BY WriteFacts
<1>3. /\ "severity" \notin lost' => /\ "severity" \notin lost /\ row'.severity = row.severity
                                    /\ "severity" \notin patch[p].changed
      /\ "breachedAt" \notin lost' => "breachedAt" \notin lost /\ row'.breachedAt = row.breachedAt
      /\ "remindedAt" \notin lost' => "remindedAt" \notin lost /\ row'.remindedAt = row.remindedAt
  BY WriteFacts
<1>4. /\ timeline'["SLA_BREACHED"] = timeline["SLA_BREACHED"]
      /\ timeline'["SLA_WARNING"] = timeline["SLA_WARNING"]
      /\ timeline'["SEVERITY_ESCALATED"] = timeline["SEVERITY_ESCALATED"]
      /\ "severity" \notin patch[p].changed =>
            timeline'["SEVERITY_CHANGED"] = timeline["SEVERITY_CHANGED"]
  BY DEF PatchWrite, EventTypes, SubscriberEntries
<1>5. EffectsArePast'
  BY <1>1, <1>2, EffectsFrame
<1>6. BreachKept'
  <2>1. row'.breachedAt # None => row'.breachedAt = row.dueAt /\ Detected
    BY WriteFacts
  <2> QED BY <1>1, <1>2, <1>3, <1>4, <2>1 DEF BreachKept, Detected
<1>7. WarningsKept'
  BY <1>1, <1>2, <1>3, <1>4 DEF WarningsKept
<1>8. EscalationsKept'
  <2>1. RegisteredRules' = RegisteredRules
    BY <1>1 DEF RegisteredRules
  <2> QED BY <1>1, <1>2, <1>3, <1>4, <2>1 DEF EscalationsKept
<1>9. MemoryIsOfItsLoad'
  <2>1. patch'[p].pc \in {"committed", "done"} /\ \A q \in PatchRequests \ {p} : patch'[q] = patch[q]
    BY DEF PatchWrite, TypeOK
  <2>2. ~ Busy(p)'
    BY <2>1 DEF Busy, Loaded, Selected
  <2> QED BY <1>2, <1>4, <2>1, <2>2, MemoryShrinks DEF Detected
<1>10. ClosingIsFinal'
  <2>1. "status" \in lost' \/ row'.status = row.status \/ row.status = "OPEN"
    BY WriteFacts
  <2> QED BY <1>1, <1>2, <2>1 DEF ClosingIsFinal, ClosedStaysClosed, Closed
<1> QED BY <1>5, <1>6, <1>7, <1>8, <1>9, <1>10

\* Every step of a PATCH.
LEMMA PatchKeeps ==
    ASSUME IInv, TypeOK', HistoryInv, NEW p \in PatchRequests, PatchStep(p) PROVE HistoryInv'
<1> USE DEF IInv, HistoryInv
<1>1. ASSUME PatchDetachFails(p) \/ PatchDies(p) PROVE HistoryInv'
  <2>1. /\ patch'[p].pc \in {"done", "unrecorded"} /\ UNCHANGED <<now, tables>>
        /\ \A q \in PatchRequests \ {p} : patch'[q] = patch[q]
    BY <1>1 DEF PatchDetachFails, PatchDies, TypeOK
  <2>2. Histories'
    BY <2>1, TablesFrame DEF Histories
  <2>3. MemoryIsOfItsLoad'
    BY <2>1, MemoryShrinks DEF Busy, Loaded, Selected, tables, Detected
  <2> QED BY <2>1, <2>2, <2>3 DEF Histories, tables, ClosingIsFinal, ClosedStaysClosed, Closed
<1>2. CASE PatchRecord(p)
  <2>1. /\ patch'[p].pc = "done"
        /\ UNCHANGED <<now, row, resolution, consequences, severityChanges, warnings, lost>>
        /\ \A q \in PatchRequests \ {p} : patch'[q] = patch[q]
    BY <1>2 DEF PatchRecord, TypeOK
  <2>2. \A e \in HistoryEvents : timeline'[e] = timeline[e]
    BY <1>2 DEF PatchRecord, HistoryEvents, TypeOK, EventTypes
  <2>3. Histories'
    BY <2>1, <2>2, HistoriesFrame DEF Histories
  <2>4. MemoryIsOfItsLoad'
    BY <2>1, <2>2, MemoryShrinks DEF Busy, Loaded, Selected, HistoryEvents, Detected
  <2> QED BY <2>1, <2>3, <2>4 DEF Histories, ClosingIsFinal, ClosedStaysClosed, Closed
<1> QED BY <1>1, <1>2, SelectKeeps, WriteKeeps DEF PatchStep

\* What a registration leaves.
LEMMA InitKeeps == Init => HistoryInv
<1> SUFFICES ASSUME Init PROVE HistoryInv
  OBVIOUS
<1>1. PICK d \in Drafts :
        /\ now = d.createdAt
        /\ row = NewRow(d)
        /\ resolution = None
        /\ consequences = IF d.initialConsequence
                          THEN {[request |-> None, occurredAt |-> d.occurredAt,
                                  createdAt |-> d.createdAt]}
                          ELSE {}
        /\ severityChanges = {}
        /\ timeline = [e \in EventTypes |->
                          IF \/ e = "SITUATION_CREATED"
                             \/ e = "CONSEQUENCE_ADDED" /\ d.initialConsequence
                          THEN 1 ELSE 0]
        /\ warnings = {}
        /\ lost = {}
        /\ patch = [p \in PatchRequests |-> IdlePatch]
  BY Zenon DEF Init
<1>2. d.createdAt \in Nat /\ d.severity \in Severities /\ DueWindow[d.severity] \in Nat
  BY LifecycleAssumption, PolicyAssumption DEF DraftType
<1>3. /\ row.closedAt = None /\ row.breachedAt = None /\ row.remindedAt = None
      /\ row.reported = d.severity /\ row.severity = d.severity
      /\ row.dueAt = d.createdAt + DueWindow[d.severity]
  BY <1>1 DEF NewRow, ComputeDueAt
<1>4. \A e \in HistoryEvents : timeline[e] = 0
  BY <1>1 DEF HistoryEvents, EventTypes
<1>5. MemoryIsOfItsLoad
  BY <1>1 DEF MemoryIsOfItsLoad, Busy, Loaded, Selected, IdlePatch
<1>6. EffectsArePast
  <2>1. IsFiniteSet(consequences)
    BY <1>1, FS_EmptySet, FS_Singleton
  <2>2. \A c \in consequences : c.createdAt = now
    BY <1>1
  <2> QED BY <1>1, <1>2, <1>3, <2>1, <2>2 DEF EffectsArePast
<1>7. BreachKept
  BY <1>2, <1>3, <1>4 DEF BreachKept, Detected, HistoryEvents
<1>8. WarningsKept
  BY <1>1, <1>3, <1>4, FS_EmptySet DEF WarningsKept, HistoryEvents
<1>9. EscalationsKept
  <2>1. RegisteredRules = {}
    BY <1>1 DEF RegisteredRules
  <2>2. EscalationRows(row.reported, row.createdAt, {}) = {}
    BY DEF EscalationRows
  <2>3. SeverityAfter(row.reported, row.reported, {}) = row.reported
    BY LevelAfter
  <2> QED BY <1>1, <1>3, <1>4, <2>1, <2>2, <2>3, FS_EmptySet
       DEF EscalationsKept, InOrder, HistoryEvents
<1>10. ClosingIsFinal
  BY <1>1 DEF ClosingIsFinal, ClosedStaysClosed
<1> QED BY <1>5, <1>6, <1>7, <1>8, <1>9, <1>10 DEF HistoryInv

\* Every step preserves the invariant.
LEMMA NextKeeps == ASSUME IInv, HistoryInv, [Next]_vars PROVE HistoryInv'
<1>1. TypeOK'
  BY TypeStep DEF IInv
<1>2. CASE UNCHANGED vars
  <2>1. UNCHANGED <<now, tables, patch>>
    BY <1>2 DEF vars, requests
  <2>2. Histories'
    BY <1>1, <2>1, TablesFrame DEF IInv, HistoryInv, Histories
  <2>3. MemoryIsOfItsLoad'
    BY <2>1, MemoryFrame DEF tables, Detected, HistoryInv
  <2>4. ClosingIsFinal'
    BY <2>1 DEF tables, HistoryInv, ClosingIsFinal, ClosedStaysClosed, Closed
  <2> QED BY <2>2, <2>3, <2>4 DEF Histories, HistoryInv
<1> QED
  BY <1>1, <1>2, TickKeeps, ResolveKeeps, AddKeeps, SweepKeeps, LoadKeeps, PatchKeeps DEF Next

\* So the invariant holds always.
LEMMA HistoryInvariance == Spec => []HistoryInv
<1>1. Init => HistoryInv
  BY InitKeeps
<1>2. IInv /\ HistoryInv /\ [Next]_vars => HistoryInv'
  BY NextKeeps
<1> QED BY <1>1, <1>2, Invariance, PTL DEF Spec

-----------------------------------------------------------------------------
(* What the operation may count on *)

\* A closing is final and freezes the history: whatever instant a request to add
\* an effect or a run of the sweep carries, nothing is registered with a later one.
\* A PATCH that overwrites the status is the one thing that lets effects in again,
\* and no escalation even then.
THEOREM ClosingFreezes == Spec => []ClosingFreezesHistory
<1>1. IInv /\ HistoryInv => ClosingFreezesHistory
  BY DEF IInv, HistoryInv, ClosingIsWitnessed, ClosingIsFinal, ClosedStaysClosed, EffectsArePast,
         EscalationsStopAtClosing, ClosingFreezesHistory
<1> QED BY <1>1, Invariance, HistoryInvariance, PTL

\* A mark is the deadline that was missed, never that of a problem closed in time,
\* whatever the severity, the windows of the table and the instants at which the
\* runs started; and it is made once, but for a PATCH that writes a null over it.
THEOREM BreachesAreTruthful == Spec => []BreachIsTruthful
<1>1. IInv /\ HistoryInv => BreachIsTruthful
  <2> SUFFICES ASSUME IInv, HistoryInv PROVE BreachIsTruthful
    OBVIOUS
  <2> USE DEF IInv, HistoryInv
  <2>1. row.dueAt \in Nat /\ row.dueAt # None /\ now \in Nat /\ row.closedAt \in Optional(Nat)
    BY LifecycleAssumption DEF BreachKept, TypeOK, RowType
  <2>2. row.breachedAt # None => row.breachedAt = row.dueAt /\ now > row.dueAt
    BY <2>1 DEF BreachKept
  <2>3. row.breachedAt # None =>
           SlaHealth(row.status, row.dueAt, row.reported, now) \in {"overdue", "closed"}
    BY <2>1, <2>2 DEF SlaHealth
  <2>4. row.breachedAt # None /\ row.closedAt # None /\ "status" \notin lost =>
           ~ WasClosedOnTime(row.dueAt, row.closedAt)
    BY <2>1 DEF BreachKept, WasClosedOnTime, Optional
  <2>5. row.breachedAt # None => row.dueAt < now
    BY <2>1, <2>2
  <2> QED BY <2>2, <2>3, <2>4, <2>5 DEF BreachKept, BreachIsTruthful
<1> QED BY <1>1, Invariance, HistoryInvariance, PTL

\* Each warning is dated within the window in which the screens say "at risk".
\* However the runs overlap they are a cooldown apart and announced once each, but
\* for a PATCH that writes an older reminder over the last.
THEOREM WarningsSpaced == Spec => []WarningsAreSpaced
<1>1. IInv /\ HistoryInv => WarningsAreSpaced
  <2> SUFFICES ASSUME IInv, HistoryInv PROVE WarningsAreSpaced
    OBVIOUS
  <2> USE DEF IInv, HistoryInv
  <2>1. ASSUME NEW t \in warnings PROVE SlaHealth("OPEN", row.dueAt, row.reported, t) = "at_risk"
    <3>1. row.dueAt \in Nat /\ t \in Nat /\ WarningLead[row.reported] \in Nat
      BY <2>1, PolicyAssumption DEF BreachKept, TypeOK, RowType
    <3>2. row.dueAt # None /\ t <= row.dueAt /\ row.dueAt - WarningLead[row.reported] <= t
      BY <2>1 DEF WarningsKept, InWarningWindow
    <3> QED BY <3>1, <3>2 DEF SlaHealth
  <2> QED BY <2>1 DEF WarningsKept, WarningsAreSpaced
<1> QED BY <1>1, Invariance, HistoryInvariance, PTL

\* Though detail, resolution and sweep plan escalations with instants of their own
\* and in any order, and any PATCH is saved in between, the history stays chained,
\* announced and within the closing; all checkSeverityHistoryInvariants may ever
\* find is that a PATCH wrote an older level over that of the row.
THEOREM HistoryCoherent == Spec => []SeverityHistoryCoherent
<1>1. IInv /\ HistoryInv => SeverityHistoryCoherent
  BY KeptIsCoherent DEF IInv, HistoryInv
<1> QED BY <1>1, Invariance, HistoryInvariance, PTL

-----------------------------------------------------------------------------
(* The promise made to the operation *)

Kept == lost \cap {"status", "breachedAt"} = {}

\* A registration is an initial state of the promise.
LEMMA InitPromise == Init => Promise!Init
<1> SUFFICES ASSUME Init PROVE Promise!Init
  OBVIOUS
<1>1. PICK d \in Drafts :
        /\ row = NewRow(d) /\ resolution = None /\ lost = {}
        /\ consequences = IF d.initialConsequence
                          THEN {[request |-> None, occurredAt |-> d.occurredAt,
                                  createdAt |-> d.createdAt]}
                          ELSE {}
  BY Zenon DEF Init
<1>2. row.status = "OPEN" /\ row.breachedAt = None
  BY <1>1 DEF NewRow
<1>3. Cardinality(consequences) \in {0, 1}
  BY <1>1, FS_EmptySet, FS_Singleton
<1> QED BY <1>1, <1>2, <1>3 DEF Promise!Init, Stage

\* A step that leaves the status, the missed deadline, the effects, the learning
\* and what is lost is a stutter of the promise.
LEMMA PromiseStutters ==
    ASSUME row'.status = row.status, row'.breachedAt = row.breachedAt,
           UNCHANGED <<consequences, resolution, lost>>
    PROVE  UNCHANGED Promise!record
  BY DEF Promise!record, Stage

\* Effects never disappear and a learning is never replaced, whatever is saved.
LEMMA StepAdds ==
    ASSUME IInv, HistoryInv, [Next]_vars
    PROVE  /\ Cardinality(consequences') >= Cardinality(consequences)
           /\ resolution # None => resolution' = resolution
           /\ lost \subseteq lost'
<1>1. Cardinality(consequences) \in Nat
  BY FS_CardinalityType DEF HistoryInv, EffectsArePast
<1> DEFINE goal == /\ Cardinality(consequences') >= Cardinality(consequences)
                   /\ resolution # None => resolution' = resolution
                   /\ lost \subseteq lost'
<1>2. ASSUME UNCHANGED <<consequences, resolution>>, lost \subseteq lost' PROVE goal
  BY <1>1, <1>2
<1>3. ASSUME NEW a \in Actors, Resolve(a) PROVE goal
  BY <1>1, <1>3 DEF Resolve
<1>4. ASSUME NEW c \in AddRequests, AddCommit(c) PROVE goal
  <2>1. PICK x : consequences' = consequences \cup {x}
    BY <1>4 DEF AddCommit
  <2>2. Cardinality(consequences \cup {x}) \in {Cardinality(consequences), Cardinality(consequences) + 1}
    BY FS_AddElement DEF HistoryInv, EffectsArePast
  <2>3. UNCHANGED <<resolution, lost>>
    BY <1>4 DEF AddCommit
  <2> QED BY <1>1, <2>1, <2>2, <2>3
<1> HIDE DEF goal
<1>5. ASSUME NEW p \in PatchRequests, NEW a \in Actors, NEW d \in PatchBodies, PatchLoad(p, a, d)
      PROVE goal
  BY <1>2, <1>5 DEF PatchLoad, tables
<1>6. ASSUME NEW p \in PatchRequests, PatchStep(p) PROVE goal
  <2>1. UNCHANGED <<consequences, resolution>> /\ lost \subseteq lost'
    BY <1>6 DEF PatchStep, PatchSelect, PatchDetachFails, PatchWrite, PatchRecord, PatchDies, tables
  <2> QED BY <1>2, <2>1
<1>7. ASSUME NEW w \in Sweepers, SweepStep(w) PROVE goal
  <2>1. UNCHANGED <<consequences, resolution>> /\ lost \subseteq lost'
    BY <1>7 DEF SweepStep, SweepStart, MarkBreached, Warn, EscalationPage, PassOver, SweepStops, tables
  <2> QED BY <1>2, <2>1
<1>8. ASSUME NEW c \in AddRequests, AddStep(c) PROVE AddCommit(c) \/ UNCHANGED tables
  BY <1>8 DEF AddStep, AddStart, AddFails
<1>9. ASSUME Tick \/ UNCHANGED vars PROVE UNCHANGED tables
  BY <1>9 DEF Tick, vars
<1>10. ASSUME UNCHANGED tables PROVE goal
  BY <1>2, <1>10 DEF tables
<1>11. goal
  BY <1>3, <1>4, <1>5, <1>6, <1>7, <1>8, <1>9, <1>10 DEF Next
<1> QED BY <1>11 DEF goal

\* Each step that keeps the promise is a step of it or a stutter.
LEMMA StepKeepsPromise ==
    ASSUME IInv, HistoryInv, TypeOK', [Next]_vars, Kept, Kept'
    PROVE  Promise!Next \/ UNCHANGED Promise!record
<1> USE DEF IInv, HistoryInv
<1> DEFINE goal == Promise!Next \/ UNCHANGED Promise!record
<1>0. /\ (lost \cap {"status", "breachedAt"} = {}) = TRUE
      /\ (lost' \cap {"status", "breachedAt"} = {}) = TRUE
  BY DEF Kept
<1>1. ASSUME UNCHANGED tables PROVE goal
  BY <1>1, PromiseStutters DEF tables
<1>2. ASSUME NEW a \in Actors, Resolve(a) PROVE goal
  <2>1. row' = ClosedRow(row, EscalatedSeverity(now), now)
    BY Zenon, <1>2 DEF Resolve, ClosedRow
  <2>2. row'.status = "CLOSED" /\ row'.breachedAt = row.breachedAt
    BY <2>1 DEF ClosedRow, TypeOK, RowType
  <2>3. row.status # "CLOSED" /\ resolution' # None /\ consequences' = consequences
    BY <1>2, LifecycleAssumption DEF Resolve, ResolvableStatuses
  <2> QED BY <1>0, <2>2, <2>3 DEF Promise!Next, Promise!Close, Promise!Alive, Stage
<1>3. ASSUME NEW c \in AddRequests, AddCommit(c) PROVE goal
  <2>1. PICK x : consequences' = consequences \cup {x}
    BY <1>3 DEF AddCommit
  <2>2. row'.status = row.status /\ row'.breachedAt = row.breachedAt
        /\ resolution' = resolution /\ lost' = lost
    BY <1>3 DEF AddCommit, TypeOK, RowType
  <2>3. row.status # "CLOSED"
    BY <1>3 DEF AddCommit, AddAccepted, AddConsequenceAllowed, ConsequenceOpenStatuses
  <2>4. CASE x \in consequences
    <3>1. consequences' = consequences
      BY <2>1, <2>4
    <3> QED BY <2>2, <3>1, PromiseStutters
  <2>5. CASE x \notin consequences
    <3>1. Cardinality(consequences') = Cardinality(consequences) + 1
      BY <2>1, <2>5, FS_AddElement DEF EffectsArePast
    <3> QED BY <1>0, <2>2, <2>3, <3>1 DEF Promise!Next, Promise!AddEffect, Promise!Alive, Stage
  <2> QED BY <2>4, <2>5
<1>4. ASSUME NEW w \in Sweepers, MarkBreached(w) PROVE goal
  <2>1. row'.status = row.status /\ row'.breachedAt = row.dueAt
        /\ row.breachedAt = None /\ row.status \in SlaActiveStatuses
        /\ UNCHANGED <<consequences, resolution>>
    BY <1>4 DEF MarkBreached, BreachDue, TypeOK, RowType
  <2>2. row.dueAt # None
    BY LifecycleAssumption DEF BreachKept
  <2> QED BY <1>0, <2>1, <2>2
       DEF Promise!Next, Promise!MissDeadline, Promise!Alive, Stage, SlaActiveStatuses
<1>5. ASSUME NEW w \in Sweepers, Warn(w) \/ EscalationPage(w) PROVE goal
  <2>1. row'.status = row.status /\ row'.breachedAt = row.breachedAt
        /\ UNCHANGED <<consequences, resolution, lost>>
    BY <1>5 DEF Warn, EscalationPage, TypeOK, RowType
  <2> QED BY <2>1, PromiseStutters
<1>6. ASSUME NEW p \in PatchRequests, PatchWrite(p) PROVE goal
  <2>1. UNCHANGED <<consequences, resolution>>
    BY <1>6 DEF PatchWrite
  <2>2. "status" \notin lost' /\ "breachedAt" \notin lost'
    BY DEF Kept
  <2>3. row'.breachedAt = row.breachedAt
    BY <1>6, <2>2, WriteFacts
  <2>4. row'.status = row.status \/ (row.status = "OPEN" /\ row'.status = "IN_PROGRESS")
    BY <1>6, <2>2, WriteFacts
  <2>5. CASE row'.status = row.status
    BY <1>0, <2>1, <2>3, <2>5 DEF Promise!record, Stage
  <2>6. CASE row.status = "OPEN" /\ row'.status = "IN_PROGRESS"
    BY <1>0, <2>1, <2>3, <2>6 DEF Promise!Next, Promise!Attend, Promise!Alive, Stage
  <2> QED BY <2>4, <2>5, <2>6
<1>7. ASSUME NEW p \in PatchRequests, PatchRecord(p) PROVE goal
  BY <1>7, PromiseStutters DEF PatchRecord
<1>8. ASSUME NEW c \in AddRequests, AddStep(c) PROVE AddCommit(c) \/ UNCHANGED tables
  BY <1>8 DEF AddStep, AddStart, AddFails
<1>9. ASSUME NEW w \in Sweepers, SweepStep(w)
      PROVE  MarkBreached(w) \/ Warn(w) \/ EscalationPage(w) \/ UNCHANGED tables
  BY <1>9 DEF SweepStep, SweepStart, PassOver, SweepStops
<1>10. ASSUME NEW p \in PatchRequests, PatchStep(p)
       PROVE  PatchWrite(p) \/ PatchRecord(p) \/ UNCHANGED tables
  BY <1>10 DEF PatchStep, PatchSelect, PatchDetachFails, PatchDies
<1>11. ASSUME Tick \/ UNCHANGED vars PROVE UNCHANGED tables
  BY <1>11 DEF Tick, vars
<1>12. ASSUME NEW p \in PatchRequests, NEW a \in Actors, NEW d \in PatchBodies, PatchLoad(p, a, d)
       PROVE  UNCHANGED tables
  BY <1>12 DEF PatchLoad
<1> HIDE DEF goal, IInv, HistoryInv
<1>13. goal
  BY <1>1, <1>2, <1>3, <1>4, <1>5, <1>6, <1>7, <1>8, <1>9, <1>10, <1>11, <1>12 DEF Next
<1> QED BY <1>13 DEF goal

\* Any other breaks it, or comes after it was broken; what is left of the promise
\* holds all the same.
LEMMA StepPromise ==
    ASSUME IInv, HistoryInv, TypeOK', [Next]_vars
    PROVE  Promise!Next \/ UNCHANGED Promise!record
<1>1. CASE Kept'
  <2>1. Kept
    BY <1>1, StepAdds DEF Kept
  <2> QED BY <1>1, <2>1, StepKeepsPromise
<1>2. CASE ~ Kept'
  <2>1. (lost' \cap {"status", "breachedAt"} = {}) = FALSE
    BY <1>2 DEF Kept
  <2> QED BY <2>1, StepAdds DEF Promise!Next, Promise!Break
<1> QED BY <1>1, <1>2

\* The requests implement SituationRecord, for any number of PATCHes, effects,
\* sweepers and closings attempted at once: nothing breaks the promise but a PATCH
\* that overwrites the status or the missed deadline with what it loaded, and even
\* then no effect disappears and no learning is replaced.
THEOREM PromiseKept == Spec => KeepsThePromise
<1>1. IInv /\ IInv' /\ HistoryInv /\ [Next]_vars => [Promise!Next]_(Promise!record)
  BY StepPromise DEF IInv
<1> QED
  BY <1>1, InitPromise, Invariance, HistoryInvariance, PTL DEF Spec, KeepsThePromise, Promise!Spec

=============================================================================
