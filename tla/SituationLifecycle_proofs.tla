---------------------- MODULE SituationLifecycle_proofs ----------------------
(***************************************************************************)
(* For any actors, areas, requests, bodies and sweepers, any windows of    *)
(* the SLA and any overlap of PATCH requests with everything else: the     *)
(* types, and what no race disturbs.                                       *)
(*                                                                         *)
(* None of it is inductive: each needs to know what the entities that      *)
(* requests hold in memory may still write over the row (MemoryIsSound),   *)
(* and EscalationsStopAtClosing that every request and run carries an      *)
(* instant that has passed (InstantsArePast).                              *)
(***************************************************************************)
EXTENDS SituationLifecycle, FiniteSetTheorems, TLAPS

-----------------------------------------------------------------------------
(* The policy of escalations *)

\* Every rank is the rank of a level.
LEMMA RankOf == \A r \in 0..3 : SeverityOfRank(r) \in Severities
<1> SUFFICES ASSUME NEW r \in 0..3 PROVE \E s \in Severities : SeverityRank(s) = r
  BY DEF SeverityOfRank
<1>1. /\ SeverityRank("LOW") = 0
      /\ SeverityRank("MEDIUM") = 1
      /\ SeverityRank("HIGH") = 2
      /\ SeverityRank("CRITICAL") = 3
  BY Zenon DEF SeverityRank
<1>2. r = 0 \/ r = 1 \/ r = 2 \/ r = 3
  OBVIOUS
<1> QED BY <1>1, <1>2 DEF Severities

\* A rank is between 0 and 3.
LEMMA RankType == \A s \in Severities : SeverityRank(s) \in 0..3
<1>1. /\ SeverityRank("LOW") = 0
      /\ SeverityRank("MEDIUM") = 1
      /\ SeverityRank("HIGH") = 2
      /\ SeverityRank("CRITICAL") = 3
  BY Zenon DEF SeverityRank
<1> QED BY <1>1 DEF Severities

\* Every rule of the policy leads from a level to a level.
LEMMA LevelType ==
    ASSUME NEW s \in Severities, NEW k \in PolicyRules(s)
    PROVE  StepLevel(s, k) \in Severities /\ StepLevel(s, k - 1) \in Severities
  BY RankType, RankOf DEF PolicyRules, StepLevel

\* A step takes effect at an instant.
LEMMA StepTimeType ==
    ASSUME NEW t \in Nat, NEW k \in 1..2 PROVE StepTime(t, k) \in Nat
<1>1. EscalationStep \in Nat
  BY PolicyAssumption
<1>2. k = 1 \/ k = 2
  OBVIOUS
<1> QED BY <1>1, <1>2 DEF StepTime

\* The rules that fall due are rules of the policy, and none takes effect after
\* the instant of the plan nor after the closing.
LEMMA DueRulesFacts ==
    ASSUME row \in RowType, NEW t
    PROVE  /\ DueRules(t) \subseteq PolicyRules(row.reported)
           /\ \A k \in DueRules(t) :
                 /\ StepTime(row.createdAt, k) <= t
                 /\ row.closedAt # None => StepTime(row.createdAt, k) <= row.closedAt
  BY DEF DueRules, PlanDueEscalations

\* What a plan leaves in the row, in the history and in the timeline.
LEMMA EscalationTypes ==
    ASSUME row \in RowType, NEW t
    PROVE  /\ EscalatedSeverity(t) \in Severities
           /\ EscalationRows(row.reported, row.createdAt, DueRules(t)) \subseteq
                 [rule : {1, 2}, previous : Severities, new : Severities, effectiveAt : Nat]
           /\ Cardinality(DueRules(t)) \in Nat
<1>1. DueRules(t) \subseteq PolicyRules(row.reported) /\ PolicyRules(row.reported) \subseteq 1..2
  BY DueRulesFacts DEF PolicyRules
<1>2. row.reported \in Severities /\ row.createdAt \in Nat /\ row.severity \in Severities
  BY DEF RowType
<1>3. \A k \in DueRules(t) : /\ StepLevel(row.reported, k) \in Severities
                             /\ StepLevel(row.reported, k - 1) \in Severities
                             /\ StepTime(row.createdAt, k) \in Nat
                             /\ k \in {1, 2}
  BY <1>1, <1>2, LevelType, StepTimeType
<1>4. EscalationRows(row.reported, row.createdAt, DueRules(t)) \subseteq
                 [rule : {1, 2}, previous : Severities, new : Severities, effectiveAt : Nat]
  <2> SUFFICES ASSUME NEW k \in DueRules(t)
               PROVE  [rule        |-> k,
                       previous    |-> StepLevel(row.reported, k - 1),
                       new         |-> StepLevel(row.reported, k),
                       effectiveAt |-> StepTime(row.createdAt, k)] \in
                         [rule : {1, 2}, previous : Severities, new : Severities, effectiveAt : Nat]
    BY Zenon DEF EscalationRows
  <2> QED BY <1>3
<1>5. IsFiniteSet(DueRules(t))
  <2>1. IsFiniteSet({} \cup {1}) /\ IsFiniteSet(({} \cup {1}) \cup {2})
    BY FS_EmptySet, FS_AddElement
  <2>2. DueRules(t) \subseteq ({} \cup {1}) \cup {2}
    BY <1>1
  <2> QED BY <2>1, <2>2, FS_Subset
<1>6. EscalatedSeverity(t) \in Severities
  <2> DEFINE D == DueRules(t)
  <2>1. CASE D = {}
    BY <2>1, <1>2 DEF EscalatedSeverity, SeverityAfter
  <2>2. CASE D # {}
    <3>1. D \subseteq {1, 2}
      BY <1>3
    <3> HIDE DEF D
    <3>2. \E k \in D : \A j \in D : j <= k
      <4>1. CASE 2 \in D
        BY <3>1, <4>1
      <4>2. CASE 2 \notin D
        <5>1. D = {1}
          BY Zenon, <2>2, <3>1, <4>2
        <5> QED BY <5>1
      <4> QED BY <4>1, <4>2
    <3>3. (CHOOSE k \in D : \A j \in D : j <= k) \in D
      BY <3>2
    <3> USE DEF D
    <3> QED BY <2>2, <3>3, <1>3 DEF EscalatedSeverity, SeverityAfter
  <2> QED BY <2>1, <2>2
<1> QED BY <1>4, <1>5, <1>6, FS_CardinalityType

-----------------------------------------------------------------------------
(* Types *)

\* Writing a column with a value of its type leaves a row.
LEMMA SetColumn ==
    ASSUME NEW r \in RowType
    PROVE  /\ \A v \in Statuses : [r EXCEPT !.status = v] \in RowType
           /\ \A v \in Optional(Areas) : [r EXCEPT !.coordination = v] \in RowType
           /\ \A v \in Optional(Areas) : [r EXCEPT !.affected = v] \in RowType
           /\ \A v \in Optional({a.id : a \in Actors}) : [r EXCEPT !.assigned = v] \in RowType
           /\ \A v \in Severities : [r EXCEPT !.severity = v] \in RowType
           /\ \A v \in Nat : [r EXCEPT !.occurredAt = v] \in RowType
           /\ \A v \in Optional(Nat) : [r EXCEPT !.resolvedAt = v] \in RowType
           /\ \A v \in Optional(Nat) : [r EXCEPT !.closedAt = v] \in RowType
           /\ \A v \in Optional(Nat) : [r EXCEPT !.breachedAt = v] \in RowType
           /\ \A v \in Optional(Nat) : [r EXCEPT !.remindedAt = v] \in RowType
  BY DEF RowType

\* The types of the columns.
LEMMA ColumnTypes ==
    ASSUME NEW r \in RowType
    PROVE  /\ r.status \in Statuses
           /\ r.coordination \in Optional(Areas) /\ r.affected \in Optional(Areas)
           /\ r.assigned \in Optional({a.id : a \in Actors})
           /\ r.severity \in Severities /\ r.reported \in Severities
           /\ r.occurredAt \in Nat /\ r.createdAt \in Nat
           /\ r.dueAt \in Optional(Nat)
           /\ r.resolvedAt \in Optional(Nat) /\ r.closedAt \in Optional(Nat)
           /\ r.breachedAt \in Optional(Nat) /\ r.remindedAt \in Optional(Nat)
  BY DEF RowType

\* The entity a PATCH edits is a row.
LEMMA EditedType ==
    ASSUME row \in RowType, NEW a \in Actors, NEW d \in PatchBody
    PROVE  Edited(a, d) \in RowType
<1> DEFINE e1 == [row EXCEPT !.coordination =
                     IF d.coordination # None THEN d.coordination ELSE @]
           e2 == [e1 EXCEPT !.affected =
                     IF d.coordination # None /\ row.kind = "INTERNAL"
                     THEN d.coordination ELSE row.affected]
           e3 == [e2 EXCEPT !.occurredAt =
                     IF d.occurredAt # None THEN d.occurredAt ELSE row.occurredAt]
           e4 == [e3 EXCEPT !.status = IF Transitions(d) THEN d.status ELSE row.status]
           e5 == [e4 EXCEPT !.assigned = IF Transitions(d) THEN a.id ELSE row.assigned]
<1>0. /\ d.coordination \in Optional(Areas)
      /\ d.occurredAt \in Optional(Nat)
      /\ d.status \in Optional(Statuses)
  BY DEF PatchBody
<1>1. e1 \in RowType
  BY <1>0, SetColumn, ColumnTypes
<1>2. e2 \in RowType
  <2> HIDE DEF e1
  <2> QED BY <1>0, <1>1, SetColumn, ColumnTypes
<1>3. e3 \in RowType
  <2> HIDE DEF e2
  <2> QED BY <1>0, <1>2, SetColumn, ColumnTypes DEF Optional
<1>4. e4 \in RowType
  <2> HIDE DEF e3
  <2> QED BY <1>0, <1>3, SetColumn, ColumnTypes DEF Transitions, Optional
<1>5. e5 \in RowType
  <2> HIDE DEF e4
  <2> QED BY <1>0, <1>4, SetColumn, ColumnTypes DEF Transitions, Optional
<1>6. Edited(a, d) = e5
  BY Zenon DEF Edited
<1> QED BY <1>5, <1>6

\* A save writes some columns of the entity over the row.
LEMMA MergedType ==
    ASSUME NEW r \in RowType, NEW e \in RowType, NEW C
    PROVE  [f \in DOMAIN r |-> IF f \in C THEN e[f] ELSE r[f]] \in RowType
  BY DEF RowType

\* What a closing writes is a row.
ClosedRow(r, s, t) ==
    [r EXCEPT !.status     = "CLOSED",
              !.severity   = s,
              !.closedAt   = t,
              !.resolvedAt = IF @ = None THEN t ELSE @]

\* It is a row.
LEMMA ClosedRowType ==
    ASSUME NEW r \in RowType, NEW s \in Severities, NEW t \in Nat
    PROVE  ClosedRow(r, s, t) \in RowType
<1> DEFINE e1 == [r EXCEPT !.status = "CLOSED"]
           e2 == [e1 EXCEPT !.severity = s]
           e3 == [e2 EXCEPT !.closedAt = t]
           e4 == [e3 EXCEPT !.resolvedAt = IF r.resolvedAt = None THEN t ELSE r.resolvedAt]
<1>1. e1 \in RowType
  BY SetColumn DEF Statuses
<1>2. e2 \in RowType
  <2> HIDE DEF e1
  <2> QED BY <1>1, SetColumn
<1>3. e3 \in RowType
  <2> HIDE DEF e2
  <2> QED BY <1>2, SetColumn DEF Optional
<1>4. e4 \in RowType
  <2> HIDE DEF e3
  <2> QED BY <1>3, SetColumn, ColumnTypes DEF Optional
<1>5. ClosedRow(r, s, t) = e4
  BY Zenon DEF ClosedRow
<1> QED BY <1>4, <1>5

\* Registration leaves a row.
LEMMA NewRowType ==
    ASSUME NEW d \in DraftType PROVE NewRow(d) \in RowType
<1>1. DueWindow[d.severity] \in Nat
  BY PolicyAssumption DEF DraftType
<1>2. ComputeDueAt(d.severity, d.createdAt) \in Nat
  BY <1>1 DEF ComputeDueAt, DraftType
<1> QED BY <1>2 DEF NewRow, RowType, DraftType, Optional, Statuses

\* A committed registration leaves every variable in its type.
LEMMA InitType == Init => TypeOK
<1> SUFFICES ASSUME Init PROVE TypeOK
  OBVIOUS
<1>1. PICK d \in Drafts :
        /\ now = d.createdAt
        /\ row = NewRow(d)
        /\ resolution = None
        /\ consequences = IF d.initialConsequence
                          THEN {[request |-> None, occurredAt |-> d.occurredAt,
                                  createdAt |-> d.createdAt]}
                          ELSE {}
        /\ severityChanges = {}
        /\ timeline = [e \in EventTypes |->
                          IF \/ e = "SITUATION_CREATED"
                             \/ e = "CONSEQUENCE_ADDED" /\ d.initialConsequence
                          THEN 1 ELSE 0]
        /\ warnings = {}
        /\ lost = {}
        /\ patch = [p \in PatchRequests |-> IdlePatch]
        /\ adding = [c \in AddRequests |-> IdleAdd]
        /\ sweep = [w \in Sweepers |-> IdleSweep]
  BY Zenon DEF Init
<1>2. d \in DraftType
  BY LifecycleAssumption
<1>3. d.createdAt \in Nat /\ d.occurredAt \in Nat
  BY <1>2 DEF DraftType
<1>4. row \in RowType
  BY <1>1, <1>2, NewRowType
<1>5. timeline \in [EventTypes -> Nat]
  BY <1>1
<1>6. consequences \subseteq
          [request : Optional(AddRequests), occurredAt : Nat, createdAt : Nat]
  BY <1>1, <1>3 DEF Optional
<1>7. patch \in [PatchRequests -> PatchType]
  BY <1>1 DEF IdlePatch, PatchType
<1>8. adding \in [AddRequests -> AddType]
  BY <1>1 DEF IdleAdd, AddType
<1>9. sweep \in [Sweepers -> SweepType]
  BY <1>1 DEF IdleSweep, SweepType
<1> QED BY <1>1, <1>3, <1>4, <1>5, <1>6, <1>7, <1>8, <1>9 DEF TypeOK, Optional

\* The next phase of a sweep.
LEMMA ProceedType ==
    ASSUME TypeOK, NEW w \in Sweepers, sweep[w].phase # "idle", Proceed(w)
    PROVE  sweep' \in [Sweepers -> SweepType]
<1>1. sweep[w].phase \in {"breached", "warned", "escalated"} /\ sweep[w].at \in Nat
  BY DEF TypeOK, SweepType
<1>2. NextPhase(sweep[w].phase) \in {"idle", "warned", "escalated"}
  BY <1>1 DEF NextPhase
<1>3. sweep' = [sweep EXCEPT ![w] =
                  IF NextPhase(sweep[w].phase) = "idle" THEN IdleSweep
                  ELSE [phase |-> NextPhase(sweep[w].phase), at |-> sweep[w].at]]
  BY Zenon DEF Proceed
<1> QED BY <1>1, <1>2, <1>3 DEF TypeOK, SweepType, IdleSweep

\* A plan is registered in three tables.
LEMMA RegisteredType ==
    ASSUME TypeOK, NEW t, RegisterEscalations(t)
    PROVE  severityChanges' \subseteq
              [rule : {1, 2}, previous : Severities, new : Severities, effectiveAt : Nat]
  BY EscalationTypes DEF TypeOK, RegisterEscalations

\* The entries of a plan, and of any event, are counted.
LEMMA CountedType ==
    ASSUME TypeOK, NEW t, NEW e \in EventTypes
    PROVE  /\ EscalationsThen(t, e) \in [EventTypes -> Nat]
           /\ [timeline EXCEPT !["SEVERITY_ESCALATED"] = @ + Cardinality(DueRules(t))]
                 \in [EventTypes -> Nat]
           /\ [timeline EXCEPT ![e] = @ + 1] \in [EventTypes -> Nat]
<1>1. Cardinality(DueRules(t)) \in Nat /\ timeline \in [EventTypes -> Nat]
  BY EscalationTypes DEF TypeOK
<1>2. "SEVERITY_ESCALATED" \in EventTypes
  BY DEF EventTypes
<1> QED BY <1>1, <1>2 DEF EscalationsThen

\* A closing keeps every variable in its type.
LEMMA ResolveType ==
    ASSUME TypeOK, NEW a \in Actors, Resolve(a) PROVE TypeOK'
<1>1. row' \in RowType
  <2>1. row' = ClosedRow(row, EscalatedSeverity(now), now)
    BY Zenon DEF Resolve, ClosedRow
  <2> QED BY <2>1, EscalationTypes, ClosedRowType DEF TypeOK
<1>2. resolution' \in Optional([by : {b.id : b \in Actors}])
  BY DEF Resolve, Optional
<1>3. timeline' \in [EventTypes -> Nat]
  BY CountedType DEF Resolve, EventTypes
<1>4. severityChanges' \subseteq
          [rule : {1, 2}, previous : Severities, new : Severities, effectiveAt : Nat]
  BY RegisteredType DEF Resolve
<1> QED BY <1>1, <1>2, <1>3, <1>4 DEF TypeOK, Resolve, requests

\* So does a request to add a consequence,
LEMMA AddStepType ==
    ASSUME TypeOK, NEW c \in AddRequests, AddStep(c) PROVE TypeOK'
<1>1. ASSUME NEW a \in Actors, NEW t \in EffectDates, AddStart(c, a, t) PROVE TypeOK'
  <2>1. t \in Nat
    BY LifecycleAssumption
  <2>2. adding' \in [AddRequests -> AddType]
    BY <1>1, <2>1 DEF AddStart, TypeOK, AddType
  <2> QED BY <1>1, <2>2 DEF AddStart, TypeOK, tables
<1>2. CASE AddCommit(c)
  <2>1. adding[c].occurredAt \in Nat /\ adding[c].at \in Nat
    BY <1>2 DEF AddCommit, TypeOK, AddType
  <2>2. row' \in RowType
    BY <1>2, EscalationTypes, SetColumn DEF AddCommit, TypeOK
  <2>3. severityChanges' \subseteq
          [rule : {1, 2}, previous : Severities, new : Severities, effectiveAt : Nat]
    BY <1>2, RegisteredType DEF AddCommit
  <2>4. consequences' \subseteq
          [request : Optional(AddRequests), occurredAt : Nat, createdAt : Nat]
    BY <1>2, <2>1 DEF AddCommit, TypeOK, Optional
  <2>5. timeline' \in [EventTypes -> Nat]
    BY <1>2, CountedType DEF AddCommit, EventTypes
  <2>6. adding' \in [AddRequests -> AddType]
    BY <1>2 DEF AddCommit, TypeOK, AddType
  <2> QED BY <1>2, <2>2, <2>3, <2>4, <2>5, <2>6 DEF AddCommit, TypeOK
<1>3. CASE AddFails(c)
  <2>1. adding' \in [AddRequests -> AddType]
    BY <1>3 DEF AddFails, TypeOK, AddType
  <2> QED BY <1>3, <2>1 DEF AddFails, TypeOK, tables
<1> QED BY <1>1, <1>2, <1>3 DEF AddStep

\* What a PATCH keeps in memory.
LEMMA PatchFacts ==
    ASSUME TypeOK, NEW p \in PatchRequests
    PROVE  /\ patch[p].pc = "loaded" =>
                 /\ patch[p].entity \in RowType
                 /\ patch[p].moves \in BOOLEAN
                 /\ patch[p].from \in Statuses
                 /\ patch[p].resolved \in BOOLEAN
           /\ patch[p].pc = "selected" =>
                 /\ patch[p].entity \in RowType
                 /\ patch[p].moves \in BOOLEAN
                 /\ patch[p].from \in Statuses
                 /\ patch[p].changed \in SUBSET MutableColumns
  BY DEF TypeOK, PatchType

\* the load of a PATCH,
LEMMA LoadType ==
    ASSUME TypeOK, NEW p \in PatchRequests, NEW a \in Actors, NEW d \in PatchBodies,
           PatchLoad(p, a, d)
    PROVE  TypeOK'
<1>1. Edited(a, d) \in RowType
  BY EditedType, LifecycleAssumption DEF TypeOK
<1>2. Transitions(d) \in BOOLEAN /\ (resolution # None) \in BOOLEAN /\ row.status \in Statuses
  BY ColumnTypes DEF Transitions, TypeOK
<1>3. [pc |-> "loaded", entity |-> Edited(a, d), moves |-> Transitions(d),
       from |-> row.status, resolved |-> resolution # None] \in PatchType
  BY <1>1, <1>2 DEF PatchType
<1>4. patch' \in [PatchRequests -> PatchType]
  BY <1>3 DEF PatchLoad, TypeOK
<1> QED BY <1>4 DEF PatchLoad, TypeOK, tables

\* its other steps,
LEMMA PatchStepType ==
    ASSUME TypeOK, NEW p \in PatchRequests, PatchStep(p) PROVE TypeOK'
<1>1. CASE PatchSelect(p)
  <2>1. [pc |-> "selected", entity |-> patch[p].entity, moves |-> patch[p].moves,
         from |-> patch[p].from,
         changed |-> {f \in MutableColumns : patch[p].entity[f] # row[f]}] \in PatchType
    BY <1>1, PatchFacts DEF PatchSelect, PatchType
  <2>2. patch' \in [PatchRequests -> PatchType]
    BY <1>1, <2>1 DEF PatchSelect, TypeOK
  <2> QED BY <1>1, <2>2 DEF PatchSelect, TypeOK, tables
<1>2. CASE PatchDetachFails(p)
  <2>1. patch' \in [PatchRequests -> PatchType]
    BY <1>2 DEF PatchDetachFails, TypeOK, PatchType
  <2> QED BY <1>2, <2>1 DEF PatchDetachFails, TypeOK, tables
<1>3. CASE PatchWrite(p)
  <2>1. row' \in RowType
    BY <1>3, PatchFacts, MergedType DEF PatchWrite, TypeOK
  <2>2. timeline' \in [EventTypes -> Nat]
    BY <1>3 DEF PatchWrite, TypeOK
  <2>3. patch' \in [PatchRequests -> PatchType]
    BY <1>3 DEF PatchWrite, TypeOK, PatchType
  <2>4. lost' \subseteq MutableColumns
    <3>1. patch[p].changed \subseteq MutableColumns
      BY <1>3, PatchFacts DEF PatchWrite
    <3> QED BY <1>3, <3>1 DEF PatchWrite, Overwritten, TypeOK
  <2> QED BY <1>3, <2>1, <2>2, <2>3, <2>4 DEF PatchWrite, TypeOK
<1>4. CASE PatchRecord(p)
  <2>1. timeline' \in [EventTypes -> Nat]
    BY <1>4, CountedType DEF PatchRecord, EventTypes
  <2>2. patch' \in [PatchRequests -> PatchType]
    BY <1>4 DEF PatchRecord, TypeOK, PatchType
  <2> QED BY <1>4, <2>1, <2>2 DEF PatchRecord, TypeOK
<1>5. CASE PatchDies(p)
  <2>1. patch' \in [PatchRequests -> PatchType]
    BY <1>5 DEF PatchDies, TypeOK, PatchType
  <2> QED BY <1>5, <2>1 DEF PatchDies, TypeOK, tables
<1> QED BY <1>1, <1>2, <1>3, <1>4, <1>5 DEF PatchStep

\* and the steps of a sweep.
LEMMA SweepStepType ==
    ASSUME TypeOK, NEW w \in Sweepers, SweepStep(w) PROVE TypeOK'
<1>0. sweep[w].phase # "idle" => sweep[w].at \in Nat
  BY DEF TypeOK, SweepType
<1>1. CASE SweepStart(w)
  <2>1. sweep' \in [Sweepers -> SweepType]
    BY <1>1 DEF SweepStart, TypeOK, SweepType
  <2> QED BY <1>1, <2>1 DEF SweepStart, TypeOK, tables
<1>2. CASE MarkBreached(w)
  <2>1. sweep' \in [Sweepers -> SweepType]
    BY <1>2, ProceedType DEF MarkBreached
  <2>2. row' \in RowType
    BY <1>2, SetColumn, ColumnTypes DEF MarkBreached, TypeOK
  <2>3. timeline' \in [EventTypes -> Nat]
    BY <1>2, CountedType DEF MarkBreached, EventTypes
  <2> QED BY <1>2, <2>1, <2>2, <2>3 DEF MarkBreached, TypeOK
<1>3. CASE Warn(w)
  <2>1. sweep' \in [Sweepers -> SweepType]
    BY <1>3, ProceedType DEF Warn
  <2>2. row' \in RowType
    BY <1>0, <1>3, SetColumn DEF Warn, TypeOK, Optional
  <2>3. timeline' \in [EventTypes -> Nat]
    BY <1>3, CountedType DEF Warn, EventTypes
  <2>4. warnings' \subseteq Nat
    BY <1>0, <1>3 DEF Warn, TypeOK
  <2> QED BY <1>3, <2>1, <2>2, <2>3, <2>4 DEF Warn, TypeOK
<1>4. CASE EscalationPage(w)
  <2>1. sweep' \in [Sweepers -> SweepType]
    BY <1>4, ProceedType DEF EscalationPage
  <2>2. row' \in RowType
    BY <1>4, EscalationTypes, SetColumn DEF EscalationPage, TypeOK
  <2>3. timeline' \in [EventTypes -> Nat]
    BY <1>4, CountedType DEF EscalationPage, EventTypes
  <2>4. severityChanges' \subseteq
          [rule : {1, 2}, previous : Severities, new : Severities, effectiveAt : Nat]
    BY <1>4, RegisteredType DEF EscalationPage
  <2> QED BY <1>4, <2>1, <2>2, <2>3, <2>4 DEF EscalationPage, TypeOK
<1>5. CASE PassOver(w)
  <2>1. sweep' \in [Sweepers -> SweepType]
    BY <1>5, ProceedType DEF PassOver
  <2> QED BY <1>5, <2>1 DEF PassOver, TypeOK, tables
<1>6. CASE SweepStops(w)
  <2>1. sweep' \in [Sweepers -> SweepType]
    BY <1>6 DEF SweepStops, TypeOK, SweepType, IdleSweep
  <2> QED BY <1>6, <2>1 DEF SweepStops, TypeOK, tables
<1> QED BY <1>1, <1>2, <1>3, <1>4, <1>5, <1>6 DEF SweepStep

\* Every step keeps every variable in its type.
LEMMA TypeStep == TypeOK /\ [Next]_vars => TypeOK'
<1> SUFFICES ASSUME TypeOK, [Next]_vars PROVE TypeOK'
  OBVIOUS
<1>1. CASE Tick
  BY <1>1 DEF Tick, TypeOK, tables, requests
<1>2. CASE UNCHANGED vars
  BY <1>2 DEF vars, tables, requests, TypeOK
<1> QED
  BY <1>1, <1>2, ResolveType, AddStepType, SweepStepType, LoadType, PatchStepType DEF Next

\* Whatever requests race, every variable keeps its type.
THEOREM TypeCorrect == Spec => []TypeOK
  BY InitType, TypeStep, PTL DEF Spec

-----------------------------------------------------------------------------
(* What survives the races *)

Loaded(p)   == patch[p].pc = "loaded"
Selected(p) == patch[p].pc = "selected"

Recorded ==
    \/ timeline["STATUS_CHANGED"] > 0
    \/ \E p \in PatchRequests : patch[p].pc \in {"committed", "unrecorded"}

\* What an entity in memory may differ in from the row it will be saved over:
\* it is closed only if the problem has been; it assigns the problem only with
\* a transition to record; its areas agree as those of the row do; and its
\* instant of closing is the one it was loaded with.
MemoryIsSound ==
    \A p \in PatchRequests :
        /\ Loaded(p) \/ Selected(p) =>
              /\ patch[p].entity.status = "CLOSED" => resolution # None
              /\ patch[p].entity.assigned # None => patch[p].moves \/ Recorded
              /\ row.kind = "INTERNAL" =>
                    patch[p].entity.affected = patch[p].entity.coordination
        /\ Loaded(p) =>
              /\ patch[p].resolved => resolution # None
              /\ patch[p].entity.closedAt = IF patch[p].resolved THEN row.closedAt ELSE None
        /\ Selected(p) =>
              /\ "closedAt" \notin patch[p].changed
              /\ row.kind = "INTERNAL" =>
                    ("coordination" \in patch[p].changed) = ("affected" \in patch[p].changed)

\* The instants requests and runs carry are not in the future.
InstantsArePast ==
    /\ \A w \in Sweepers : sweep[w].phase # "idle" => sweep[w].at <= now
    /\ \A c \in AddRequests : adding[c].pc = "started" => adding[c].at <= now
    /\ \A c \in severityChanges : c.effectiveAt <= now

\* No escalation takes effect after the closing, even on a row that a PATCH
\* reopened.
EscalationsStopAtClosing ==
    row.closedAt # None => \A c \in severityChanges : c.effectiveAt <= row.closedAt

IInv ==
    /\ TypeOK /\ MemoryIsSound /\ InstantsArePast
    /\ ClosingIsWitnessed /\ InternalAreasAgree /\ AdvanceIsRecorded
    /\ EscalationsStopAtClosing

\* A step that touches none of what the invariant relates, and registers only
\* escalations that stop at the closing.
LEMMA FrameStep ==
    ASSUME IInv, TypeOK', UNCHANGED <<resolution, patch>>,
           \A f \in {"kind", "status", "coordination", "affected", "assigned", "closedAt"} :
               row'[f] = row[f],
           \A e \in {"CLOSED", "STATUS_CHANGED"} : timeline'[e] = timeline[e],
           \A c \in severityChanges' \ severityChanges :
               row.closedAt # None => c.effectiveAt <= row.closedAt,
           InstantsArePast'
    PROVE  IInv'
<1> USE DEF IInv
<1>1. /\ row'.kind = row.kind /\ row'.status = row.status
      /\ row'.coordination = row.coordination /\ row'.affected = row.affected
      /\ row'.assigned = row.assigned /\ row'.closedAt = row.closedAt
  OBVIOUS
<1>2. timeline'["CLOSED"] = timeline["CLOSED"]
      /\ timeline'["STATUS_CHANGED"] = timeline["STATUS_CHANGED"]
  OBVIOUS
<1>3. Recorded' = Recorded
  BY <1>2 DEF Recorded
<1>4. MemoryIsSound'
  BY <1>1, <1>3 DEF MemoryIsSound, Loaded, Selected
<1>5. ClosingIsWitnessed'
  BY <1>1, <1>2 DEF ClosingIsWitnessed, Closed
<1>6. InternalAreasAgree' /\ AdvanceIsRecorded'
  BY <1>1, <1>3 DEF InternalAreasAgree, AdvanceIsRecorded, Recorded
<1>7. EscalationsStopAtClosing'
  BY <1>1 DEF EscalationsStopAtClosing
<1> QED BY <1>4, <1>5, <1>6, <1>7

\* A step of a PATCH in memory.
LEMMA MemoryStep ==
    ASSUME IInv, TypeOK', NEW p \in PatchRequests, NEW x,
           patch' = [patch EXCEPT ![p] = x],
           UNCHANGED <<now, tables, adding, sweep>>,
           patch[p].pc \in {"committed", "unrecorded"} => x.pc = "unrecorded",
           x.pc \in {"loaded", "selected"} =>
              /\ x.entity.status = "CLOSED" => resolution # None
              /\ x.entity.assigned # None => x.moves \/ Recorded
              /\ row.kind = "INTERNAL" => x.entity.affected = x.entity.coordination,
           x.pc = "loaded" =>
              /\ x.resolved => resolution # None
              /\ x.entity.closedAt = IF x.resolved THEN row.closedAt ELSE None,
           x.pc = "selected" =>
              /\ "closedAt" \notin x.changed
              /\ row.kind = "INTERNAL" =>
                    ("coordination" \in x.changed) = ("affected" \in x.changed)
    PROVE  IInv'
<1> USE DEF IInv
<1>1. \A q \in PatchRequests : patch'[q] = IF q = p THEN x ELSE patch[q]
  BY DEF TypeOK
<1>2. Recorded => Recorded'
  BY <1>1 DEF Recorded, tables
<1>3. MemoryIsSound'
  BY <1>1, <1>2 DEF MemoryIsSound, Loaded, Selected, tables
<1>4. InstantsArePast'
  BY DEF InstantsArePast, tables
<1>5. ClosingIsWitnessed' /\ InternalAreasAgree' /\ EscalationsStopAtClosing'
  BY DEF ClosingIsWitnessed, Closed, InternalAreasAgree, EscalationsStopAtClosing, tables
<1>6. AdvanceIsRecorded'
  BY <1>2 DEF AdvanceIsRecorded, Recorded, tables
<1> QED BY <1>3, <1>4, <1>5, <1>6

\* A plan registers nothing after its instant nor after the closing.
LEMMA PlanStops ==
    ASSUME TypeOK, NEW t, RegisterEscalations(t), NEW c \in severityChanges' \ severityChanges
    PROVE  /\ c.effectiveAt <= t
           /\ row.closedAt # None => c.effectiveAt <= row.closedAt
<1>1. c \in EscalationRows(row.reported, row.createdAt, DueRules(t))
  BY DEF RegisterEscalations
<1>2. PICK k \in DueRules(t) : c.effectiveAt = StepTime(row.createdAt, k)
  BY <1>1 DEF EscalationRows
<1> QED BY <1>2, DueRulesFacts DEF TypeOK

\* A plan registers nothing in the future.
LEMMA PlanIsPast ==
    ASSUME TypeOK, TypeOK', InstantsArePast, NEW t \in Nat, t <= now, RegisterEscalations(t),
           UNCHANGED now
    PROVE  \A c \in severityChanges' : c.effectiveAt <= now'
<1> SUFFICES ASSUME NEW c \in severityChanges' PROVE c.effectiveAt <= now
  OBVIOUS
<1>1. c.effectiveAt \in Nat /\ now \in Nat
  BY DEF TypeOK
<1>2. CASE c \in severityChanges
  BY <1>2 DEF InstantsArePast
<1>3. CASE c \notin severityChanges
  BY <1>1, <1>3, PlanStops
<1> QED BY <1>2, <1>3

\* The columns of an edited entity.
LEMMA EditedColumns ==
    ASSUME row \in RowType, NEW a, NEW d
    PROVE  /\ Edited(a, d).closedAt = row.closedAt
           /\ Edited(a, d).status = IF Transitions(d) THEN d.status ELSE row.status
           /\ Edited(a, d).assigned = IF Transitions(d) THEN a.id ELSE row.assigned
           /\ row.kind = "INTERNAL" /\ row.affected = row.coordination =>
                 Edited(a, d).affected = Edited(a, d).coordination
  BY DEF Edited, RowType

\* A closing preserves the invariant.
LEMMA ResolveInv == ASSUME IInv, TypeOK', NEW a \in Actors, Resolve(a) PROVE IInv'
<1> USE DEF IInv
<1>1. /\ resolution = None /\ resolution' = [by |-> a.id]
      /\ UNCHANGED <<now, patch, adding, sweep>>
  BY DEF Resolve, requests
<1>2. resolution' # None
  BY <1>1, LifecycleAssumption
<1>3. row' = ClosedRow(row, EscalatedSeverity(now), now)
  BY Zenon DEF Resolve, ClosedRow
<1>4. /\ row'.kind = row.kind /\ row'.status = "CLOSED"
      /\ row'.coordination = row.coordination /\ row'.affected = row.affected
      /\ row'.assigned = row.assigned /\ row'.closedAt = now
  BY <1>3 DEF ClosedRow, RowType, TypeOK
<1>5. /\ timeline'["CLOSED"] = timeline["CLOSED"] + 1
      /\ timeline'["STATUS_CHANGED"] = timeline["STATUS_CHANGED"]
  BY DEF Resolve, EscalationsThen, TypeOK, EventTypes
<1>6. now \in Nat /\ now # None
  BY LifecycleAssumption DEF TypeOK
<1>7. Recorded' = Recorded
  BY <1>1, <1>5 DEF Recorded
<1>8. MemoryIsSound'
  BY <1>1, <1>2, <1>4, <1>7 DEF MemoryIsSound, Loaded, Selected
<1>9. \A c \in severityChanges' : c.effectiveAt <= now'
  BY <1>1, <1>6, PlanIsPast DEF Resolve
<1>10. InstantsArePast'
  BY <1>1, <1>9 DEF InstantsArePast
<1>11. ClosingIsWitnessed'
  BY <1>1, <1>2, <1>4, <1>5, <1>6 DEF ClosingIsWitnessed, Closed
<1>12. InternalAreasAgree' /\ AdvanceIsRecorded'
  BY <1>4, <1>7 DEF InternalAreasAgree, AdvanceIsRecorded, Recorded
<1>13. EscalationsStopAtClosing'
  BY <1>1, <1>4, <1>9 DEF EscalationsStopAtClosing
<1> QED BY <1>8, <1>10, <1>11, <1>12, <1>13

\* So does the write of a PATCH, stale as its entity may be: what was compared
\* before the closing no longer writes closed_at.
LEMMA WriteInv == ASSUME IInv, TypeOK', NEW p \in PatchRequests, PatchWrite(p) PROVE IInv'
<1> USE DEF IInv
<1> DEFINE e == patch[p].entity
           C == patch[p].changed
<1>1. /\ Selected(p)
      /\ row' = [f \in DOMAIN row |-> IF f \in C THEN e[f] ELSE row[f]]
      /\ UNCHANGED <<now, resolution, severityChanges, adding, sweep>>
  BY DEF PatchWrite, Selected
<1>2. /\ e \in RowType /\ C \subseteq MutableColumns /\ row \in RowType
      /\ patch[p].moves \in BOOLEAN
  BY <1>1, PatchFacts DEF Selected, TypeOK
<1>3. /\ row'.kind = row.kind
      /\ row'.closedAt = row.closedAt
      /\ row'.status = IF "status" \in C THEN e.status ELSE row.status
      /\ row'.assigned = IF "assigned" \in C THEN e.assigned ELSE row.assigned
      /\ row'.coordination = IF "coordination" \in C THEN e.coordination ELSE row.coordination
      /\ row'.affected = IF "affected" \in C THEN e.affected ELSE row.affected
  <2>1. "kind" \notin C /\ "closedAt" \notin C
    BY <1>1, <1>2 DEF MutableColumns, MemoryIsSound
  <2>2. {"kind", "closedAt", "status", "assigned", "coordination", "affected"} \subseteq DOMAIN row
    BY <1>2 DEF RowType
  <2> QED BY <1>1, <2>1, <2>2
<1>4. /\ timeline'["CLOSED"] = timeline["CLOSED"]
      /\ timeline'["STATUS_CHANGED"] = timeline["STATUS_CHANGED"]
  BY DEF PatchWrite, SubscriberEntries, EventTypes
<1>5. \A q \in PatchRequests :
         /\ q # p => patch'[q] = patch[q]
         /\ patch'[p].pc = IF patch[p].moves THEN "committed" ELSE "done"
  BY DEF PatchWrite, TypeOK
<1>6. Recorded => Recorded'
  BY <1>1, <1>4, <1>5 DEF Recorded, Selected
<1>7. patch[p].moves => Recorded'
  BY <1>5 DEF Recorded
<1>8. MemoryIsSound'
  BY <1>1, <1>3, <1>5, <1>6 DEF MemoryIsSound, Loaded, Selected
<1>9. InstantsArePast'
  BY <1>1 DEF InstantsArePast
<1>10. ClosingIsWitnessed'
  BY <1>1, <1>3, <1>4 DEF ClosingIsWitnessed, Closed, MemoryIsSound
<1>11. InternalAreasAgree'
  BY <1>1, <1>3 DEF InternalAreasAgree, MemoryIsSound
<1>12. AdvanceIsRecorded'
  BY <1>1, <1>3, <1>6, <1>7 DEF AdvanceIsRecorded, MemoryIsSound, Recorded
<1>13. EscalationsStopAtClosing'
  BY <1>1, <1>3 DEF EscalationsStopAtClosing
<1> QED BY <1>8, <1>9, <1>10, <1>11, <1>12, <1>13

\* A step that only changes the severity of the row, with a plan of an instant
\* that has passed.
LEMMA PlanInv ==
    ASSUME IInv, TypeOK', UNCHANGED <<now, resolution, patch>>,
           NEW t \in Nat, t <= now, RegisterEscalations(t), NEW s,
           row' = [row EXCEPT !.severity = s],
           \A e \in {"CLOSED", "STATUS_CHANGED"} : timeline'[e] = timeline[e],
           \A w \in Sweepers : sweep'[w].phase # "idle" => sweep'[w].at <= now,
           \A c \in AddRequests : adding'[c].pc = "started" => adding'[c].at <= now
    PROVE  IInv'
<1>1. \A f \in {"kind", "status", "coordination", "affected", "assigned", "closedAt"} :
         row'[f] = row[f]
  BY DEF IInv, TypeOK, RowType
<1>2. \A c \in severityChanges' \ severityChanges :
               row.closedAt # None => c.effectiveAt <= row.closedAt
  BY PlanStops DEF IInv
<1>3. InstantsArePast'
  BY PlanIsPast DEF InstantsArePast, IInv
<1> QED BY <1>1, <1>2, <1>3, FrameStep

\* A step that leaves the row alone, the instants it carries being past.
LEMMA InstantStep ==
    ASSUME IInv, TypeOK', UNCHANGED <<tables, patch>>, InstantsArePast' PROVE IInv'
<1>1. \A f \in {"kind", "status", "coordination", "affected", "assigned", "closedAt"} :
         row'[f] = row[f]
  BY DEF tables
<1>2. \A e \in {"CLOSED", "STATUS_CHANGED"} : timeline'[e] = timeline[e]
  BY DEF tables
<1>3. severityChanges' \ severityChanges = {} /\ UNCHANGED <<resolution, patch>>
  BY DEF tables
<1> QED BY <1>1, <1>2, <1>3, FrameStep

\* A request to add a consequence preserves the invariant.
LEMMA AddInv == ASSUME IInv, TypeOK', NEW c \in AddRequests, AddStep(c) PROVE IInv'
<1> USE DEF IInv
<1>1. ASSUME NEW a \in Actors, NEW t \in EffectDates, AddStart(c, a, t) PROVE IInv'
  <2>1. \A q \in AddRequests : adding'[q].pc = "started" => adding'[q].at <= now
    BY <1>1 DEF AddStart, TypeOK, InstantsArePast
  <2>2. InstantsArePast' /\ UNCHANGED <<tables, patch>>
    BY <1>1, <2>1 DEF AddStart, InstantsArePast, tables
  <2> QED BY <2>2, InstantStep
<1>2. CASE AddCommit(c)
  <2>1. adding[c].at \in Nat /\ adding[c].at <= now
    BY <1>2 DEF AddCommit, TypeOK, AddType, InstantsArePast
  <2>2. \A q \in AddRequests : adding'[q].pc = "started" => adding'[q].at <= now
    BY <1>2 DEF AddCommit, TypeOK, InstantsArePast
  <2>3. \A w \in Sweepers : sweep'[w].phase # "idle" => sweep'[w].at <= now
    BY <1>2 DEF AddCommit, InstantsArePast
  <2>4. \A e \in {"CLOSED", "STATUS_CHANGED"} : timeline'[e] = timeline[e]
    BY <1>2 DEF AddCommit, EscalationsThen, TypeOK, EventTypes
  <2> QED BY <1>2, <2>1, <2>2, <2>3, <2>4, PlanInv DEF AddCommit
<1>3. CASE AddFails(c)
  <2>1. \A q \in AddRequests : adding'[q].pc = "started" => adding'[q].at <= now
    BY <1>3 DEF AddFails, TypeOK, InstantsArePast
  <2>2. InstantsArePast' /\ UNCHANGED <<tables, patch>>
    BY <1>3, <2>1 DEF AddFails, InstantsArePast, tables
  <2> QED BY <2>2, InstantStep
<1> QED BY <1>1, <1>2, <1>3 DEF AddStep

\* The instant of a run is the one it started at, whatever phase it is in.
LEMMA ProceedPast ==
    ASSUME TypeOK, InstantsArePast, NEW w \in Sweepers, sweep[w].phase # "idle", Proceed(w)
    PROVE  \A v \in Sweepers : sweep'[v].phase # "idle" => sweep'[v].at <= now
<1>1. sweep' = [sweep EXCEPT ![w] =
                  IF NextPhase(sweep[w].phase) = "idle" THEN IdleSweep
                  ELSE [phase |-> NextPhase(sweep[w].phase), at |-> sweep[w].at]]
  BY Zenon DEF Proceed
<1> QED BY <1>1 DEF TypeOK, InstantsArePast, IdleSweep

\* Every step of a sweep preserves it.
LEMMA SweepInv == ASSUME IInv, TypeOK', NEW w \in Sweepers, SweepStep(w) PROVE IInv'
<1> USE DEF IInv
<1>0. sweep[w].phase # "idle" => sweep[w].at \in Nat /\ sweep[w].at <= now
  BY DEF TypeOK, SweepType, InstantsArePast
<1>1. CASE SweepStart(w)
  <2>1. \A v \in Sweepers : sweep'[v].phase # "idle" => sweep'[v].at <= now
    BY <1>1 DEF SweepStart, TypeOK, InstantsArePast
  <2>2. InstantsArePast' /\ UNCHANGED <<tables, patch>>
    BY <1>1, <2>1 DEF SweepStart, InstantsArePast, tables
  <2> QED BY <2>2, InstantStep
<1>2. ASSUME MarkBreached(w) \/ Warn(w) PROVE IInv'
  <2>1. \A f \in {"kind", "status", "coordination", "affected", "assigned", "closedAt"} :
           row'[f] = row[f]
    BY <1>2 DEF MarkBreached, Warn, TypeOK, RowType
  <2>2. \A e \in {"CLOSED", "STATUS_CHANGED"} : timeline'[e] = timeline[e]
    BY <1>2 DEF MarkBreached, Warn, TypeOK, EventTypes
  <2>3. sweep[w].phase # "idle" /\ Proceed(w)
        /\ UNCHANGED <<now, resolution, severityChanges, patch, adding>>
    BY <1>2 DEF MarkBreached, Warn
  <2>4. InstantsArePast'
    BY <2>3, ProceedPast DEF InstantsArePast
  <2> QED BY <2>1, <2>2, <2>3, <2>4, FrameStep
<1>3. CASE EscalationPage(w)
  <2>1. sweep[w].phase # "idle" /\ Proceed(w)
        /\ UNCHANGED <<now, resolution, patch, adding>>
    BY <1>3 DEF EscalationPage
  <2>2. \A v \in Sweepers : sweep'[v].phase # "idle" => sweep'[v].at <= now
    BY <2>1, ProceedPast
  <2>3. \A e \in {"CLOSED", "STATUS_CHANGED"} : timeline'[e] = timeline[e]
    BY <1>3 DEF EscalationPage, TypeOK, EventTypes
  <2>4. \A c \in AddRequests : adding'[c].pc = "started" => adding'[c].at <= now
    BY <2>1 DEF InstantsArePast
  <2> QED BY <1>0, <1>3, <2>1, <2>2, <2>3, <2>4, PlanInv DEF EscalationPage
<1>4. CASE PassOver(w)
  <2>1. \A v \in Sweepers : sweep'[v].phase # "idle" => sweep'[v].at <= now
    BY <1>4, ProceedPast DEF PassOver
  <2>2. InstantsArePast' /\ UNCHANGED <<tables, patch>>
    BY <1>4, <2>1 DEF PassOver, InstantsArePast, tables
  <2> QED BY <2>2, InstantStep
<1>5. CASE SweepStops(w)
  <2>1. \A v \in Sweepers : sweep'[v].phase # "idle" => sweep'[v].at <= now
    BY <1>5 DEF SweepStops, TypeOK, InstantsArePast, IdleSweep
  <2>2. InstantsArePast' /\ UNCHANGED <<tables, patch>>
    BY <1>5, <2>1 DEF SweepStops, InstantsArePast, tables
  <2> QED BY <2>2, InstantStep
<1> QED BY <1>1, <1>2, <1>3, <1>4, <1>5 DEF SweepStep

\* What a PATCH loads is sound.
LEMMA LoadInv ==
    ASSUME IInv, TypeOK', NEW p \in PatchRequests, NEW a \in Actors, NEW d \in PatchBodies,
           PatchLoad(p, a, d)
    PROVE  IInv'
<1> USE DEF IInv
<1> DEFINE x == [pc |-> "loaded", entity |-> Edited(a, d), moves |-> Transitions(d),
                 from |-> row.status, resolved |-> resolution # None]
<1>1. /\ patch[p].pc = "new" /\ PatchAccepted(a, d)
      /\ patch' = [patch EXCEPT ![p] = x]
      /\ UNCHANGED <<now, tables, adding, sweep>>
  BY DEF PatchLoad
<1>2. Edited(a, d).status = "CLOSED" => resolution # None
  BY <1>1, EditedColumns DEF PatchAccepted, ClosingIsWitnessed, Closed, TypeOK
<1>3. Edited(a, d).assigned # None => Transitions(d) \/ Recorded
  BY EditedColumns DEF AdvanceIsRecorded, Recorded, TypeOK
<1>4. row.kind = "INTERNAL" => Edited(a, d).affected = Edited(a, d).coordination
  BY EditedColumns DEF InternalAreasAgree, TypeOK
<1>5. Edited(a, d).closedAt = IF resolution # None THEN row.closedAt ELSE None
  BY EditedColumns DEF ClosingIsWitnessed, TypeOK
<1>6. /\ x.pc = "loaded" /\ x.entity = Edited(a, d)
      /\ x.moves = Transitions(d) /\ x.resolved = (resolution # None)
  OBVIOUS
<1> HIDE DEF x
<1> QED BY <1>1, <1>2, <1>3, <1>4, <1>5, <1>6, MemoryStep

\* What save() compares is sound: neither closed_at nor one area alone differ.
LEMMA SelectInv ==
    ASSUME IInv, TypeOK', NEW p \in PatchRequests, PatchSelect(p) PROVE IInv'
<1> USE DEF IInv
<1> DEFINE changed == {f \in MutableColumns : patch[p].entity[f] # row[f]}
           x == [pc |-> "selected", entity |-> patch[p].entity, moves |-> patch[p].moves,
                 from |-> patch[p].from, changed |-> changed]
<1>1. /\ Loaded(p) /\ patch[p].resolved = (resolution # None)
      /\ patch' = [patch EXCEPT ![p] = x]
      /\ UNCHANGED <<now, tables, adding, sweep>>
  BY DEF PatchSelect, Loaded
<1>2. "closedAt" \notin changed
  BY <1>1 DEF MemoryIsSound, ClosingIsWitnessed
<1>3. row.kind = "INTERNAL" => ("coordination" \in changed) = ("affected" \in changed)
  BY <1>1 DEF MemoryIsSound, InternalAreasAgree, MutableColumns
<1>4. /\ x.pc = "selected" /\ x.entity = patch[p].entity
      /\ x.moves = patch[p].moves /\ x.changed = changed
  OBVIOUS
<1> HIDE DEF x, changed
<1> QED BY <1>1, <1>2, <1>3, <1>4, MemoryStep DEF MemoryIsSound, Loaded

\* The invariant is preserved by every step of a PATCH.
LEMMA PatchInv ==
    ASSUME IInv, TypeOK', NEW p \in PatchRequests, PatchStep(p) PROVE IInv'
<1>1. CASE PatchDetachFails(p)
  BY <1>1, MemoryStep DEF PatchDetachFails
<1>2. CASE PatchDies(p)
  <2> DEFINE x == [pc |-> IF patch[p].pc = "committed" THEN "unrecorded" ELSE "done"]
  <2>1. /\ patch[p].pc \in {"loaded", "selected", "committed"}
        /\ patch' = [patch EXCEPT ![p] = x]
        /\ UNCHANGED <<now, tables, adding, sweep>>
    BY <1>2 DEF PatchDies
  <2>2. x.pc = IF patch[p].pc = "committed" THEN "unrecorded" ELSE "done"
    OBVIOUS
  <2> HIDE DEF x
  <2> QED BY <2>1, <2>2, MemoryStep
<1>3. CASE PatchRecord(p)
  <2> USE DEF IInv
  <2>1. /\ timeline'["STATUS_CHANGED"] = timeline["STATUS_CHANGED"] + 1
        /\ timeline'["CLOSED"] = timeline["CLOSED"]
        /\ timeline["STATUS_CHANGED"] \in Nat
    BY <1>3 DEF PatchRecord, TypeOK, EventTypes
  <2>2. /\ \A q \in PatchRequests \ {p} : patch'[q] = patch[q]
        /\ patch'[p].pc = "done"
        /\ UNCHANGED <<now, row, resolution, severityChanges, adding, sweep>>
    BY <1>3 DEF PatchRecord, TypeOK
  <2>3. Recorded'
    BY <2>1 DEF Recorded
  <2>4. MemoryIsSound'
    BY <2>2, <2>3 DEF MemoryIsSound, Loaded, Selected
  <2>5. InstantsArePast' /\ AdvanceIsRecorded' /\ InternalAreasAgree'
    BY <2>2, <2>3 DEF InstantsArePast, AdvanceIsRecorded, Recorded, InternalAreasAgree
  <2>6. ClosingIsWitnessed' /\ EscalationsStopAtClosing'
    BY <2>1, <2>2 DEF ClosingIsWitnessed, Closed, EscalationsStopAtClosing
  <2> QED BY <2>4, <2>5, <2>6
<1> QED BY <1>1, <1>2, <1>3, SelectInv, WriteInv DEF PatchStep

\* A committed registration satisfies the invariant.
LEMMA InitInv == Init => IInv
<1> SUFFICES ASSUME Init PROVE IInv
  OBVIOUS
<1>1. TypeOK
  BY InitType
<1>2. PICK d \in Drafts :
        /\ Registrable(d)
        /\ row = NewRow(d)
        /\ resolution = None
        /\ severityChanges = {}
        /\ timeline = [e \in EventTypes |->
                          IF \/ e = "SITUATION_CREATED"
                             \/ e = "CONSEQUENCE_ADDED" /\ d.initialConsequence
                          THEN 1 ELSE 0]
        /\ patch = [p \in PatchRequests |-> IdlePatch]
        /\ adding = [c \in AddRequests |-> IdleAdd]
        /\ sweep = [w \in Sweepers |-> IdleSweep]
  BY Zenon DEF Init
<1>3. MemoryIsSound
  BY <1>2 DEF MemoryIsSound, Loaded, Selected, IdlePatch
<1>4. InstantsArePast
  BY <1>2 DEF InstantsArePast, IdleAdd, IdleSweep
<1>5. /\ row.status = "OPEN" /\ row.closedAt = None /\ row.assigned = None
      /\ row.kind = d.kind /\ row.affected = d.affected /\ row.coordination = d.coordination
  BY <1>2 DEF NewRow
<1>6. ClosingIsWitnessed
  BY <1>2, <1>5 DEF ClosingIsWitnessed, Closed, EventTypes
<1>7. InternalAreasAgree
  BY <1>2, <1>5 DEF InternalAreasAgree, Registrable
<1>8. AdvanceIsRecorded /\ EscalationsStopAtClosing
  BY <1>2, <1>5 DEF AdvanceIsRecorded, EscalationsStopAtClosing
<1> QED BY <1>1, <1>3, <1>4, <1>6, <1>7, <1>8 DEF IInv

\* Every step preserves the invariant.
LEMMA NextInv == IInv /\ [Next]_vars => IInv'
<1> SUFFICES ASSUME IInv, [Next]_vars PROVE IInv'
  OBVIOUS
<1>1. TypeOK'
  BY TypeStep DEF IInv
<1>2. CASE Tick
  <2>1. now \in Nat /\ now' = now + 1 /\ UNCHANGED <<tables, patch, adding, sweep>>
    BY <1>2 DEF Tick, requests, IInv, TypeOK
  <2>2. InstantsArePast'
    <3>1. \A w \in Sweepers : sweep[w].phase # "idle" => sweep[w].at \in Nat
      BY DEF IInv, TypeOK, SweepType
    <3>2. \A c \in AddRequests : adding[c].pc = "started" => adding[c].at \in Nat
      BY DEF IInv, TypeOK, AddType
    <3>3. \A c \in severityChanges : c.effectiveAt \in Nat
      BY DEF IInv, TypeOK
    <3> QED BY <2>1, <3>1, <3>2, <3>3 DEF InstantsArePast, IInv, tables
  <2> QED BY <1>1, <2>1, <2>2, InstantStep
<1>3. CASE UNCHANGED vars
  BY <1>1, <1>3, InstantStep DEF vars, requests, InstantsArePast, IInv, tables
<1> QED
  BY <1>1, <1>2, <1>3, ResolveInv, AddInv, SweepInv, LoadInv, PatchInv DEF Next

\* The invariant holds always.
LEMMA Invariance == Spec => []IInv
  BY InitInv, NextInv, PTL DEF Spec

\* No problem is closed without its learning, its instant and its single
\* timeline entry, even while a PATCH overwrites the row with stale columns:
\* save() never writes an instant of closing, because an entity loaded before
\* the closing cannot be saved after it unless its columns were compared before.
THEOREM ClosingWitnessed == Spec => []ClosingIsWitnessed
<1>1. IInv => ClosingIsWitnessed
  BY DEF IInv
<1> QED BY <1>1, Invariance, PTL

\* The areas of an INTERNAL problem agree through racing reassignments: save()
\* writes both columns or neither.
THEOREM InternalAgree == Spec => []InternalAreasAgree
<1>1. IInv => InternalAreasAgree
  BY DEF IInv
<1> QED BY <1>1, Invariance, PTL

\* A problem that was attended to owes or has a STATUS_CHANGED entry.
THEOREM AdvanceRecorded == Spec => []AdvanceIsRecorded
<1>1. IInv => AdvanceIsRecorded
  BY DEF IInv
<1> QED BY <1>1, Invariance, PTL

=============================================================================
