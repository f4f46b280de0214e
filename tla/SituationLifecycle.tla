------------------------- MODULE SituationLifecycle -------------------------
(***************************************************************************)
(* One situation from its registration to its closing, and everything that *)
(* writes its row concurrently:                                            *)
(*                                                                         *)
(*   PATCH /situations/:id          SituationsService.update               *)
(*   POST  .../resolution           SituationsService.resolve              *)
(*   POST  .../consequences         SituationConsequencesService           *)
(*   the SLA sweep                  SituationSweepService.run              *)
(*   automatic escalation           SeverityEscalationService              *)
(*   the timeline subscriber        SituationTimelineSubscriber            *)
(*                                                                         *)
(* resolve, the commit of a consequence and every page of the sweep hold   *)
(* the row lock from their read to their commit, so each is one step.  The *)
(* PATCH takes no lock.  It is split where the code lets others in:        *)
(*                                                                         *)
(*   Load    findByIdWithRelations, the checks, and the edits, all on an   *)
(*           entity in memory;                                             *)
(*   Select  save() re-reads the row and computes which columns of the     *)
(*           entity differ from it, the stale ones included;               *)
(*   Write   save() updates those columns in its own transaction;          *)
(*   Record  the STATUS_CHANGED entry, after that commit.                  *)
(*                                                                         *)
(* Other situations are independent: no statement above touches two rows   *)
(* to decide about one.  The timeline is kept as the number of entries of  *)
(* each type.  Audit entries are best effort, after the commit, and read   *)
(* by nothing here; they are left out.                                     *)
(***************************************************************************)
EXTENDS SituationPolicy

CONSTANTS
    Actors,         \* the authenticated users
    Areas,          \* coordinations an actor may reassign to
    Drafts,         \* what persistNewSituation is given: see DraftType
    PatchRequests,  \* one PATCH request each
    AddRequests,    \* one request to add a consequence each
    Sweepers,       \* the in-process cron and the external scheduler
    PatchBodies,    \* the bodies a PATCH may carry: see PatchBody
    EffectDates,    \* the dates a consequence may declare
    EscalationEnabled, \* SEVERITY_ESCALATION_ENABLED
    MaxTime         \* bound of the clock

Optional(S) == S \cup {None}

DraftType ==
    [actor : Actors, kind : Kinds, coordination : Areas, affected : Areas,
     severity : Severities, occurredAt : Nat, createdAt : Nat,
     escalates : BOOLEAN, initialConsequence : BOOLEAN]

\* A PATCH body: None is an absent field.  Title, description and status
\* comment are columns no rule reads; three Nones stand for editing them.
PatchBody ==
    [status : Optional(Statuses), coordination : Optional(Areas), occurredAt : Optional(Nat)]

ASSUME LifecycleAssumption ==
    /\ None \notin Nat
    /\ None \notin Areas \cup Statuses \cup Severities
    /\ None \notin [by : {a.id : a \in Actors}]
    /\ Drafts \subseteq DraftType
    /\ PatchBodies \subseteq PatchBody
    /\ EffectDates \subseteq Nat
    /\ EscalationEnabled \in BOOLEAN
    /\ MaxTime \in Nat

EventTypes == {"SITUATION_CREATED", "STATUS_CHANGED", "CLOSED", "UPDATED",
               "SEVERITY_CHANGED", "SEVERITY_ESCALATED", "CONSEQUENCE_ADDED",
               "SLA_WARNING", "SLA_BREACHED"}

VARIABLES
    now,             \* the wall clock
    row,             \* the row of table situations
    resolution,      \* the row of situation_resolutions, or None
    consequences,    \* rows of situation_consequences
    severityChanges, \* AUTO_TIME rows of situation_severity_changes
    timeline,        \* number of situation_timeline entries by type
    warnings,        \* instants at which the sweep warned
    lost,            \* columns in which a PATCH overwrote what others had committed
    patch,           \* the PATCH requests
    adding,          \* the requests to add a consequence
    sweep            \* the runs of the sweep

tables   == <<row, resolution, consequences, severityChanges, timeline, warnings, lost>>
requests == <<patch, adding, sweep>>
vars     == <<now, tables, requests>>

\* The columns save() compares and may write, and those among them that the
\* edits of a PATCH assign.
MutableColumns == {"status", "coordination", "affected", "assigned", "severity",
                   "occurredAt", "resolvedAt", "closedAt", "breachedAt", "remindedAt"}
AssignedColumns == {"status", "coordination", "affected", "assigned", "occurredAt"}

RowType ==
    [kind : Kinds, createdBy : {a.id : a \in Actors}, reported : Severities,
     escalates : BOOLEAN, createdAt : Nat, dueAt : Optional(Nat),
     status : Statuses, coordination : Optional(Areas), affected : Optional(Areas),
     assigned : Optional({a.id : a \in Actors}), severity : Severities,
     occurredAt : Nat, resolvedAt : Optional(Nat), closedAt : Optional(Nat),
     breachedAt : Optional(Nat), remindedAt : Optional(Nat)]

-----------------------------------------------------------------------------
(* Registration *)

\* create, createInternal, createInterCoordination: what they refuse.
Registrable(d) ==
    /\ ~IsFutureOccurredAt(d.occurredAt, d.createdAt)
    /\ IF d.kind = "INTERNAL"
       THEN /\ InternalCreateAllowed(d.actor, d.coordination)
            /\ d.affected = d.coordination
       ELSE /\ InterCreateAllowed(d.actor, d.coordination, d.affected)
            /\ ~d.initialConsequence

NewRow(d) ==
    [kind |-> d.kind, createdBy |-> d.actor.id, reported |-> d.severity,
     escalates |-> d.escalates, createdAt |-> d.createdAt,
     dueAt |-> ComputeDueAt(d.severity, d.createdAt),
     status |-> "OPEN", coordination |-> d.coordination, affected |-> d.affected,
     assigned |-> None, severity |-> d.severity, occurredAt |-> d.occurredAt,
     resolvedAt |-> None, closedAt |-> None, breachedAt |-> None, remindedAt |-> None]

IdlePatch == [pc |-> "new"]
IdleAdd   == [pc |-> "new"]
IdleSweep == [phase |-> "idle"]

\* The state a committed registration leaves.
Init ==
    \E d \in Drafts :
        /\ Registrable(d)
        /\ now = d.createdAt
        /\ row = NewRow(d)
        /\ resolution = None
        /\ consequences = IF d.initialConsequence
                          THEN {[request |-> None, occurredAt |-> d.occurredAt,
                                  createdAt |-> d.createdAt]}
                          ELSE {}
        /\ severityChanges = {}
        /\ timeline = [e \in EventTypes |->
                          IF \/ e = "SITUATION_CREATED"
                             \/ e = "CONSEQUENCE_ADDED" /\ d.initialConsequence
                          THEN 1 ELSE 0]
        /\ warnings = {}
        /\ lost = {}
        /\ patch = [p \in PatchRequests |-> IdlePatch]
        /\ adding = [c \in AddRequests |-> IdleAdd]
        /\ sweep = [w \in Sweepers |-> IdleSweep]

Tick == now < MaxTime /\ now' = now + 1 /\ UNCHANGED <<tables, requests>>

-----------------------------------------------------------------------------
(* Escalation, inside a transaction that holds the row *)

RegisteredRules == {c.rule : c \in severityChanges}

\* Rules materializeDueEscalations registers at instant t.
DueRules(t) ==
    IF row.escalates
    THEN PlanDueEscalations(row.reported, row.createdAt, row.closedAt, t, RegisteredRules)
    ELSE {}

EscalatedSeverity(t) == SeverityAfter(row.severity, row.reported, DueRules(t))

RegisterEscalations(t) ==
    severityChanges' =
        severityChanges \cup EscalationRows(row.reported, row.createdAt, DueRules(t))

\* The timeline after n SEVERITY_ESCALATED entries and one entry of type e.
EscalationsThen(t, e) ==
    [timeline EXCEPT !["SEVERITY_ESCALATED"] = @ + Cardinality(DueRules(t)), ![e] = @ + 1]

-----------------------------------------------------------------------------
(* POST /situations/:id/resolution *)

Resolve(a) ==
    /\ CanResolveSituation(a, row)
    /\ row.status \in ResolvableStatuses
    /\ resolution = None  \* otherwise the primary key aborts the transaction
    /\ row' = [row EXCEPT !.status     = "CLOSED",
                          !.severity   = EscalatedSeverity(now),
                          !.closedAt   = now,
                          !.resolvedAt = IF @ = None THEN now ELSE @]
    /\ resolution' = [by |-> a.id]
    /\ RegisterEscalations(now)
    /\ timeline' = EscalationsThen(now, "CLOSED")
    /\ UNCHANGED <<now, consequences, warnings, lost, requests>>

-----------------------------------------------------------------------------
(* POST /situations/:id/consequences *)

\* The request fixes its instant and its date before it waits for the row.
AddStart(c, a, occurredAt) ==
    /\ adding[c].pc = "new"
    /\ occurredAt <= now
    /\ adding' = [adding EXCEPT ![c] =
                     [pc |-> "started", actor |-> a, occurredAt |-> occurredAt, at |-> now]]
    /\ UNCHANGED <<now, tables, patch, sweep>>

AddAccepted(c) ==
    /\ AddConsequenceAllowed(adding[c].actor, row)
    /\ row.occurredAt <= adding[c].occurredAt

AddCommit(c) ==
    /\ adding[c].pc = "started"
    /\ AddAccepted(c)
    /\ row' = [row EXCEPT !.severity = EscalatedSeverity(adding[c].at)]
    /\ RegisterEscalations(adding[c].at)
    /\ consequences' = consequences \cup
          {[request |-> c, occurredAt |-> adding[c].occurredAt, createdAt |-> adding[c].at]}
    /\ timeline' = EscalationsThen(adding[c].at, "CONSEQUENCE_ADDED")
    /\ adding' = [adding EXCEPT ![c] = [pc |-> "done"]]
    /\ UNCHANGED <<now, resolution, warnings, lost, patch, sweep>>

\* A 4xx answer, or a connection lost while waiting for the row.
AddFails(c) ==
    /\ adding[c].pc = "started"
    /\ adding' = [adding EXCEPT ![c] = [pc |-> "done"]]
    /\ UNCHANGED <<now, tables, patch, sweep>>

-----------------------------------------------------------------------------
(* PATCH /situations/:id *)

Advances(d) == d.status = "IN_PROGRESS" /\ row.status = "OPEN"

Transitions(d) == d.status \notin {None, row.status}

\* Mutated: PATCH may close.
PatchMayClose(a, d) ==
    /\ IF Advances(d) THEN CanAdvanceToInProgress(a, row) ELSE UpdateAllowed(a, row)
    /\ d.status # None => row.status # "CLOSED"
    /\ d.coordination # None => ~IsCoordinationScoped(a)
    /\ d.occurredAt # None => ~IsFutureOccurredAt(d.occurredAt, now)
    /\ Transitions(d) => IsForwardTransition(row.status, d.status)

PatchAccepted(a, d) ==
    /\ IF Advances(d) THEN CanAdvanceToInProgress(a, row) ELSE UpdateAllowed(a, row)
    /\ d.status # "CLOSED"
    /\ d.status # None => row.status # "CLOSED"
    /\ d.coordination # None => ~IsCoordinationScoped(a)
    /\ d.occurredAt # None => ~IsFutureOccurredAt(d.occurredAt, now)
    /\ Transitions(d) => IsForwardTransition(row.status, d.status)

\* Mutated: the affected area stays behind; any edit takes the problem over.
EditedLeavesAffected(a, d) ==
    [row EXCEPT !.coordination = IF d.coordination # None THEN d.coordination ELSE @]
EditedTakesOver(a, d) == [row EXCEPT !.assigned = a.id]

\* The entity in memory after the edits.  The only transition that reaches
\* applyStatusTransition from here is to IN_PROGRESS, which assigns the actor.
Edited(a, d) ==
    [row EXCEPT
        !.coordination = IF d.coordination # None THEN d.coordination ELSE @,
        !.affected     = IF d.coordination # None /\ row.kind = "INTERNAL"
                         THEN d.coordination ELSE @,
        !.occurredAt   = IF d.occurredAt # None THEN d.occurredAt ELSE @,
        !.status       = IF Transitions(d) THEN d.status ELSE @,
        !.assigned     = IF Transitions(d) THEN a.id ELSE @]

PatchLoad(p, a, d) ==
    /\ patch[p].pc = "new"
    /\ PatchAccepted(a, d)
    /\ patch' = [patch EXCEPT ![p] =
                    [pc |-> "loaded", entity |-> Edited(a, d), moves |-> Transitions(d),
                     from |-> row.status, resolved |-> resolution # None]]
    /\ UNCHANGED <<now, tables, adding, sweep>>

\* Mutated: the entity is loaded without its resolution.
PatchSelectBlind(p) ==
    /\ patch[p].pc = "loaded"
    /\ patch' = [patch EXCEPT ![p] =
                    [pc |-> "selected", entity |-> @.entity, moves |-> @.moves, from |-> @.from,
                     changed |-> {f \in MutableColumns : @.entity[f] # row[f]}]]
    /\ UNCHANGED <<now, tables, adding, sweep>>

\* save() compares every column of the entity with the row it re-reads.
PatchSelect(p) ==
    /\ patch[p].pc = "loaded"
    /\ patch[p].resolved = (resolution # None)
    /\ patch' = [patch EXCEPT ![p] =
                    [pc |-> "selected", entity |-> @.entity, moves |-> @.moves, from |-> @.from,
                     changed |-> {f \in MutableColumns : @.entity[f] # row[f]}]]
    /\ UNCHANGED <<now, tables, adding, sweep>>

\* The entity was loaded with resolution = null and a resolution exists now:
\* save() tries to detach it by nulling its primary key, and all is rolled back.
PatchDetachFails(p) ==
    /\ patch[p].pc = "loaded"
    /\ patch[p].resolved # (resolution # None)
    /\ patch' = [patch EXCEPT ![p] = [pc |-> "done"]]
    /\ UNCHANGED <<now, tables, adding, sweep>>

\* Entries the subscriber derives from the row read by Select and the entity.
SubscriberEntries(changed) ==
    (IF "severity" \in changed THEN {"SEVERITY_CHANGED"} ELSE {})
        \cup (IF {"coordination", "occurredAt"} \cap changed # {} THEN {"UPDATED"} ELSE {})

\* Columns in which the write undoes what others committed since the load: any
\* that no edit assigns can differ for no other reason, and the status if it is
\* neither the one that was loaded nor the one that is written.
Overwritten(p) ==
    (patch[p].changed \ AssignedColumns) \cup
        {f \in patch[p].changed \cap {"status"} :
            row.status \notin {patch[p].from, patch[p].entity.status}}

PatchWrite(p) ==
    /\ patch[p].pc = "selected"
    /\ row' = [f \in DOMAIN row |->
                  IF f \in patch[p].changed THEN patch[p].entity[f] ELSE row[f]]
    /\ timeline' = [e \in EventTypes |->
                       IF e \in SubscriberEntries(patch[p].changed)
                       THEN timeline[e] + 1 ELSE timeline[e]]
    /\ lost' = lost \cup Overwritten(p)
    /\ patch' = [patch EXCEPT ![p] =
                    [pc |-> IF @.moves THEN "committed" ELSE "done"]]
    /\ UNCHANGED <<now, resolution, consequences, severityChanges, warnings, adding, sweep>>

PatchRecord(p) ==
    /\ patch[p].pc = "committed"
    /\ timeline' = [timeline EXCEPT !["STATUS_CHANGED"] = @ + 1]
    /\ patch' = [patch EXCEPT ![p] = [pc |-> "done"]]
    /\ UNCHANGED <<now, row, resolution, consequences, severityChanges, warnings, lost, adding, sweep>>

\* The process dies, or a statement fails, between two steps of the request.
PatchDies(p) ==
    /\ patch[p].pc \in {"loaded", "selected", "committed"}
    /\ patch' = [patch EXCEPT ![p] =
                    [pc |-> IF @.pc = "committed" THEN "unrecorded" ELSE "done"]]
    /\ UNCHANGED <<now, tables, adding, sweep>>

-----------------------------------------------------------------------------
(* SituationSweepService.run: breached, then warned, then escalated.  Every *)
(* page works with the instant at which the run started.                    *)

NextPhase(phase) ==
    CASE phase = "breached"  -> "warned"
      [] phase = "warned"    -> IF EscalationEnabled THEN "escalated" ELSE "idle"
      [] phase = "escalated" -> "idle"

Proceed(w) ==
    LET next == NextPhase(sweep[w].phase)
    IN  sweep' = [sweep EXCEPT ![w] =
                     IF next = "idle" THEN IdleSweep ELSE [phase |-> next, at |-> @.at]]

SweepStart(w) ==
    /\ sweep[w].phase = "idle"
    /\ sweep' = [sweep EXCEPT ![w] = [phase |-> "breached", at |-> now]]
    /\ UNCHANGED <<now, tables, patch, adding>>

\* Mutated: closed problems are swept too.
BreachDueEvenClosed(t) == IsOverdue(row.dueAt, t) /\ row.breachedAt = None

BreachDue(t) ==
    /\ row.status \in SlaActiveStatuses
    /\ IsOverdue(row.dueAt, t)
    /\ row.breachedAt = None

MarkBreached(w) ==
    /\ sweep[w].phase = "breached"
    /\ BreachDue(sweep[w].at)
    /\ row' = [row EXCEPT !.breachedAt = row.dueAt]
    /\ timeline' = [timeline EXCEPT !["SLA_BREACHED"] = @ + 1]
    /\ Proceed(w)
    /\ UNCHANGED <<now, resolution, consequences, severityChanges, warnings, lost, patch, adding>>

WarningDue(t) ==
    /\ row.status \in SlaActiveStatuses
    /\ row.breachedAt = None
    /\ InWarningWindow(row.dueAt, row.reported, t)
    /\ CooledDown(row.remindedAt, t)

Warn(w) ==
    /\ sweep[w].phase = "warned"
    /\ WarningDue(sweep[w].at)
    /\ row' = [row EXCEPT !.remindedAt = sweep[w].at]
    /\ timeline' = [timeline EXCEPT !["SLA_WARNING"] = @ + 1]
    /\ warnings' = warnings \cup {sweep[w].at}
    /\ Proceed(w)
    /\ UNCHANGED <<now, resolution, consequences, severityChanges, lost, patch, adding>>

EscalationPage(w) ==
    /\ sweep[w].phase = "escalated"
    /\ row.status \in EscalationActiveStatuses
    /\ row' = [row EXCEPT !.severity = EscalatedSeverity(sweep[w].at)]
    /\ RegisterEscalations(sweep[w].at)
    /\ timeline' = [timeline EXCEPT !["SEVERITY_ESCALATED"] =
                       @ + Cardinality(DueRules(sweep[w].at))]
    /\ Proceed(w)
    /\ UNCHANGED <<now, resolution, consequences, warnings, lost, patch, adding>>

\* A page that leaves this row alone: it does not qualify, or a request holds
\* its lock and SKIP LOCKED passes over it.
PassOver(w) ==
    /\ sweep[w].phase # "idle"
    /\ Proceed(w)
    /\ UNCHANGED <<now, tables, patch, adding>>

\* Another run holds the advisory lock, or the instance is scaled down.
SweepStops(w) ==
    /\ sweep[w].phase # "idle"
    /\ sweep' = [sweep EXCEPT ![w] = IdleSweep]
    /\ UNCHANGED <<now, tables, patch, adding>>

-----------------------------------------------------------------------------
SweepStep(w) ==
    \/ SweepStart(w)
    \/ MarkBreached(w)
    \/ Warn(w)
    \/ EscalationPage(w)
    \/ PassOver(w)
    \/ SweepStops(w)

AddStep(c) ==
    \/ \E a \in Actors, t \in EffectDates : AddStart(c, a, t)
    \/ AddCommit(c)
    \/ AddFails(c)

PatchStep(p) ==
    \/ PatchSelect(p)
    \/ PatchDetachFails(p)
    \/ PatchWrite(p)
    \/ PatchRecord(p)
    \/ PatchDies(p)

Next ==
    \/ Tick
    \/ \E a \in Actors : Resolve(a)
    \/ \E c \in AddRequests : AddStep(c)
    \/ \E w \in Sweepers : SweepStep(w)
    \/ \E p \in PatchRequests, a \in Actors, d \in PatchBodies : PatchLoad(p, a, d)
    \/ \E p \in PatchRequests : PatchStep(p)

Spec == Init /\ [][Next]_vars

\* The schedulers keep coming back, requests release the row in the end, and
\* so a run finds it unlocked again and again.
Fairness ==
    /\ \A w \in Sweepers : WF_vars(SweepStart(w)) /\ WF_vars(PassOver(w)) /\ SF_vars(MarkBreached(w))
    /\ \A p \in PatchRequests : WF_vars(PatchStep(p))

FairSpec == Spec /\ Fairness

-----------------------------------------------------------------------------
(* Properties *)

PatchType ==
    [pc : {"new", "committed", "unrecorded", "done"}]
        \cup [pc : {"loaded"}, entity : RowType, moves : BOOLEAN, from : Statuses,
              resolved : BOOLEAN]
        \cup [pc : {"selected"}, entity : RowType, moves : BOOLEAN, from : Statuses,
              changed : SUBSET MutableColumns]

AddType ==
    [pc : {"new", "done"}]
        \cup [pc : {"started"}, actor : Actors, occurredAt : Nat, at : Nat]

SweepType ==
    [phase : {"idle"}] \cup [phase : {"breached", "warned", "escalated"}, at : Nat]

\* Every variable has its type.
TypeOK ==
    /\ now \in Nat
    /\ row \in RowType
    /\ resolution \in Optional([by : {a.id : a \in Actors}])
    /\ consequences \subseteq
          [request : Optional(AddRequests), occurredAt : Nat, createdAt : Nat]
    /\ severityChanges \subseteq
          [rule : {1, 2}, previous : Severities, new : Severities, effectiveAt : Nat]
    /\ timeline \in [EventTypes -> Nat]
    /\ warnings \subseteq Nat
    /\ lost \subseteq MutableColumns
    /\ patch \in [PatchRequests -> PatchType]
    /\ adding \in [AddRequests -> AddType]
    /\ sweep \in [Sweepers -> SweepType]

Closed == row.status = "CLOSED"

\* A closing leaves three traces that never part: the learning, the instant
\* and ONE timeline entry; and no row is closed without them, whatever
\* requests race ("el evento de cierre se emite una sola vez",
\* situations.service.ts:874-902).
ClosingIsWitnessed ==
    /\ Closed => resolution # None
    /\ (resolution # None) = (row.closedAt # None)
    /\ timeline["CLOSED"] = IF resolution = None THEN 0 ELSE 1

\* A closing is final: once a learning is registered the problem stays closed.
ClosedStaysClosed == resolution # None => Closed

\* A closing is final and freezes the operational history: no effect is registered
\* after it (situation-consequences.service.ts:41) and no escalation takes effect
\* after it, the horizon of the plan being closed_at (severity-escalation.policy.ts:
\* 62-70).  A PATCH that overwrites the status with the one it loaded is all that
\* lets effects in again; escalations stay out even then.
ClosingFreezesHistory ==
    resolution # None =>
        /\ \A c \in severityChanges : c.effectiveAt <= row.closedAt
        /\ "status" \notin lost => Closed /\ \A c \in consequences : c.createdAt <= row.closedAt

\* In an INTERNAL problem the affected area is the responsible one, through
\* every reassignment (situation.entity.ts:54-57).
InternalAreasAgree == row.kind = "INTERNAL" => row.affected = row.coordination

\* Whoever looks at a problem marked as missed is told the same, overdue or closed,
\* and the mark is the deadline; it is detected once (situation.entity.ts:203), and
\* a problem closed in time is never marked, however late the sweep and whatever
\* instant it started at.  Only a PATCH that writes a null back over the mark lets
\* it be detected twice, and one that reopens the problem, after the closing.
BreachIsTruthful ==
    /\ "breachedAt" \notin lost =>
          timeline["SLA_BREACHED"] = IF row.breachedAt = None THEN 0 ELSE 1
    /\ row.breachedAt # None =>
          /\ row.breachedAt = row.dueAt
          /\ SlaHealth(row.status, row.dueAt, row.reported, now) \in {"overdue", "closed"}
          /\ row.dueAt < now
          /\ row.closedAt # None /\ "status" \notin lost => ~ WasClosedOnTime(row.dueAt, row.closedAt)

\* The first detection of a missed deadline is kept once it is set
\* (situation.entity.ts:202).
BreachIsKept == timeline["SLA_BREACHED"] > 0 => row.breachedAt # None

\* Every warning is dated when the problem showed as at risk, by its REPORTED
\* severity: the query of the sweep and the rule of the screens agree at both ends
\* of the window.  Two are never closer than the cooldown and each is announced
\* once, even with overlapping sweeps that started at different instants; only a
\* PATCH that writes an older reminder back over the last lets one come too soon.
WarningsAreSpaced ==
    /\ \A t \in warnings : SlaHealth("OPEN", row.dueAt, row.reported, t) = "at_risk"
    /\ "remindedAt" \notin lost =>
          /\ timeline["SLA_WARNING"] = Cardinality(warnings)
          /\ \A s, t \in warnings : s < t => t - s >= ReminderCooldown

\* What checkSeverityHistoryInvariants (severity-history.ts:70-116) finds in the
\* history that detail, resolution, sweep and PATCH write together.  The history is
\* chained from the reported level, stops at the closing and each change in it is
\* announced once, whatever PATCH is saved; and it leads to the level of the row
\* unless a PATCH wrote an older level back, which shows as a change nobody made.
SeverityHistoryCoherent ==
    /\ timeline["SEVERITY_ESCALATED"] = Cardinality(severityChanges)
    /\ SeverityHistoryViolations(row.reported, row.severity, row.closedAt, severityChanges)
          \subseteq IF "severity" \in lost THEN {"CURRENT_MISMATCH"} ELSE {}
    /\ timeline["SEVERITY_CHANGED"] > 0 => "severity" \in lost

\* A problem attended to has a recorded transition, unless a request still
\* owes it or died owing it.
AdvanceIsRecorded ==
    row.assigned # None =>
        \/ timeline["STATUS_CHANGED"] > 0
        \/ \E p \in PatchRequests : patch[p].pc \in {"committed", "unrecorded"}

Stage ==
    CASE row.status = "OPEN"   -> "open"
      [] row.status = "CLOSED" -> "closed"
      [] OTHER                 -> "attended"

Promise == INSTANCE SituationRecord
    WITH stage   <- Stage,
         missed  <- row.breachedAt # None,
         effects <- Cardinality(consequences),
         lesson  <- resolution,
         kept    <- lost \cap {"status", "breachedAt"} = {}

\* The requests together implement the promise made to the operation,
\* SituationRecord: nothing breaks it but a PATCH that overwrites the status or
\* the missed deadline with what it loaded.
KeepsThePromise == Promise!Spec

\* A live problem past its deadline is detected, unless it is closed first.
BreachIsDetected ==
    (row.breachedAt = None /\ row.dueAt < now) ~> (row.breachedAt # None \/ Closed)

=============================================================================
