--------------------------- MODULE SituationPolicy ---------------------------
(***************************************************************************)
(* The pure rules of a situation's life: the status table, the SLA windows *)
(* and the plan of automatic severity escalations.                         *)
(*   src/src/situations/situation-status.transitions.ts                    *)
(*   src/src/situations/situation-sla.policy.ts                            *)
(*   src/src/situations/occurred-at.validation.ts                          *)
(*   src/src/situations/severity-escalation/severity-escalation.policy.ts  *)
(*   src/src/situations/severity-escalation/severity-history.ts            *)
(*                                                                         *)
(* Instants are naturals.  The windows are parameters, so that a check may *)
(* take the real table in a coarser unit.                                  *)
(***************************************************************************)
EXTENDS Integers, FiniteSets, Sequences, OperationalScope

CONSTANTS
    DueWindow,        \* [Severities -> Nat]  SLA_WINDOWS_BY_SEVERITY[s].dueMs
    WarningLead,      \* [Severities -> Nat]  SLA_WINDOWS_BY_SEVERITY[s].warningMs
    ReminderCooldown, \* SLA_REMINDER_COOLDOWN_MS
    DayLength,        \* length of a calendar day
    EscalationStep    \* spacing of the steps of the test policy

Severities == {"LOW", "MEDIUM", "HIGH", "CRITICAL"}

ASSUME PolicyAssumption ==
    /\ DueWindow \in [Severities -> Nat]
    /\ WarningLead \in [Severities -> Nat]
    /\ ReminderCooldown \in Nat \ {0}
    /\ DayLength \in Nat \ {0}
    /\ EscalationStep \in Nat \ {0}

SeverityRank(s) ==
    CASE s = "LOW" -> 0 [] s = "MEDIUM" -> 1 [] s = "HIGH" -> 2 [] s = "CRITICAL" -> 3

NextStatuses(s) ==
    CASE s = "OPEN"        -> {"IN_PROGRESS"}
      [] s = "IN_PROGRESS" -> {"CLOSED"}
      [] s = "RESOLVED"    -> {"CLOSED"}
      [] s = "CLOSED"      -> {}

IsForwardTransition(from, to) == to \in NextStatuses(from)

\* Mutated: a problem nobody attends to has no deadline.
AttendedStatuses == {"IN_PROGRESS", "RESOLVED"}

SlaActiveStatuses        == {"OPEN", "IN_PROGRESS", "RESOLVED"}
EscalationActiveStatuses == {"OPEN", "IN_PROGRESS"}

ComputeDueAt(reported, createdAt) == createdAt + DueWindow[reported]

IsOverdue(dueAt, t) == dueAt # None /\ dueAt < t

InWarningWindow(dueAt, reported, t) ==
    dueAt # None /\ t <= dueAt /\ dueAt - WarningLead[reported] <= t

\* What the detail and the lists say of the deadline at t.
SlaHealth(status, dueAt, reported, t) ==
    IF status = "CLOSED" THEN "closed"
    ELSE IF dueAt = None THEN "on_track"
    ELSE IF t > dueAt THEN "overdue"
    ELSE IF t >= dueAt - WarningLead[reported] THEN "at_risk"
    ELSE "on_track"

WasClosedOnTime(dueAt, closedAt) == closedAt <= dueAt

\* Mutated: one unit too soon.
CooledDownSoon(remindedAt, t) ==
    remindedAt # None => remindedAt + ReminderCooldown - 1 <= t

\* last_sla_reminder_at IS NULL OR last_sla_reminder_at <= now - cooldown
CooledDown(remindedAt, t) ==
    remindedAt # None => remindedAt + ReminderCooldown <= t

\* The last instant of the calendar day of t.
EndOfDay(t) == (t \div DayLength) * DayLength + (DayLength - 1)

IsFutureOccurredAt(occurredAt, t) == occurredAt > EndOfDay(t)

-----------------------------------------------------------------------------
(***************************************************************************)
(* Escalation.  A policy is a schedule of steps, each one level above the  *)
(* step before.  Production registers no policy; the one below is the      *)
(* fixture of severity-escalation.spec.ts (two steps, equally spaced).     *)
(* Rule k is ruleKey 'step-k'.                                             *)
(***************************************************************************)
SeverityOfRank(r) == CHOOSE s \in Severities : SeverityRank(s) = r

PolicyRules(reported) == {k \in 1..2 : SeverityRank(reported) + k <= 3}
StepLevel(reported, k) == SeverityOfRank(SeverityRank(reported) + k)
StepTime(createdAt, k) == createdAt + k * EscalationStep

\* Mutated: the plan forgets what is registered.
PlanAllDue(reported, createdAt, closedAt, t, existing) ==
    {k \in PolicyRules(reported) :
        /\ StepTime(createdAt, k) <= t
        /\ closedAt # None => StepTime(createdAt, k) <= closedAt}

\* Rules due at t that are not registered yet.  The horizon is
\* min(now, closedAt): nothing takes effect after the closing.
PlanDueEscalations(reported, createdAt, closedAt, t, existing) ==
    {k \in PolicyRules(reported) \ existing :
        /\ StepTime(createdAt, k) <= t
        /\ closedAt # None => StepTime(createdAt, k) <= closedAt}

\* Rows the plan inserts in situation_severity_changes.
EscalationRows(reported, createdAt, planned) ==
    {[rule        |-> k,
      previous    |-> StepLevel(reported, k - 1),
      new         |-> StepLevel(reported, k),
      effectiveAt |-> StepTime(createdAt, k)] : k \in planned}

\* The level left in situations.severity: each inserted row overwrites it.
SeverityAfter(severity, reported, planned) ==
    IF planned = {} THEN severity
    ELSE StepLevel(reported, CHOOSE k \in planned : \A j \in planned : j <= k)

\* The level in force at t, from the history: the row of the registration and
\* the changes that took effect since.  No two take effect at once.
SeverityAt(reported, changes, t) ==
    LET inForce == {c \in changes : c.effectiveAt <= t}
    IN  IF inForce = {} THEN reported
        ELSE (CHOOSE c \in inForce : \A b \in inForce : b.effectiveAt <= c.effectiveAt).new

\* What checkSeverityHistoryInvariants finds wrong in a history.  The row of the
\* registration is written with the situation, once, and is not among the changes.
SeverityHistoryViolations(reported, severity, closedAt, changes) ==
    {v \in {"BROKEN_CHAIN", "CURRENT_MISMATCH", "ESCALATION_AFTER_CLOSE"} :
        \/ /\ v = "BROKEN_CHAIN"
           /\ \E c \in changes : c.previous # SeverityAt(reported, changes, c.effectiveAt - 1)
        \/ /\ v = "CURRENT_MISMATCH"
           /\ \E t \in {c.effectiveAt : c \in changes} \cup {0} :
                 /\ \A c \in changes : c.effectiveAt <= t
                 /\ severity # SeverityAt(reported, changes, t)
        \/ /\ v = "ESCALATION_AFTER_CLOSE"
           /\ closedAt # None /\ \E c \in changes : c.effectiveAt > closedAt}

=============================================================================
