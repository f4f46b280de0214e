-------------------------- MODULE OverviewPolicies --------------------------
(***************************************************************************)
(* The policies by which a coordination and the Direction are judged       *)
(* (src/src/operational-overview/domain): integrity-mvp-v1, life-points-v1 *)
(* and the state of the Direction.  All of them are functions of counts:   *)
(*   own[s]       active problems of severity s the area is responsible of *)
(*   affected     other areas these reach                                  *)
(*   incoming     active INTER problems that affect the area, with         *)
(*   critical     the CRITICAL ones among them, and                        *)
(*   external[s]  those of severity s whose responsible is another area.   *)
(***************************************************************************)
EXTENDS Integers, FiniteSets

CONSTANTS
    CriticalLimit,   \* MVP_CRITICAL_CRITICAL_COUNT: 1 in the code
    HighLimit,       \* MVP_CRITICAL_HIGH_COUNT: 3
    ActiveLimit,     \* MVP_CRITICAL_ACTIVE_COUNT: 5
    AffectedLimit,   \* MVP_CRITICAL_AFFECTED_COORDINATIONS: 3
    CriticalAreas,   \* MVP_DIRECTION_CRITICAL_COORDINATIONS: 2
    AlertDivisor,    \* MVP_DIRECTION_ALERT_DIVISOR: 3
    MaxLife          \* MAX_LIFE_POINTS: 10

ASSUME PoliciesAssumption ==
    {CriticalLimit, HighLimit, ActiveLimit, AffectedLimit, CriticalAreas,
     AlertDivisor, MaxLife} \subseteq Nat \ {0}

Severities == {"LOW", "MEDIUM", "HIGH", "CRITICAL"}

Counts == [Severities -> Nat]

NoCounts == [s \in Severities |-> 0]

Snapshot == [own : Counts, affected : Nat, incoming : Nat, critical : Nat,
             external : Counts]

Statuses == {"ESTABLE", "ALERTA", "CRITICO", "DESCONOCIDO"}

CriticalRule == {"CRITICAL_SEVERITY", "HIGH_ACCUMULATION", "ACTIVE_ACCUMULATION",
                 "IMPACT_PROPAGATION", "INCOMING_DEPENDENCY_CRITICAL"}

\* activeProblemsCount and externalTotal are sums.
Total(counts) == counts["LOW"] + counts["MEDIUM"] + counts["HIGH"] + counts["CRITICAL"]

\* validateCoordinationIntegritySnapshot: what is counted in one query cannot
\* contradict what is counted in another.
Interpretable(s) ==
    /\ Total(s.own) = 0 => s.affected = 0
    /\ s.critical <= s.incoming

Triggers(r, s) ==
    \/ r = "CRITICAL_SEVERITY" /\ s.own["CRITICAL"] >= CriticalLimit
    \/ r = "HIGH_ACCUMULATION" /\ s.own["HIGH"] >= HighLimit
    \/ r = "ACTIVE_ACCUMULATION" /\ Total(s.own) >= ActiveLimit
    \/ r = "IMPACT_PROPAGATION" /\ s.affected >= AffectedLimit
    \/ r = "INCOMING_DEPENDENCY_CRITICAL" /\ s.critical >= CriticalLimit

CriticalRules(s) == {r \in CriticalRule : Triggers(r, s)}

Integrity(s) ==
    IF ~ Interpretable(s) THEN "DESCONOCIDO"
    ELSE IF CriticalRules(s) # {} THEN "CRITICO"
    ELSE IF Total(s.own) = 0 /\ s.incoming = 0 THEN "ESTABLE"
    ELSE "ALERTA"

LifeInterpretable(s) ==
    /\ Interpretable(s)
    /\ Total(s.external) <= s.incoming
    /\ s.external["CRITICAL"] <= s.critical

\* LIFE_DAMAGE_BY_SEVERITY
Damage(counts) ==
    counts["LOW"] + counts["MEDIUM"] + 2 * counts["HIGH"] + 2 * counts["CRITICAL"]

\* lifePoints is null: a number no area has.
NoLife == -1

LifePoints(s) ==
    LET damage == Damage(s.own) + Damage(s.external)
    IN  IF ~ LifeInterpretable(s) THEN NoLife
        ELSE IF damage >= MaxLife THEN 0
        ELSE MaxLife - damage

AlertThreshold(total) == (total + AlertDivisor - 1) \div AlertDivisor

\* Mutated: one critical area counts for nothing.
OneCriticalIsNothing(total, critical, alert, unknown) ==
    IF total = 0 THEN "DESCONOCIDO"
    ELSE IF critical >= CriticalAreas THEN "CRITICO"
    ELSE IF unknown > 0 THEN "DESCONOCIDO"
    ELSE IF alert >= AlertThreshold(total) THEN "ALERTA"
    ELSE "ESTABLE"

\* evaluateOperationalDirectionIntegrity.  The signals are those of the areas
\* and of the analyst registry; total counts the areas alone.
DirectionOf(total, critical, alert, unknown) ==
    IF total = 0 THEN "DESCONOCIDO"
    ELSE IF critical >= CriticalAreas THEN "CRITICO"
    ELSE IF unknown > 0 THEN "DESCONOCIDO"
    ELSE IF critical = 1 \/ alert >= AlertThreshold(total) THEN "ALERTA"
    ELSE "ESTABLE"

=============================================================================
