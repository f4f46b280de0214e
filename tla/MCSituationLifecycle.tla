------------------------ MODULE MCSituationLifecycle ------------------------
(***************************************************************************)
(* Instances of SituationLifecycle.  One unit of time is six hours, so the *)
(* SLA windows are the real table: CRITICAL 24 h (warning 6 h), HIGH 72 h  *)
(* (24 h), MEDIUM 7 d (48 h), LOW 14 d (72 h), a reminder at most every    *)
(* 12 h, four units to the day.  The table is given in units of twelve     *)
(* hours too, the 6 h of CRITICAL rounded down.                            *)
(***************************************************************************)
EXTENDS SituationLifecycle, TLC

MCDueWindow ==
    [s \in Severities |-> CASE s = "CRITICAL" -> 4 [] s = "HIGH" -> 12
                            [] s = "MEDIUM" -> 28 [] s = "LOW" -> 56]
MCWarningLead ==
    [s \in Severities |-> CASE s = "CRITICAL" -> 1 [] s = "HIGH" -> 4
                            [] s = "MEDIUM" -> 8 [] s = "LOW" -> 12]

CoarseDueWindow ==
    [s \in Severities |-> CASE s = "CRITICAL" -> 2 [] s = "HIGH" -> 6
                            [] s = "MEDIUM" -> 14 [] s = "LOW" -> 28]
CoarseWarningLead ==
    [s \in Severities |-> CASE s = "CRITICAL" -> 0 [] s = "HIGH" -> 2
                            [] s = "MEDIUM" -> 4 [] s = "LOW" -> 6]

\* Permissions of the catalogue (permissions.catalog.seed.ts).
Operative == {"SITUATIONS_VIEW", "SITUATIONS_CREATE", "SITUATIONS_UPDATE", "SITUATIONS_CLOSE"}

Ana   == [id |-> "ana",   role |-> "ANALISTA",    coordination |-> None,   permissions |-> Operative]
Coord == [id |-> "coord", role |-> "COORDINADOR", coordination |-> "area", permissions |-> Operative]

MCActors == {Ana, Coord}
MCAreas  == {"area", "general"}

Draft(kind, severity, escalates, effect) ==
    [actor |-> Ana, kind |-> kind, coordination |-> "area",
     affected |-> IF kind = "INTERNAL" THEN "area" ELSE "general",
     severity |-> severity, occurredAt |-> 0, createdAt |-> 1,
     escalates |-> escalates, initialConsequence |-> effect]

Body(status, coordination, occurredAt) ==
    [status |-> status, coordination |-> coordination, occurredAt |-> occurredAt]

Editing     == Body(None, None, None)
Advancing   == Body("IN_PROGRESS", None, None)
Reassigning == Body(None, "general", None)
Redating    == Body(None, None, 2)
Closing     == Body("CLOSED", None, None)

LiveDrafts == {Draft("INTERNAL", "MEDIUM", TRUE, TRUE),
               Draft("INTER_COORDINATION", "CRITICAL", FALSE, FALSE)}
LiveBodies == {Editing, Advancing, Reassigning, Redating, Closing}

\* PATCH requests differ in nothing but their name.  Used only where no
\* liveness property is checked.
PatchSymmetry == Permutations(PatchRequests)

SweptBodies == {Editing}
SweptDrafts == {Draft("INTERNAL", "HIGH", FALSE, FALSE)}

RacingDrafts == {Draft("INTERNAL", "CRITICAL", FALSE, FALSE)}
RacingBodies == {Editing, Advancing, Redating}

=============================================================================
