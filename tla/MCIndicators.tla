---------------------------- MODULE MCIndicators ----------------------------
(***************************************************************************)
(* The two readers of the situations, the indicators and the overview, in  *)
(* one instance for TLC.  Neither writes, so one of them moves in a        *)
(* behaviour while the other is where it began.                            *)
(***************************************************************************)
EXTENDS OperationalKpi, OperationalOverview, TLC

CONSTANTS a, b, z

Stands(owner, inter, affected, severity, hits) ==
    [owner |-> owner, inter |-> inter, affected |-> affected, severity |-> severity,
     hits |-> hits]

MCStanding == {
    Stands(a, FALSE, a, "LOW", {}),
    Stands(a, TRUE, b, "HIGH", {}),
    Stands(a, TRUE, b, "HIGH", {b, z}),
    Stands(b, TRUE, b, "HIGH", {a}),
    Stands(Registry, TRUE, b, "CRITICAL", {}),
    Stands(Registry, FALSE, Registry, "CRITICAL", {}),
    Stands(z, TRUE, a, "HIGH", {a})}

MCImpacts == {{}, {b}, {a, b}}

Period(from, to, calendarEnd) == [from |-> from, to |-> to, calendarEnd |-> calendarEnd]

\* Both begin inside a unit; the client cuts the first before its calendar end.
MCPeriods == {Period(1, 2, 3), Period(1, 3, 3)}

Symmetry == Permutations(Situations) \cup Permutations(Problems)

\* Once something of the period came late the request is not settled, and stays
\* so: no property tells the states that follow apart.
StillSettled == request.pc = "asked" => ~ request.late

Init == KpiInit /\ OverviewInit

KpiIdle == today = 1 /\ request = NoRequest /\ \A s \in Situations : situations[s] = NoRow
OverviewIdle == waiting = Aggregations /\ DOMAIN active = {}

Next ==
    \/ OverviewIdle /\ KpiNext /\ UNCHANGED overviewVars
    \/ KpiIdle /\ OverviewNext /\ UNCHANGED kpiVars

Spec == Init /\ [][Next]_<<kpiVars, overviewVars>>

=============================================================================
