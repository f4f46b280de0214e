--------------------------- MODULE OperationalKpi ---------------------------
(***************************************************************************)
(* The indicators of one coordination, Area, over the situations of all:   *)
(* OperationalKpiService (src/src/operational-kpis).                       *)
(*                                                                         *)
(* They are aggregations that run in parallel, outside a transaction.  A   *)
(* view is what is put side by side.  GET /operational-kpis/state is one   *)
(* of them; six of its queries stand for all, the rest being breakdowns of *)
(* these or the same count over again:                                     *)
(*   backlog   aggregateBacklog: what the area is responsible of           *)
(*   created   aggregateEventMetric of created_at                          *)
(*   closed    aggregateEventMetric of closed_at, and the resolution       *)
(*   byKind    aggregateActiveByKind, at the end of every bucket           *)
(*   aging     aggregateSummary: the bands of age, at the end of the data  *)
(*   composition  aggregateComposition: severity and attention, there too  *)
(* The others are a metric as GET /history tells it, how GET /breakdown    *)
(* and GET /relations distribute it over the whole period, and the reports *)
(* that count the same population, asked for the same period, all of them  *)
(* on one day:                                                             *)
(*   byCategory   aggregateByCategory: the INTERNAL problems               *)
(*   commitments  aggregateCommitments: the INTER ones, by affected area   *)
(*   problems     GET /internal-problems: the INTERNAL ones of the stock   *)
(*   recurrence   GET /internal-recurrence: the INTERNAL ones created, by  *)
(*                bucket                                                   *)
(*   registered   GET /period: all that were created                       *)
(*   learnings    GET /learnings: all that were closed                     *)
(*                                                                         *)
(* All cuts are midnights, so an instant is its day.  A registration and a *)
(* closing stamp their instant first and commit later: midnight may come   *)
(* in between.  A closing is final here (see SituationLifecycle).          *)
(***************************************************************************)
EXTENDS KpiPeriods, FiniteSets, Functions

CONSTANTS
    Situations,
    Area,        \* the coordination asked for
    OtherAreas,
    LastDay,     \* bound of the calendar: days 1 .. LastDay
    ProblemsLimit, \* KPI_INTERNAL_PROBLEMS_LIMIT
    MaxWrites,   \* bound: writes while the request runs
    Periods      \* what may be asked: [from, to, calendarEnd]

Areas == {Area} \cup OtherAreas
Days == 1 .. LastDay
Never == 0

ASSUME KpiAssumption ==
    /\ IsFiniteSet(Situations)
    /\ Area \notin OtherAreas
    /\ LastDay \in Nat \ {0} /\ MaxWrites \in Nat /\ ProblemsLimit \in Nat
    /\ \A p \in Periods : p.from \in Days /\ p.to \in Days /\ p.calendarEnd \in Days

Metrics == {"backlog", "created", "closed"}
Distributions == {"byCategory", "commitments"}

ReportsOn(metric) ==
    CASE metric = "backlog" -> {"problems"}
      [] metric = "created" -> {"recurrence", "registered"}
      [] metric = "closed"  -> {"learnings"}

\* The queries of a view.
Queries(view) ==
    IF view = "state" THEN Metrics \cup {"byKind", "aging", "composition"}
    ELSE {view} \cup Distributions \cup ReportsOn(view)

VARIABLES
    today,
    situations,  \* the row of each situation, also before its commit
    request,     \* what is asked, and since when
    results      \* what the queries that ran gave

kpiVars == <<today, situations, request, results>>

Row == [state : {"none", "registering", "open", "closing", "closed"},
        owner : Areas, inter : BOOLEAN, affected : Areas,
        createdAt : Days \cup {Never}, closedAt : Days \cup {Never}]

NoRow == [state |-> "none", owner |-> Area, inter |-> FALSE, affected |-> Area,
          createdAt |-> Never, closedAt |-> Never]

NoRequest == [pc |-> "none"]

KpiInit ==
    /\ today = 1
    /\ situations = [s \in Situations |-> NoRow]
    /\ request = NoRequest
    /\ results = [q \in {} |-> 0]

-----------------------------------------------------------------------------
(* The aggregations                                                         *)

\* What a query sees of a row is what is committed.
Committed == {s \in Situations : situations[s].state \in {"open", "closing", "closed"}}

ClosedOn(s) == IF situations[s].state = "closed" THEN situations[s].closedAt ELSE Never

\* Mutated: a situation is in stock by its status of today.
InStockByStatus(s, d) ==
    situations[s].createdAt <= d /\ situations[s].state # "closed"

\* created_at < T and (closed_at is null or closed_at >= T), T the midnight that
\* ends day d.  The status of today is not asked.
InStock(s, d) ==
    /\ situations[s].createdAt <= d
    /\ ClosedOn(s) = Never \/ ClosedOn(s) > d

OwnedBy(a) == {s \in Committed : situations[s].owner = a}

\* ACTIVE_AT_CUT: INTERNAL, or INTER that affects another area.
ActiveAtCut(d) ==
    {s \in OwnedBy(Area) : InStock(s, d) /\ (situations[s].inter => situations[s].affected # Area)}

Within(day, bucket) == bucket[1] <= day /\ day <= bucket[2]

BacklogAt(b) == {s \in OwnedBy(Area) : InStock(s, b[2])}

CreatedIn(b) == {s \in OwnedBy(Area) : Within(situations[s].createdAt, b)}

ClosedIn(b) == {s \in OwnedBy(Area) : ClosedOn(s) # Never /\ Within(ClosedOn(s), b)}

Measured(metric, b) ==
    CASE metric = "backlog" -> BacklogAt(b)
      [] metric = "created" -> CreatedIn(b)
      [] metric = "closed"  -> ClosedIn(b)

\* Mutated: the backlog of the relations is what was registered in the period.
CommittedByCreation(metric, b) ==
    {s \in Measured(IF metric = "backlog" THEN "created" ELSE metric, b) :
        situations[s].inter /\ situations[s].affected # Area}

\* The area is responsible, another one affected.
CommittedTo(metric, b) ==
    {s \in Measured(metric, b) : situations[s].inter /\ situations[s].affected # Area}

\* With a category or without.
ByCategory(metric, b) == {s \in Measured(metric, b) : ~ situations[s].inter}

\* By bands of age.
AgedAt(d) == ActiveAtCut(d)

\* By severity, and by what became of it: open, in progress, closed after the cut.
ComposedAt(d) == ActiveAtCut(d)

\* A snapshot at the cut: ACTIVE_AT_CUT and INTERNAL.
InternalProblems(d) == {s \in ActiveAtCut(d) : ~ situations[s].inter}

CutAt(limit, n) == IF n > limit THEN limit ELSE n

\* Unlike the other queries it brings the rows, and one more than may be shown at
\* most: LIMIT $9.
ProblemRows(d) == CutAt(ProblemsLimit + 1, Cardinality(InternalProblems(d)))

\* A flow: what each bucket brought, with a category or without.
Recurring(b) == {s \in CreatedIn(b) : ~ situations[s].inter}

\* Of any severity and status, those of today.
Registered(b) == CreatedIn(b)

\* closed_at rules, not the status; a closing without a learning counts too.
LearntFrom(b) == ClosedIn(b)

\* What one query of a view gives for one bucket.
Counted(view, q, b) ==
    IF q = "problems" THEN ProblemRows(b[2])
    ELSE Cardinality(
        CASE q \in Metrics -> Measured(q, b)
          [] q = "byKind"      -> ActiveAtCut(b[2])
          [] q = "aging"       -> AgedAt(b[2])
          [] q = "composition" -> ComposedAt(b[2])
          [] q = "byCategory"  -> ByCategory(view, b)
          [] q = "commitments" -> CommittedTo(view, b)
          [] q = "recurrence"  -> Recurring(b)
          [] q = "registered"  -> Registered(b)
          [] q = "learnings"   -> LearntFrom(b))

-----------------------------------------------------------------------------
(* The clock and the writers                                                *)

\* A write to a row.  The request keeps whether what it tells of a day of its
\* period became visible, or changed, after it was asked.
Write(s, row, day) ==
    /\ situations' = [situations EXCEPT ![s] = row]
    /\ IF request.pc = "none" THEN UNCHANGED request
       ELSE /\ request.writes < MaxWrites
            /\ request' = [request EXCEPT !.writes = @ + 1,
                                          !.late = @ \/ day <= request.dataTo]
    /\ UNCHANGED <<today, results>>

Midnight ==
    /\ today < LastDay
    /\ today' = today + 1
    /\ UNCHANGED <<situations, request, results>>

\* created_at is the start of the transaction.
StampRegistration(s) ==
    /\ situations[s].state = "none"
    /\ \E owner \in Areas, inter \in BOOLEAN, affected \in Areas :
          /\ inter <=> affected # owner
          /\ Write(s, [NoRow EXCEPT !.state = "registering", !.owner = owner, !.inter = inter,
                                    !.affected = affected, !.createdAt = today], today)

CommitRegistration(s) ==
    /\ situations[s].state = "registering"
    /\ Write(s, [situations[s] EXCEPT !.state = "open"], situations[s].createdAt)

\* closedAt is taken under the row lock.
StampClosing(s) ==
    /\ situations[s].state = "open"
    /\ Write(s, [situations[s] EXCEPT !.state = "closing", !.closedAt = today], today)

CommitClosing(s) ==
    /\ situations[s].state = "closing"
    /\ Write(s, [situations[s] EXCEPT !.state = "closed"], situations[s].closedAt)

\* PATCH gives the situation to another area; no history of it is kept.
MoveToArea(s) ==
    /\ situations[s].state = "open"
    /\ \E a \in Areas \ {situations[s].owner} :
          Write(s, [situations[s] EXCEPT !.owner = a,
                        !.affected = IF situations[s].inter THEN @ ELSE a], Never)

-----------------------------------------------------------------------------
(* The request                                                              *)

\* assertEstadoPeriodShape.  Today is read once, here.
Ask(view, p) ==
    /\ request = NoRequest
    /\ p.from <= p.to /\ p.to <= p.calendarEnd
    /\ p.from <= today
    /\ p.calendarEnd < today => p.to = p.calendarEnd
    /\ request' = [pc |-> "asked", view |-> view, from |-> p.from, calendarEnd |-> p.calendarEnd,
                   dataTo |-> DataTo(p.to, today), today |-> today,
                   writes |-> 0, late |-> FALSE]
    /\ UNCHANGED <<today, situations, results>>

\* The others are of the whole period.
BucketsOf(q) ==
    IF q \in Metrics \cup {"byKind", "recurrence"} THEN Buckets(request.from, request.dataTo)
    ELSE {<<request.from, request.dataTo>>}

RunQuery(q) ==
    /\ request.pc = "asked"
    /\ q \in Queries(request.view) \ DOMAIN results
    /\ LET buckets == BucketsOf(q)
       IN  results' = [r \in DOMAIN results \cup {q} |->
               IF r # q THEN results[r]
               ELSE [e \in {b[2] : b \in buckets} |->
                        Counted(request.view, q, CHOOSE b \in buckets : b[2] = e)]]
    /\ UNCHANGED <<today, situations, request>>

KpiNext ==
    \/ Midnight
    \/ \E s \in Situations :
          \/ StampRegistration(s) \/ CommitRegistration(s)
          \/ StampClosing(s) \/ CommitClosing(s)
          \/ MoveToArea(s)
    \/ \E view \in {"state"} \cup Metrics, p \in Periods : Ask(view, p)
    \/ \E q \in UNION {Queries(view) : view \in {"state"} \cup Metrics} : RunQuery(q)

KpiSpec == KpiInit /\ [][KpiNext]_kpiVars

-----------------------------------------------------------------------------
(* The response                                                             *)

Responded == request.pc = "asked" /\ DOMAIN results = Queries(request.view)

SlotsShown == Slots(request.from, request.calendarEnd, request.dataTo)

\* counts.get(slot.dataEnd) ?? 0
Shown(q, slot) == IF slot[2] \in DOMAIN results[q] THEN results[q][slot[2]] ELSE 0

\* Nothing that counts in the period, and no change of area, came while the
\* queries ran.
Settled == Responded /\ ~ request.late

\* "activeCount = active.total del ultimo bucket no futuro = snapshot.activeCount"
\* (operational-kpi-state.dto.ts), although each is counted at another instant:
\* what is registered, attended or closed on a later day does not touch the cut.
\* The backlog has besides the INTER problems of the area itself.
StockViewsAgree ==
    Settled /\ request.view = "state" =>
        \A slot \in SlotsShown : slot[2] = request.dataTo =>
            /\ Shown("byKind", slot) = Shown("composition", slot)
            /\ Shown("aging", slot) = Shown("composition", slot)
            /\ Shown("composition", slot) <= Shown("backlog", slot)

\* What is in stock at the end of a bucket is what was at the end of the one
\* before, and what came in, less what was solved.
FlowBalances ==
    Settled /\ request.view = "state" =>
        \A before, slot \in SlotsShown :
            before[2] + 1 = slot[1] =>
                Shown("backlog", slot) + Shown("closed", slot)
                    = Shown("backlog", before) + Shown("created", slot)

\* What the history shows of a metric over the period: the last stock, or all the
\* events.
Told(metric) ==
    IF metric = "backlog" THEN results[metric][request.dataTo]
    ELSE FoldFunction(+, 0, results[metric])

\* What the reports give as their totals.
ProblemsTotal == CutAt(ProblemsLimit, results["problems"][request.dataTo])
Truncated == results["problems"][request.dataTo] > ProblemsLimit
RecurrenceTotal == FoldFunction(+, 0, results["recurrence"])
RegisteredCount == results["registered"][request.dataTo]
ClosedCount == results["learnings"][request.dataTo]

\* The categories and the commitments are of the same population as the series
\* ("misma semantica que el backlog de /history y /state",
\* operational-kpi-breakdown.repository.ts): together they are all of it, but for
\* the INTER problems a change of area left with the one they affect.  The reports
\* count that population again: the internal problems "mismo universo que
\* Carga.internal" (kpi-internal-problems.ts), all of them or as many as may be
\* shown, and `truncated` tells which; the learnings "el de Solucionados"
\* (kpi-learnings.ts).
DistributionsAddUp ==
    Settled /\ request.view \in Metrics =>
        LET categories == results["byCategory"][request.dataTo]
            parts == categories + results["commitments"][request.dataTo]
            own   == {s \in OwnedBy(Area) : situations[s].inter /\ situations[s].affected = Area}
        IN  /\ parts <= Told(request.view)
            /\ own = {} => parts = Told(request.view)
            /\ CASE request.view = "backlog" -> /\ Truncated = (categories > ProblemsLimit)
                                                /\ ProblemsTotal = CutAt(ProblemsLimit, categories)
                 [] request.view = "created" -> /\ RecurrenceTotal = categories
                                                /\ RegisteredCount = Told("created")
                 [] request.view = "closed"  -> ClosedCount = Told("closed")

=============================================================================
