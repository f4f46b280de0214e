------------------------ MODULE OperationalOverview ------------------------
(***************************************************************************)
(* GET /operational-overview: OperationalOverviewService.getOverview       *)
(* (src/src/operational-overview) over the problems of all coordinations.  *)
(*                                                                         *)
(* A request reads the problems with three aggregations that run in        *)
(* parallel, outside a transaction: each sees what is committed when it    *)
(* runs, in any order, and problems are registered, closed, reassigned,    *)
(* escalated and analysed in between.  What it answers is computed from    *)
(* the three counts (OverviewPolicies).                                    *)
(*                                                                         *)
(* A writer is one step: only its commit can be seen from here.  Only      *)
(* active problems (OPEN, IN_PROGRESS) are kept.                           *)
(***************************************************************************)
EXTENDS OverviewPolicies

CONSTANTS
    Problems,
    Catalogue,   \* active coordinations
    Inactive,    \* deactivated coordinations that have problems still
    Registry,    \* ANALYST_REGISTRY_KEY, the owner of what nobody owns
    Standing,    \* problems as they may stand when the request begins
    Impacts,     \* what an analysis may find affected
    MaxCommits   \* bound: commits while the request runs

Coordinations == Catalogue \cup Inactive
Owners == Coordinations \cup {Registry}

Problem ==
    [owner : Owners, inter : BOOLEAN, affected : Owners,
     severity : Severities, hits : SUBSET Coordinations]

ASSUME OverviewAssumption ==
    /\ IsFiniteSet(Problems) /\ IsFiniteSet(Coordinations)
    /\ Registry \notin Coordinations
    /\ Standing \subseteq Problem
    /\ \A r \in Standing : r.inter => r.affected \in Coordinations
    /\ Impacts \subseteq SUBSET Coordinations
    /\ MaxCommits \in Nat

\* Those just registered: not analysed yet, and INTER ones between two areas.
Reports == {r \in Standing : r.hits = {} /\ (r.inter => r.affected # r.owner)}

Rank == [LOW |-> 1, MEDIUM |-> 2, HIGH |-> 3, CRITICAL |-> 4]

Aggregations == {"bySeverity", "affected", "incoming"}

VARIABLES
    active,     \* the active problems: a function on a subset of Problems
    waiting,    \* aggregations the request has still to run
    answer,     \* what the others counted
    commits,    \* commits since the first of them
    calm        \* history: areas that were ESTABLE at some instant since

overviewVars == <<active, waiting, answer, commits, calm>>

-----------------------------------------------------------------------------
(* The aggregations, of the problems of a table                             *)

BySeverity(table, set) ==
    [s \in Severities |-> Cardinality({p \in set : table[p].severity = s})]

Owned(table, c) == {p \in DOMAIN table : table[p].owner = c}

\* The owner himself is not propagation towards another area.
Reached(table, c) == UNION {table[p].hits \ {c} : p \in Owned(table, c)}

\* Mutated: what the area owns itself is not incoming.
SufferedFromOthers(table, c) ==
    {p \in DOMAIN table :
        table[p].inter /\ table[p].affected = c /\ table[p].owner # c}

Suffered(table, c) == {p \in DOMAIN table : table[p].inter /\ table[p].affected = c}

\* Mutated: those of the affected area itself are counted too.
ExternalAll(table, c) == Suffered(table, c)

\* The owner IS DISTINCT FROM the affected area.
External(table, c) == {p \in Suffered(table, c) : table[p].owner # c}

\* One of the three, for every owner.
Aggregated(q, table) ==
    [c \in Owners |->
        CASE q = "bySeverity" -> BySeverity(table, Owned(table, c))
          [] q = "affected"   -> Cardinality(Reached(table, c))
          [] q = "incoming"   ->
                [incoming |-> Cardinality(Suffered(table, c)),
                 critical |-> BySeverity(table, Suffered(table, c))["CRITICAL"],
                 external |-> BySeverity(table, External(table, c))]]

\* buildCoordinationLifeSnapshots, of answers that may be of different tables.
SnapshotOf(c, severities, affected, incoming) ==
    [own |-> severities[c], affected |-> affected[c], incoming |-> incoming[c].incoming,
     critical |-> incoming[c].critical, external |-> incoming[c].external]

\* What the three would give together.
SnapshotNow(c) ==
    SnapshotOf(c, Aggregated("bySeverity", active), Aggregated("affected", active),
               Aggregated("incoming", active))

CalmNow == {c \in Catalogue : Integrity(SnapshotNow(c)) = "ESTABLE"}

-----------------------------------------------------------------------------
(* Writers                                                                  *)

OverviewInit ==
    /\ \E set \in SUBSET Problems : active \in [set -> Standing]
    /\ waiting = Aggregations
    /\ answer = [q \in {} |-> {}]
    /\ commits = 0
    /\ calm = {}

Answered == waiting = {}

\* Only the commits between the first aggregation and the last one matter.
Commit(table) ==
    /\ waiting \notin {Aggregations, {}}
    /\ commits < MaxCommits
    /\ active' = table
    /\ commits' = commits + 1
    /\ calm' = calm \cup CalmNow'
    /\ UNCHANGED <<waiting, answer>>

Put(p, row) == Commit([q \in DOMAIN active \cup {p} |-> IF q = p THEN row ELSE active[q]])

Register(p) ==
    /\ p \notin DOMAIN active
    /\ \E row \in Reports : Put(p, row)

\* Any way out of OPEN and IN_PROGRESS.
Close(p) ==
    /\ p \in DOMAIN active
    /\ Commit([q \in DOMAIN active \ {p} |-> active[q]])

\* PATCH may make the affected area the responsible one; of an INTERNAL problem
\* both change.
Reassign(p) ==
    /\ p \in DOMAIN active
    /\ \E c \in Catalogue \ {active[p].owner} :
          Put(p, [active[p] EXCEPT !.owner = c,
                                   !.affected = IF active[p].inter THEN @ ELSE c])

Escalate(p) ==
    /\ p \in DOMAIN active
    /\ \E s \in Severities :
          /\ Rank[s] > Rank[active[p].severity]
          /\ Put(p, [active[p] EXCEPT !.severity = s])

\* A confirmed analysis replaces the impact.
Analyse(p) ==
    /\ p \in DOMAIN active
    /\ \E hits \in Impacts \ {active[p].hits} :
          Put(p, [active[p] EXCEPT !.hits = hits])

-----------------------------------------------------------------------------
(* The request                                                              *)

Aggregate(q) ==
    /\ q \in waiting
    /\ waiting' = waiting \ {q}
    /\ answer' = [r \in DOMAIN answer \cup {q} |->
                     IF r = q THEN Aggregated(q, active) ELSE answer[r]]
    /\ calm' = calm \cup CalmNow
    /\ UNCHANGED <<active, commits>>

OverviewNext ==
    \/ \E p \in Problems :
          Register(p) \/ Close(p) \/ Reassign(p) \/ Escalate(p) \/ Analyse(p)
    \/ \E q \in Aggregations : Aggregate(q)

OverviewSpec == OverviewInit /\ [][OverviewNext]_overviewVars

-----------------------------------------------------------------------------
(* What it answers                                                          *)

SnapshotRead(c) ==
    SnapshotOf(c, answer["bySeverity"], answer["affected"], answer["incoming"])

StatusRead(c) == Integrity(SnapshotRead(c))

\* An actor limited to his coordination does not see the analyst registry: it is
\* judged as if it were empty.
RegistryStatus(scoped) == IF scoped THEN "ESTABLE" ELSE StatusRead(Registry)

DirectionStatus(scoped) ==
    LET signals(x) == Cardinality({c \in Catalogue : StatusRead(c) = x})
                          + (IF RegistryStatus(scoped) = x THEN 1 ELSE 0)
    IN  DirectionOf(Cardinality(Catalogue), signals("CRITICO"), signals("ALERTA"),
                    signals("DESCONOCIDO"))

-----------------------------------------------------------------------------
(* Properties                                                               *)

\* The three counts may be of three different tables, yet one commit among them
\* never makes an area look calm that was not: whatever moves between what an
\* area owns and what it suffers is in one of the two.
FalseCalmTakesTwo ==
    Answered /\ commits <= 1 =>
        \A c \in Catalogue : StatusRead(c) = "ESTABLE" => c \in calm

\* While nothing is committed the Direction is not calm if an active problem is
\* CRITICAL and whoever asks can see an area that owns or suffers it.
CriticalNeverHides ==
    Answered /\ commits = 0 =>
        \A scoped \in BOOLEAN, p \in DOMAIN active :
            /\ active[p].severity = "CRITICAL"
            /\ \/ active[p].owner \in Catalogue
               \/ active[p].inter /\ active[p].affected \in Catalogue
               \/ active[p].owner = Registry /\ ~ scoped
            => DirectionStatus(scoped) # "ESTABLE"

\* An area loses for each active problem it owns or suffers what its severity
\* takes, and loses it once, also when it owns what it suffers; and its points can
\* always be told.
LivesAreLostOnce ==
    Answered /\ commits = 0 =>
        \A c \in Catalogue :
            LET problems == {p \in DOMAIN active :
                                \/ active[p].owner = c
                                \/ active[p].inter /\ active[p].affected = c}
                heavy == {p \in problems : active[p].severity \in {"HIGH", "CRITICAL"}}
                lost == Cardinality(problems) + Cardinality(heavy)
            IN  LifePoints(SnapshotRead(c)) = IF lost > MaxLife THEN 0 ELSE MaxLife - lost

=============================================================================
