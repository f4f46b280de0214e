-------------------------- MODULE OperationalScope --------------------------
(***************************************************************************)
(* Who may read and who may change a situation: the single authorization   *)
(* policy of the backend, OperationalScopeService                          *)
(* (src/src/auth/services/operational-scope.service.ts), and the write     *)
(* gate SituationAccessService.requireOperableSituation built on it.       *)
(*                                                                         *)
(* An actor is the AuthPayload the authentication guard resolves for the   *)
(* request: [id, role, coordination, permissions].  A situation is the     *)
(* part of the row the rules look at: [coordination, affected, createdBy,  *)
(* kind, status], where coordination is the RESPONSIBLE area.  None stands *)
(* for SQL null.  A rule that throws in the code is a rule that is false   *)
(* here.                                                                   *)
(***************************************************************************)

CONSTANTS
    None,                \* null
    GeneralCoordination  \* id of 'coord-general', or None when the catalogue lacks it

Statuses == {"OPEN", "IN_PROGRESS", "RESOLVED", "CLOSED"}
Kinds    == {"INTERNAL", "INTER_COORDINATION"}
Roles    == {"ANALISTA", "COORDINADOR", "DIRECTOR", "ADMIN"}

ConsequenceOpenStatuses == {"OPEN", "IN_PROGRESS"}
ResolvableStatuses      == {"OPEN", "IN_PROGRESS", "RESOLVED"}

IsCoordinationScoped(a) == a.role = "COORDINADOR"
IsAnalyst(a)            == a.role = "ANALISTA"
Holds(a, permission)    == permission \in a.permissions

IsOwnReport(a, s) == s.createdBy = a.id

\* A COORDINADOR of exactly the responsible area.  A null on either side
\* never matches.
CoordinatesResponsible(a, s) ==
    /\ IsCoordinationScoped(a)
    /\ a.coordination # None
    /\ s.coordination = a.coordination

\* An ANALISTA when the responsible area is Coordinacion General.
AnalystOfGeneral(a, s) ==
    /\ IsAnalyst(a)
    /\ GeneralCoordination # None
    /\ s.coordination # None
    /\ s.coordination = GeneralCoordination

\* assertSituationInScope
SituationInScope(a, s) ==
    /\ Holds(a, "SITUATIONS_VIEW")
    /\ IsCoordinationScoped(a) => CoordinatesResponsible(a, s)

\* assertSituationReadable: scope, widened to own reports and, for a
\* COORDINADOR, to problems that affect the own area.
SituationReadable(a, s) ==
    /\ Holds(a, "SITUATIONS_VIEW")
    /\ \/ IsOwnReport(a, s)
       \/ /\ IsCoordinationScoped(a)
          /\ a.coordination # None
          /\ s.affected = a.coordination
       \/ SituationInScope(a, s)

OwnsSituation(a, s) == IsOwnReport(a, s) \/ CoordinatesResponsible(a, s)

\* canUpdateSituation: the hint sent to the user interface.
CanUpdateSituation(a, s) ==
    Holds(a, "SITUATIONS_UPDATE") /\ OwnsSituation(a, s)

\* assertCanUpdateSituation: what PATCH /situations/:id enforces.
UpdateAllowed(a, s) ==
    /\ Holds(a, "SITUATIONS_UPDATE")
    /\ SituationInScope(a, s)
    /\ OwnsSituation(a, s)

\* requireOperableSituation: evidence and follow-up writes.
OperateAllowed(a, s) ==
    /\ SituationReadable(a, s)
    /\ SituationInScope(a, s)
    /\ OwnsSituation(a, s)

\* canAdvanceSituationToInProgress
CanAdvanceToInProgress(a, s) ==
    /\ Holds(a, "SITUATIONS_UPDATE")
    /\ AnalystOfGeneral(a, s) \/ CoordinatesResponsible(a, s)

\* canResolveSituation
CanResolveSituation(a, s) ==
    /\ Holds(a, "SITUATIONS_CLOSE")
    /\ AnalystOfGeneral(a, s) \/ CoordinatesResponsible(a, s)

\* isConsequenceParticipant: who reported, or who manages.
IsConsequenceParticipant(a, s) ==
    \/ IsAnalyst(a) /\ IsOwnReport(a, s)
    \/ CoordinatesResponsible(a, s)

\* canAddConsequence: the hint sent to the user interface.
CanAddConsequence(a, s) ==
    /\ Holds(a, "SITUATIONS_UPDATE")
    /\ s.kind = "INTERNAL"
    /\ s.status \in ConsequenceOpenStatuses
    /\ IsConsequenceParticipant(a, s)

\* What POST /situations/:id/consequences enforces, in its order.
AddConsequenceAllowed(a, s) ==
    /\ SituationReadable(a, s)
    /\ s.kind = "INTERNAL"
    /\ s.status \in ConsequenceOpenStatuses
    /\ Holds(a, "SITUATIONS_UPDATE")
    /\ IsConsequenceParticipant(a, s)

-----------------------------------------------------------------------------
(* The lists of GET /situations.  A query asks for the actor's own reports   *)
(* (mine) or not, and for one area (asked) or for none.                      *)

\* resolveSituationListCoordinationId: an actor limited to an area is given his
\* own, whichever one is asked.
ListCoordination(a, asked) == IF IsCoordinationScoped(a) THEN a.coordination ELSE asked

\* lecturaRestringida: another area than his own is asked by such an actor.
ReadsOwnOnly(a, mine, asked) ==
    /\ ~ mine
    /\ asked # None
    /\ IsCoordinationScoped(a)
    /\ asked # a.coordination

\* scopedQuery: the filters the repository applies, None for one that does not.
ListFilters(a, mine, asked) ==
    IF mine \/ ReadsOwnOnly(a, mine, asked)
    THEN [area |-> asked, author |-> a.id]
    ELSE [area |-> ListCoordination(a, asked), author |-> None]

\* Mutated: the list of an area has only what it must answer for.
MatchesResponsible(filters, s) ==
    /\ filters.area # None => s.coordination = filters.area
    /\ filters.author # None => s.createdBy = filters.author

\* createFilteredQuery: an area lists what it answers for and what affects it.
Matches(filters, s) ==
    /\ filters.area # None => filters.area \in {s.coordination, s.affected}
    /\ filters.author # None => s.createdBy = filters.author

Listed(a, mine, asked, s) ==
    /\ Holds(a, "SITUATIONS_VIEW")
    /\ Matches(ListFilters(a, mine, asked), s)

-----------------------------------------------------------------------------
(* Registration                                                             *)

\* resolveInternalCreateCoordinationId
InternalCreateAllowed(a, coordination) ==
    /\ Holds(a, "SITUATIONS_CREATE")
    /\ coordination # None
    /\ IsCoordinationScoped(a) => a.coordination = coordination

\* resolveCreateCoordinationId on the INTER path, where the areas are given
\* explicitly and must differ.
InterCreateAllowed(a, coordination, affected) ==
    /\ coordination # None
    /\ affected # None
    /\ coordination # affected
    /\ Holds(a, "SITUATIONS_CREATE")

=============================================================================
