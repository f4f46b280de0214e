----------------------- MODULE OperationalScope_proofs -----------------------
(***************************************************************************)
(* For any areas, any users and any Coordinacion General: what the policy  *)
(* of operational scope grants, what it announces and what it lists agree. *)
(*                                                                         *)
(* A decision is taken once, and leaves the verdicts of the policy on the  *)
(* actor and the situation it was asked about (Decided).                   *)
(***************************************************************************)
EXTENDS MCOperationalScope, TLAPS

\* Nothing is decided yet, or what was decided is what the policy says.
Decided ==
    \/ granted = {} /\ lists = {}
    \/ /\ granted = Granted(actor, situation)
       /\ lists = {q \in Queries : Listed(actor, q[1], q[2], situation)}

ScopeInv == actor \in AllActors /\ situation \in AllSituations /\ Decided

\* Whoever is asked about is in the catalogue, and a decision is the policy's.
LEMMA ScopeInvariance == ScopeSpec => []ScopeInv
<1>1. ScopeInit => ScopeInv
  BY DEF ScopeInit, ScopeInv, Decided
<1>2. ScopeInv /\ [Decide]_scopeVars => ScopeInv'
  BY DEF ScopeInv, Decided, Decide, scopeVars
<1> QED BY <1>1, <1>2, PTL DEF ScopeSpec

\* Every right to write of a COORDINADOR is bound to the responsible area: none
\* comes from having reported the problem, nor from being affected by it.
LEMMA WritersAreResponsible ==
    ASSUME NEW a, NEW s, a.role = "COORDINADOR", ~ CoordinatesResponsible(a, s)
    PROVE  /\ ~ UpdateAllowed(a, s) /\ ~ OperateAllowed(a, s)
           /\ ~ CanAdvanceToInProgress(a, s) /\ ~ CanResolveSituation(a, s)
           /\ ~ AddConsequenceAllowed(a, s)
<1>1. IsCoordinationScoped(a) /\ ~ IsAnalyst(a)
  BY DEF IsCoordinationScoped, IsAnalyst
<1> QED
  BY <1>1 DEF UpdateAllowed, OperateAllowed, SituationInScope, CanAdvanceToInProgress,
              CanResolveSituation, AnalystOfGeneral, AddConsequenceAllowed,
              IsConsequenceParticipant

\* A COORDINADOR can read a problem of another area, and can do nothing else.
THEOREM ReadersDoNotWrite == ScopeSpec => []ReadingIsNotWriting
<1>1. ScopeInv => ReadingIsNotWriting
  <2> SUFFICES ASSUME ScopeInv, actor.role = "COORDINADOR",
                      actor.coordination # situation.coordination
                         \/ actor.coordination = None
               PROVE  granted \subseteq {"read"}
    BY DEF ReadingIsNotWriting
  <2>1. ~ CoordinatesResponsible(actor, situation)
    BY DEF CoordinatesResponsible
  <2>2. Granted(actor, situation) \subseteq {"read"}
    BY <2>1, WritersAreResponsible DEF Granted
  <2> QED BY <2>2 DEF ScopeInv, Decided
<1> QED BY <1>1, ScopeInvariance, PTL

\* Which operations are in the verdict.
LEMMA GrantedHas ==
    ASSUME NEW a, NEW s
    PROVE  /\ "read" \in Granted(a, s) <=> SituationReadable(a, s)
           /\ "update" \in Granted(a, s) <=> UpdateAllowed(a, s)
           /\ "addConsequence" \in Granted(a, s) <=> AddConsequenceAllowed(a, s)
  BY DEF Granted

\* Who may take part in the effects of a problem can read it.
LEMMA ParticipantsRead ==
    ASSUME NEW a, NEW s, Holds(a, "SITUATIONS_VIEW"), IsConsequenceParticipant(a, s)
    PROVE  SituationReadable(a, s)
  BY DEF IsConsequenceParticipant, SituationReadable, SituationInScope, CoordinatesResponsible

\* The hint on effects is the verdict of the request that adds one.  Whoever PATCH
\* lets in is told so, and nobody it refuses but the COORDINADOR who reported a
\* problem of an area he does not coordinate.
THEOREM HintsAreVerdicts == ScopeSpec => []HintsAreHonoured
<1>1. ScopeInv => HintsAreHonoured
  <2> DEFINE elsewhere ==
        /\ actor.role = "COORDINADOR" /\ situation.createdBy = actor.id
        /\ actor.coordination # situation.coordination \/ actor.coordination = None
  <2> SUFFICES ASSUME ScopeInv, granted # {}, "SITUATIONS_VIEW" \in actor.permissions
               PROVE  /\ CanAddConsequence(actor, situation) = ("addConsequence" \in granted)
                      /\ "update" \in granted => CanUpdateSituation(actor, situation)
                      /\ CanUpdateSituation(actor, situation) /\ "update" \notin granted
                            => elsewhere
    BY DEF HintsAreHonoured
  <2>1. granted = Granted(actor, situation) /\ Holds(actor, "SITUATIONS_VIEW")
    BY DEF ScopeInv, Decided, Holds
  <2>2. CanAddConsequence(actor, situation) <=> AddConsequenceAllowed(actor, situation)
    BY <2>1, ParticipantsRead DEF CanAddConsequence, AddConsequenceAllowed
  <2>3. UpdateAllowed(actor, situation) => CanUpdateSituation(actor, situation)
    BY DEF UpdateAllowed, CanUpdateSituation
  <2>4. CanUpdateSituation(actor, situation) /\ ~ UpdateAllowed(actor, situation) => elsewhere
    BY <2>1 DEF UpdateAllowed, CanUpdateSituation, OwnsSituation, SituationInScope, IsOwnReport,
                IsCoordinationScoped, CoordinatesResponsible
  <2>5. CanAddConsequence(actor, situation) \in BOOLEAN
    BY DEF CanAddConsequence
  <2> HIDE DEF elsewhere
  <2> QED BY <2>1, <2>2, <2>3, <2>4, <2>5, GrantedHas
<1> QED BY <1>1, ScopeInvariance, PTL

\* Whatever is in a list of somebody can be opened by him.
LEMMA ListedIsReadable ==
    ASSUME NEW a \in AllActors, NEW s \in AllSituations, NEW q \in Queries,
           a.role # "COORDINADOR" \/ a.coordination # None,
           Listed(a, q[1], q[2], s)
    PROVE  SituationReadable(a, s)
<1> DEFINE filters == ListFilters(a, q[1], q[2])
<1>1. Holds(a, "SITUATIONS_VIEW") /\ Matches(filters, s)
  BY DEF Listed
<1>2. CASE q[1] \/ ReadsOwnOnly(a, q[1], q[2])
  <2>1. filters.author = a.id /\ a.id # None
    BY <1>2, PeopleAssumption DEF ListFilters, AllActors
  <2> QED BY <1>1, <2>1 DEF Matches, SituationReadable, IsOwnReport
<1>3. CASE ~ (q[1] \/ ReadsOwnOnly(a, q[1], q[2]))
  <2>1. filters.area = ListCoordination(a, q[2])
    BY <1>3 DEF ListFilters
  <2>2. CASE IsCoordinationScoped(a)
    <3>1. a.coordination # None /\ a.coordination \in {s.coordination, s.affected}
      BY <1>1, <2>1, <2>2 DEF Matches, ListCoordination, IsCoordinationScoped
    <3> QED BY <1>1, <2>2, <3>1 DEF SituationReadable, SituationInScope, CoordinatesResponsible
  <2>3. CASE ~ IsCoordinationScoped(a)
    BY <1>1, <2>3 DEF SituationReadable, SituationInScope
  <2> QED BY <2>2, <2>3
<1> QED BY <1>2, <1>3

\* Whatever somebody can open is in one of his lists: that of his reports, or
\* the one that asks for no area.
LEMMA ReadableIsListed ==
    ASSUME NEW a \in AllActors, NEW s \in AllSituations, SituationReadable(a, s)
    PROVE  \E q \in Queries : Listed(a, q[1], q[2], s)
<1>1. <<TRUE, None>> \in Queries /\ <<FALSE, None>> \in Queries
  BY DEF Queries
<1>2. CASE IsOwnReport(a, s)
  <2>1. Listed(a, TRUE, None, s)
    BY <1>2 DEF SituationReadable, Listed, ListFilters, Matches, IsOwnReport
  <2> QED BY <1>1, <2>1
<1>3. CASE ~ IsOwnReport(a, s)
  <2>1. /\ ListFilters(a, FALSE, None).area = ListCoordination(a, None)
        /\ ListFilters(a, FALSE, None).author = None
    BY DEF ListFilters, ReadsOwnOnly
  <2>2. ListCoordination(a, None) # None =>
           ListCoordination(a, None) \in {s.coordination, s.affected}
    BY <1>3 DEF ListCoordination, SituationReadable, SituationInScope, CoordinatesResponsible
  <2>3. Matches(ListFilters(a, FALSE, None), s)
    BY <2>1, <2>2 DEF Matches
  <2>4. Listed(a, FALSE, None, s)
    BY <2>3 DEF Listed, SituationReadable
  <2> QED BY <1>1, <2>4
<1> QED BY <1>2, <1>3

\* A list asked for an area has only what that area answers for or suffers.
LEMMA ListsKeepTheirArea ==
    ASSUME NEW a, NEW s, NEW q \in Queries, Listed(a, q[1], q[2], s), q[2] # None
    PROVE  q[2] \in {s.coordination, s.affected}
<1>1. ListFilters(a, q[1], q[2]).area = q[2]
  BY DEF Queries, ListFilters, ReadsOwnOnly, ListCoordination
<1> QED BY <1>1 DEF Listed, Matches

\* Lists and detail agree for whoever has an area or needs none, and no list
\* shows a problem under the name of an area that is none of its own.
THEOREM ListsAgreeWithDetail == ScopeSpec => []ListsShowWhatIsReadable
<1>1. ScopeInv => ListsShowWhatIsReadable
  <2> SUFFICES ASSUME ScopeInv PROVE ListsShowWhatIsReadable
    OBVIOUS
  <2>1. CASE granted = {} /\ lists = {}
    BY <2>1 DEF ListsShowWhatIsReadable
  <2>2. CASE /\ granted = Granted(actor, situation)
             /\ lists = {q \in Queries : Listed(actor, q[1], q[2], situation)}
    <3>1. actor \in AllActors /\ situation \in AllSituations
      BY DEF ScopeInv
    <3>2. "read" \in granted <=> SituationReadable(actor, situation)
      BY <2>2, GrantedHas
    <3>3. SituationReadable(actor, situation) => lists # {}
      BY <2>2, <3>1, ReadableIsListed
    <3>4. (actor.role # "COORDINADOR" \/ actor.coordination # None) /\ lists # {}
             => SituationReadable(actor, situation)
      BY <2>2, <3>1, ListedIsReadable
    <3>5. \A q \in lists : q[2] # None => q[2] \in {situation.coordination, situation.affected}
      BY <2>2, ListsKeepTheirArea
    <3> QED BY <3>2, <3>3, <3>4, <3>5 DEF ListsShowWhatIsReadable
  <2> QED BY <2>1, <2>2 DEF ScopeInv, Decided
<1> QED BY <1>1, ScopeInvariance, PTL

=============================================================================
