-------------------------- MODULE MCOperationalScope --------------------------
(***************************************************************************)
(* OperationalScope evaluated for every actor and every situation of a     *)
(* small catalogue: three areas and none, the four roles, every set of the *)
(* three permissions the rules ask for, every authorship, kind and status. *)
(* One request is decided per behaviour; granted is the set of operations  *)
(* the actor could carry out on the situation, and lists the set of the    *)
(* queries that would show it to him.                                      *)
(***************************************************************************)
EXTENDS OperationalScope

CONSTANTS Areas, People

\* The id of a user is a primary key.
ASSUME PeopleAssumption == None \notin People

Permissions == {"SITUATIONS_VIEW", "SITUATIONS_UPDATE", "SITUATIONS_CLOSE"}

AllActors ==
    [id : People, role : Roles, coordination : Areas \cup {None},
     permissions : SUBSET Permissions]

\* Registration keeps INTERNAL areas equal; INTER areas may meet after a
\* reassignment, so every pair is included.
AllSituations ==
    [coordination : Areas \cup {None}, affected : Areas \cup {None},
     createdBy : People, kind : Kinds, status : Statuses]

Queries == BOOLEAN \X (Areas \cup {None})

VARIABLES actor, situation, granted, lists

scopeVars == <<actor, situation, granted, lists>>

Granted(a, s) ==
    (IF SituationReadable(a, s) THEN {"read"} ELSE {})
    \cup (IF UpdateAllowed(a, s) THEN {"update"} ELSE {})
    \cup (IF OperateAllowed(a, s) THEN {"operate"} ELSE {})
    \cup (IF CanAdvanceToInProgress(a, s) /\ s.status = "OPEN" THEN {"advance"} ELSE {})
    \cup (IF CanResolveSituation(a, s) /\ s.status \in ResolvableStatuses
          THEN {"resolve"} ELSE {})
    \cup (IF AddConsequenceAllowed(a, s) THEN {"addConsequence"} ELSE {})

ScopeInit ==
    /\ actor \in AllActors
    /\ situation \in AllSituations
    /\ granted = {}
    /\ lists = {}

Decide ==
    /\ granted = {}
    /\ granted' = Granted(actor, situation)
    /\ lists' = {q \in Queries : Listed(actor, q[1], q[2], situation)}
    /\ UNCHANGED <<actor, situation>>

ScopeSpec == ScopeInit /\ [][Decide]_scopeVars

-----------------------------------------------------------------------------
\* A COORDINADOR can read a problem of another area (an own report, or one
\* that affects the own area) and can do nothing else with it
\* (operational-scope.service.ts:115-125, situation-access.service.ts:33-43).
ReadingIsNotWriting ==
    /\ actor.role = "COORDINADOR"
    /\ actor.coordination # situation.coordination \/ actor.coordination = None
    => granted \subseteq {"read"}

\* The hints agree with what is enforced, for everyone who can open the problem.
\* canAddConsequence is the verdict of the request that adds an effect
\* (situation.dto.ts:376-380).  canUpdate is told to whoever PATCH lets in, and
\* besides only to a COORDINADOR who reported the problem of another area.
HintsAreHonoured ==
    granted # {} /\ "SITUATIONS_VIEW" \in actor.permissions =>
        /\ CanAddConsequence(actor, situation) = ("addConsequence" \in granted)
        /\ "update" \in granted => CanUpdateSituation(actor, situation)
        /\ CanUpdateSituation(actor, situation) /\ "update" \notin granted =>
              /\ actor.role = "COORDINADOR" /\ situation.createdBy = actor.id
              /\ actor.coordination # situation.coordination \/ actor.coordination = None

\* "Si el USUARIO DE ESTA PETICION puede aplicar otras actualizaciones via PATCH"
\* (canUpdate, situation.dto.ts:370-371): whoever opens a problem between areas and
\* is told so can PATCH it.
HintMeansPatch ==
    /\ situation.kind = "INTER_COORDINATION"
    /\ None \notin {situation.coordination, actor.coordination}
    /\ "read" \in granted /\ CanUpdateSituation(actor, situation)
    => "update" \in granted

\* The list and the detail agree for whoever has an area, or needs none: a problem
\* that can be opened is in some list, and one that is in a list can be opened
\* (situations.service.ts:597-616).  No list shows under the name of an area a
\* problem that is none of its own (situations.service.ts:599-602).
ListsShowWhatIsReadable ==
    /\ actor.role # "COORDINADOR" \/ actor.coordination # None =>
          (lists # {}) = ("read" \in granted)
    /\ \A q \in lists :
          q[2] # None => q[2] \in {situation.coordination, situation.affected}

=============================================================================
