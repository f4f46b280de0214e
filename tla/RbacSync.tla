------------------------------ MODULE RbacSync ------------------------------
(***************************************************************************)
(* The role-permission matrix and those who bring it to the catalogue      *)
(* ROLE_PERMISSION_CODES:                                                  *)
(*   - every server, when it boots with the catalogue seeds enabled        *)
(*     (RolePermissionCatalogSeedService.syncRolePermissions, not awaited  *)
(*     by the boot, over PermissionsService.assignToRole, removeFromRole); *)
(*   - the job seed:rbac (src/src/database/seeds/run-seed-rbac.ts).        *)
(* Nothing is locked and there is no transaction: each query is a step,    *)
(* and any number of them may run at once.                                 *)
(*                                                                         *)
(* A role is its position in the catalogue and a permission its position   *)
(* in ORDER BY module, code, the order in which servers read assignments.  *)
(* Roles and permissions themselves are already there: their seeds are     *)
(* awaited before.                                                         *)
(***************************************************************************)
EXTENDS Naturals

CONSTANTS
    Servers, Jobs,
    RoleCount,     \* roles of the catalogue: 1..RoleCount
    Permissions,   \* positions, a set of naturals
    Expected       \* ROLE_PERMISSION_CODES

Roles == 1..RoleCount
Syncs == Servers \cup Jobs

ASSUME RbacAssumption ==
    /\ RoleCount \in Nat \ {0}
    /\ Permissions \subseteq Nat
    /\ Expected \in [Roles -> SUBSET Permissions]
    /\ Servers \cap Jobs = {}

VARIABLES
    granted,  \* role_permissions: the permissions of each role
    phase,       \* where each synchronisation is
    role,     \* the role it is at
    revokes,  \* the permissions it has still to take from that role
    grants,   \* and those it has still to give it
    skipped   \* history: grants that failed and were only logged

rbacVars == <<granted, phase, role, revokes, grants, skipped>>

RbacSteps == {"off", "reading", "revoking", "removing", "granting", "inserting",
              "done", "refused", "dead"}

Ended == {"off", "done", "refused", "dead"}

RbacInit ==
    /\ granted \in [Roles -> SUBSET Permissions]
    /\ phase = [s \in Syncs |-> "off"]
    /\ role = [s \in Syncs |-> 1]
    /\ revokes = [s \in Syncs |-> {}]
    /\ grants = [s \in Syncs |-> {}]
    /\ skipped = {}

Enter(s, step) == phase' = [phase EXCEPT ![s] = step]

\* Mutated: assignments come in whatever order the database returns them.
InAnyOrder(p, list) == p \in list

\* The next assignment of a list; the lists are all in the same order.
IsNext(p, list) == p \in list /\ \A q \in list : p <= q

Boot(s) ==
    /\ phase[s] = "off"
    /\ Enter(s, "reading")
    /\ UNCHANGED <<granted, role, revokes, grants, skipped>>

\* Mutated: everything is revoked and given back.
UnexpectedAll(r) == granted[r]

\* What a role has and the catalogue does not give it.
Unexpected(r) == granted[r] \ Expected[r]

\* findByRoleId.  A server will look for each expected permission again; a job
\* goes by what it reads here.
ReadRole(s) ==
    /\ phase[s] = "reading"
    /\ revokes' = [revokes EXCEPT ![s] = Unexpected(role[s])]
    /\ grants' = [grants EXCEPT ![s] =
                     IF s \in Servers THEN Expected[role[s]]
                     ELSE Expected[role[s]] \ granted[role[s]]]
    /\ Enter(s, "revoking")
    /\ UNCHANGED <<granted, role, skipped>>

\* removeFromRole looks for the assignment before it removes it; if another
\* sync was faster, NotFoundException ends the whole synchronisation.
FindAssignment(s) ==
    /\ s \in Servers
    /\ phase[s] = "revoking"
    /\ \E p \in revokes[s] :
          /\ IsNext(p, revokes[s])
          /\ Enter(s, IF p \in granted[role[s]] THEN "removing" ELSE "refused")
    /\ UNCHANGED <<granted, role, revokes, grants, skipped>>

\* The DELETE by id, which is no error when the row is gone.  A job starts here,
\* and its list has no order.
RemoveAssignment(s) ==
    /\ phase[s] = IF s \in Servers THEN "removing" ELSE "revoking"
    /\ \E p \in revokes[s] :
          /\ s \in Servers => IsNext(p, revokes[s])
          /\ granted' = [granted EXCEPT ![role[s]] = @ \ {p}]
          /\ revokes' = [revokes EXCEPT ![s] = @ \ {p}]
    /\ Enter(s, "revoking")
    /\ UNCHANGED <<role, grants, skipped>>

StartGranting(s) ==
    /\ phase[s] = "revoking"
    /\ revokes[s] = {}
    /\ Enter(s, "granting")
    /\ UNCHANGED <<granted, role, revokes, grants, skipped>>

\* assignToRole asks first; what is there already needs nothing.
LookAssignment(s) ==
    /\ s \in Servers
    /\ phase[s] = "granting"
    /\ \E p \in grants[s] :
          /\ IsNext(p, grants[s])
          /\ IF p \in granted[role[s]]
             THEN grants' = [grants EXCEPT ![s] = @ \ {p}] /\ UNCHANGED phase
             ELSE Enter(s, "inserting") /\ UNCHANGED grants
    /\ UNCHANGED <<granted, role, revokes, skipped>>

\* The INSERT.  If another sync was faster the unique key refuses it: a server
\* logs that and goes on, and a job ends.
InsertAssignment(s) ==
    /\ phase[s] = IF s \in Servers THEN "inserting" ELSE "granting"
    /\ \E p \in grants[s] :
          /\ IsNext(p, grants[s])
          /\ IF s \in Jobs /\ p \in granted[role[s]]
             THEN Enter(s, "refused") /\ UNCHANGED <<granted, grants>>
             ELSE /\ granted' = [granted EXCEPT ![role[s]] = @ \cup {p}]
                  /\ grants' = [grants EXCEPT ![s] = @ \ {p}]
                  /\ Enter(s, "granting")
    /\ UNCHANGED <<role, revokes, skipped>>

\* Any error of a grant is taken for a permission that is not in the catalogue:
\* a server logs it and goes on.
SkipGrant(s) ==
    /\ s \in Servers
    /\ phase[s] \in {"granting", "inserting"}
    /\ \E p \in grants[s] :
          /\ IsNext(p, grants[s])
          /\ skipped' = skipped \cup {<<role[s], p>>}
          /\ grants' = [grants EXCEPT ![s] = @ \ {p}]
    /\ Enter(s, "granting")
    /\ UNCHANGED <<granted, role, revokes>>

\* Mutated: the last role of the catalogue is left out.
AllButOneRole(s) ==
    /\ phase[s] = "granting"
    /\ grants[s] = {}
    /\ IF role[s] + 1 >= RoleCount
       THEN Enter(s, "done") /\ UNCHANGED role
       ELSE Enter(s, "reading") /\ role' = [role EXCEPT ![s] = @ + 1]
    /\ UNCHANGED <<granted, revokes, grants, skipped>>

NextRole(s) ==
    /\ phase[s] = "granting"
    /\ grants[s] = {}
    /\ IF role[s] = RoleCount
       THEN Enter(s, "done") /\ UNCHANGED role
       ELSE Enter(s, "reading") /\ role' = [role EXCEPT ![s] = @ + 1]
    /\ UNCHANGED <<granted, revokes, grants, skipped>>

\* The process dies, or a query other than a server's grant fails: "RBAC sync en
\* arranque fallo; el servicio sigue operativo".
SyncDies(s) ==
    /\ phase[s] \notin Ended
    /\ Enter(s, "dead")
    /\ UNCHANGED <<granted, role, revokes, grants, skipped>>

SyncStep(s) ==
    \/ ReadRole(s)
    \/ FindAssignment(s)
    \/ RemoveAssignment(s)
    \/ StartGranting(s)
    \/ LookAssignment(s)
    \/ InsertAssignment(s)
    \/ SkipGrant(s)
    \/ NextRole(s)

RbacNext == \E s \in Syncs : Boot(s) \/ SyncStep(s) \/ SyncDies(s)

RbacSpec == RbacInit /\ [][RbacNext]_rbacVars

\* A synchronisation that started goes on until it ends.
RbacFairSpec == RbacSpec /\ \A s \in Syncs : WF_rbacVars(SyncStep(s))

-----------------------------------------------------------------------------
(* Properties *)

\* Every variable has its type.
RbacTypeOK ==
    /\ granted \in [Roles -> SUBSET Permissions]
    /\ phase \in [Syncs -> RbacSteps]
    /\ role \in [Syncs -> Roles]
    /\ revokes \in [Syncs -> SUBSET Permissions]
    /\ grants \in [Syncs -> SUBSET Permissions]
    /\ skipped \subseteq Roles \X Permissions

\* The matrix is the catalogue, but for the grants that failed and were logged.
Synchronised(r) ==
    /\ granted[r] \subseteq Expected[r]
    /\ \A p \in Expected[r] \ granted[r] : <<r, p>> \in skipped

\* Whoever boots at the same time may refuse one another, but not all of them:
\* once every synchronisation that started has ended and none died, some of
\* them ran, and the matrix is the catalogue.
SomebodyFinishes ==
    /\ \A s \in Syncs : phase[s] \in {"off", "done", "refused"}
    /\ \E s \in Syncs : phase[s] # "off"
    => /\ \E s \in Syncs : phase[s] = "done"
       /\ \A r \in Roles : Synchronised(r)

\* However many synchronise at once, a user keeps every permission the catalogue
\* gives his role: what is taken away is only what it does not.
ExpectedIsNeverRevoked ==
    [][\A r \in Roles : granted[r] \cap Expected[r] \subseteq granted'[r]]_rbacVars

\* A synchronisation that starts brings the matrix to the catalogue for good, by
\* itself or through the one that overtook it, unless one of them dies.
SyncConverges ==
    \A s \in Syncs :
        phase[s] = "reading" ~>
            \/ \E t \in Syncs : phase[t] = "dead"
            \/ \A r \in Roles : Synchronised(r)

=============================================================================
