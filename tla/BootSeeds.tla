------------------------------ MODULE BootSeeds ------------------------------
(***************************************************************************)
(* The catalogues a server writes when it boots with the catalogue seeds   *)
(* enabled (isCatalogSeedEnabled: not in production, unless                *)
(* CATALOG_SEED_ON_BOOT asks for it).  The awaited lists, roles and then   *)
(* permissions (RoleCatalogSeedService, PermissionCatalogSeedService), are *)
(* part of the boot: one that fails leaves the process alive, answering    *)
(* 503 to the startup probe on /health/ready (deploy-backend.yml:275),     *)
(* which replaces it.  The others run behind, and one that fails only logs *)
(* it: areas and categories (CatalogSeedService), coordinations and their  *)
(* dependencies (CoordinationCatalogSeedService).                          *)
(*                                                                         *)
(* All do the same: they look for the row of an item by its unique code    *)
(* and update it, or insert it when it was not there.  Several servers may *)
(* boot at once and nothing is locked.  A list has its items in order, so  *)
(* that what an item needs (the ends of a dependency) is before it.        *)
(***************************************************************************)
EXTENDS Naturals

CONSTANTS
    Boots,   \* servers
    Lists,   \* catalogues that are written one apart from the other
    Awaited, \* the one the boot waits for
    Size     \* items of each list

Positions == UNION {1 .. Size[l] + 1 : l \in Lists}
Items == {i \in Lists \X Positions : i[2] <= Size[i[1]]}

ASSUME SeedsAssumption ==
    /\ Awaited \in Lists
    /\ Size \in [Lists -> Nat \ {0}]

VARIABLES
    row,  \* the row of each item
    at    \* what each server does with each list, and the item it is at

seedVars == <<row, at>>

SeedSteps == {"off", "looking", "updating", "inserting", "done", "refused", "dead"}

Place(step, item) == [step |-> step, item |-> item]

Beginning == [l \in Lists |-> Place(IF l = Awaited THEN "looking" ELSE "off", 1)]

SeedsInit ==
    /\ row \in [Items -> {"absent", "old", "current"}]
    /\ at = [s \in Boots |-> [l \in Lists |-> Place("off", 1)]]

Go(s, l, step, item) == at' = [at EXCEPT ![s][l] = Place(step, item)]

Idle(s) == \A l \in Lists : at[s][l].step = "off"

Dead(s) == \E l \in Lists : at[s][l].step = "dead"

StartServer(s) ==
    /\ Idle(s)
    /\ at' = [at EXCEPT ![s] = Beginning]
    /\ UNCHANGED row

\* Mutated: a row that exists is left as it is.
LookForMissing(s, l) ==
    /\ at[s][l].step = "looking"
    /\ at[s][l].item <= Size[l]
    /\ IF row[<<l, at[s][l].item>>] = "absent"
       THEN Go(s, l, "inserting", at[s][l].item)
       ELSE Go(s, l, "looking", at[s][l].item + 1)
    /\ UNCHANGED row

\* findOne by code.
LookItem(s, l) ==
    /\ at[s][l].step = "looking"
    /\ at[s][l].item <= Size[l]
    /\ Go(s, l, IF row[<<l, at[s][l].item>>] = "absent" THEN "inserting" ELSE "updating",
          at[s][l].item)
    /\ UNCHANGED row

\* save of the row that was found, with the columns of the catalogue; or of a new
\* one, which the unique code refuses when another server was faster.
SaveItem(s, l) ==
    /\ at[s][l].step \in {"updating", "inserting"}
    /\ LET i == <<l, at[s][l].item>>
       IN  IF at[s][l].step = "inserting" /\ row[i] # "absent"
           THEN Go(s, l, "refused", i[2]) /\ UNCHANGED row
           ELSE Go(s, l, "looking", i[2] + 1) /\ row' = [row EXCEPT ![i] = "current"]

\* The end of a list.  After the awaited one the others begin, and no one waits
\* for them.
EndList(s, l) ==
    /\ at[s][l].step = "looking"
    /\ at[s][l].item > Size[l]
    /\ at' = [at EXCEPT ![s] =
                 [m \in Lists |->
                     IF m = l THEN Place("done", at[s][l].item)
                     ELSE IF l = Awaited THEN Place("looking", 1)
                     ELSE @[m]]]
    /\ UNCHANGED row

\* The process dies, or a query fails for any other reason.
ServerDies(s) ==
    /\ ~ Idle(s)
    /\ at' = [at EXCEPT ![s] =
                 [l \in Lists |->
                     IF @[l].step \in {"off", "done", "refused"} THEN @[l]
                     ELSE Place("dead", @[l].item)]]
    /\ UNCHANGED row

\* Mutated: the probe asks whether the process is alive.
ProbeOfLife(s) ==
    /\ Dead(s)
    /\ at' = [at EXCEPT ![s] = Beginning]
    /\ UNCHANGED row

\* The startup probe asks whether the server is ready, and replaces one whose boot
\* failed, as one that died.
ProbeRestarts(s) ==
    /\ Dead(s) \/ at[s][Awaited].step = "refused"
    /\ at' = [at EXCEPT ![s] = Beginning]
    /\ UNCHANGED row

SeedStep(s, l) == LookItem(s, l) \/ SaveItem(s, l) \/ EndList(s, l)

SeedsNext ==
    \E s \in Boots :
        \/ StartServer(s) \/ ServerDies(s) \/ ProbeRestarts(s)
        \/ \E l \in Lists : SeedStep(s, l)

SeedsSpec == SeedsInit /\ [][SeedsNext]_seedVars

\* A server goes on with what it began, and the probe does not forget it.
SeedsFairness ==
    \A s \in Boots :
        /\ WF_seedVars(\E l \in Lists : SeedStep(s, l))
        /\ WF_seedVars(ProbeRestarts(s))

SeedsFairSpec == SeedsSpec /\ SeedsFairness

-----------------------------------------------------------------------------
(* Properties *)

\* Every variable has its type.
SeedsTypeOK ==
    /\ row \in [Items -> {"absent", "old", "current"}]
    /\ at \in [Boots -> [Lists -> [step : SeedSteps, item : Positions]]]

\* A server that is refused has always been overtaken by another: when nobody is
\* at a list any more, whoever began it, some server wrote it to its end and all
\* of it is what the catalogue says.
SomebodySeeds ==
    \A l \in Lists :
        /\ \E s \in Boots : ~ Idle(s)
        /\ \A s \in Boots : Idle(s) \/ at[s][l].step \in {"done", "refused"}
        => /\ \E s \in Boots : at[s][l].step = "done"
           /\ \A i \in 1 .. Size[l] : row[<<l, i>>] = "current"

\* A server whose boot was refused by another's comes up in the end, unless one
\* dies.
EveryServerComesUp ==
    \A s \in Boots :
        at[s][Awaited].step = "looking" ~>
            at[s][Awaited].step = "done" \/ \E t \in Boots : Dead(t)

=============================================================================
