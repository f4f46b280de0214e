------------------------- MODULE AnalysisUnderPatch -------------------------
(***************************************************************************)
(* The claim of AnalysisClaim lives in two columns of the situation, and   *)
(* PATCH /situations/:id (SituationsService.update,                        *)
(* src/src/situations/situations.service.ts) saves that row whole.  Like   *)
(* every repository.save of the program it is three steps: the request     *)
(* loads the entity; save() reads the row again and notes the columns in   *)
(* which the entity differs; it writes those columns of the entity.        *)
(*                                                                         *)
(* A PATCH never edits the claim.  Only its two columns are kept here; the *)
(* rest of the row is in SituationLifecycle.                               *)
(***************************************************************************)
EXTENDS AnalysisClaim

CONSTANT Patches

VARIABLE patch   \* where each PATCH is, the claim it loaded, what it will write

patchVars == <<vars, patch>>

ClaimColumns == {"token", "ttl"}

PatchInit ==
    /\ Init
    /\ patch = [p \in Patches |-> [pc |-> "new", entity |-> Free, changed |-> {}]]

LoadClaim(p) ==
    /\ patch[p].pc = "new"
    /\ patch' = [patch EXCEPT ![p].pc = "loaded", ![p].entity = claim]
    /\ UNCHANGED vars

SelectClaim(p) ==
    /\ patch[p].pc = "loaded"
    /\ patch' = [patch EXCEPT
           ![p].pc = "selected",
           ![p].changed = {f \in ClaimColumns : patch[p].entity[f] # claim[f]}]
    /\ UNCHANGED vars

WriteClaim(p) ==
    /\ patch[p].pc = "selected"
    /\ claim' = [f \in ClaimColumns |->
                    IF f \in patch[p].changed THEN patch[p].entity[f] ELSE claim[f]]
    /\ patch' = [patch EXCEPT ![p].pc = "done"]
    /\ UNCHANGED <<pc, previous, versions, timeline, history>>

\* An expiry is an instant: the copies a PATCH holds come nearer to it too.
Elapsed(c) == [c EXCEPT !.ttl = IF @ > 0 THEN @ - 1 ELSE 0]

PatchTick ==
    /\ claim' = Elapsed(claim)
    /\ patch' = [p \in Patches |-> [patch[p] EXCEPT !.entity = Elapsed(@)]]
    /\ UNCHANGED <<pc, previous, versions, timeline, history>>

PatchNext ==
    \/ PatchTick
    \/ /\ \E a \in Attempts : Claim(a) \/ Work(a) \/ Crash(a)
       /\ UNCHANGED patch
    \/ \E p \in Patches : LoadClaim(p) \/ SelectClaim(p) \/ WriteClaim(p)

PatchSpec == PatchInit /\ [][PatchNext]_patchVars

-----------------------------------------------------------------------------
(* "Confirmacion fenciada: si otro intento tomo el reclamo, este resultado *)
(* no se escribe" (ai-orchestrator.service.ts), and only the attempt whose *)
(* token the row holds may confirm (situation.entity.ts): the versions are *)
(* confirmed in the order in which their attempts took the claim, PATCHes  *)
(* or not.                                                                 *)
FencedUnderPatch == ConfirmedInOrder

=============================================================================
