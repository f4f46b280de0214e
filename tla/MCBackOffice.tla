---------------------------- MODULE MCBackOffice ----------------------------
(***************************************************************************)
(* Six components that share nothing, in one instance for TLC: the         *)
(* catalogues a server writes when it boots, the role-permission matrix,   *)
(* the evidences of a situation, one of its recommendations, the           *)
(* transactions that confirm its analysis and the release that changes the *)
(* schema.  One of them moves in a behaviour; with the others where they   *)
(* began, nothing of theirs is missed.                                     *)
(***************************************************************************)
EXTENDS BootSeeds, RbacSync, EvidenceUploads, RecommendationUpdates, AnalysisTransaction,
        SchemaRelease

CONSTANTS roles, areas, u1, u2, u3, u4, k1

MCSize == [l \in Lists |-> 2]

\* A retried note, raced by its retries, and a file without a key.
MCKeyOf == [u \in Uploads |-> IF u = u4 THEN NoKey ELSE k1]

\* Each role is given one permission, and not those around it.
MCExpected == [r \in Roles |-> IF r = 1 THEN {3} ELSE {2}]

\* The first role begins with any, the second with none, or with all but its own.
MCGranted == {{}, {1, 3}}

SeedsIdle ==
    /\ \A s \in Boots : Idle(s)
    /\ \A i \in Items : row[i] = "absent"
RbacIdle ==
    /\ \A s \in Syncs : phase[s] = "off"
    /\ \A r \in Roles : granted[r] = {}
EvidenceIdle == \A u \in Uploads : upload[u].pc = "new"
AdviceIdle ==
    /\ advice.status = "PENDING" /\ stamp = 1
    /\ \A u \in Updates : update[u].pc = "new"
TxIdle == taken = 0
ReleaseIdle == migrated = 0 /\ situation = [s \in Situations |-> Absent]

BackOfficeInit ==
    /\ SeedsInit
    /\ RbacInit
    /\ EvidenceInit
    /\ AdviceInit
    /\ TxInit
    /\ ReleaseInit
    /\ SeedsIdle \/ RbacIdle
    /\ granted[2] \in MCGranted

SeedsMove ==
    /\ RbacIdle /\ EvidenceIdle /\ AdviceIdle /\ TxIdle /\ ReleaseIdle
    /\ UNCHANGED <<rbacVars, evidenceVars, adviceVars, txVars, releaseVars>>
RbacMoves ==
    /\ SeedsIdle /\ EvidenceIdle /\ AdviceIdle /\ TxIdle /\ ReleaseIdle
    /\ UNCHANGED <<seedVars, evidenceVars, adviceVars, txVars, releaseVars>>
EvidenceMoves ==
    /\ SeedsIdle /\ RbacIdle /\ AdviceIdle /\ TxIdle /\ ReleaseIdle
    /\ UNCHANGED <<seedVars, rbacVars, adviceVars, txVars, releaseVars>>
AdviceMoves ==
    /\ SeedsIdle /\ RbacIdle /\ EvidenceIdle /\ TxIdle /\ ReleaseIdle
    /\ UNCHANGED <<seedVars, rbacVars, evidenceVars, txVars, releaseVars>>
TxMoves ==
    /\ SeedsIdle /\ RbacIdle /\ EvidenceIdle /\ AdviceIdle /\ ReleaseIdle
    /\ UNCHANGED <<seedVars, rbacVars, evidenceVars, adviceVars, releaseVars>>
ReleaseMoves ==
    /\ SeedsIdle /\ RbacIdle /\ EvidenceIdle /\ AdviceIdle /\ TxIdle
    /\ UNCHANGED <<seedVars, rbacVars, evidenceVars, adviceVars, txVars>>

BackOfficeNext ==
    \/ SeedsNext /\ SeedsMove
    \/ RbacNext /\ RbacMoves
    \/ EvidenceNext /\ EvidenceMoves
    \/ AdviceNext /\ AdviceMoves
    \/ TxNext /\ TxMoves
    \/ ReleaseNext /\ ReleaseMoves

\* As RbacFairSpec and SeedsFairSpec.
BackOfficeSpec ==
    /\ BackOfficeInit
    /\ [][BackOfficeNext]_<<seedVars, rbacVars, evidenceVars, adviceVars, txVars, releaseVars>>
    /\ \A s \in Syncs : WF_rbacVars(SyncStep(s) /\ RbacMoves)
    /\ \A s \in Boots :
          /\ WF_seedVars((\E l \in Lists : SeedStep(s, l)) /\ SeedsMove)
          /\ WF_seedVars(ProbeRestarts(s) /\ SeedsMove)

=============================================================================
