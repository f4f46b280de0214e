--------------------- MODULE AnalysisTransaction_proofs ---------------------
(***************************************************************************)
(* For any number of attempts and any lease: analyses are confirmed in the *)
(* order in which their attempts took the claim, and each one replaces the *)
(* version it says it replaces.                                            *)
(*                                                                         *)
(* Neither is inductive alone.  What carries both is the fence: the token  *)
(* in the row belongs to the attempt that took the claim last (Fence), and *)
(* while it has not confirmed, every version is older than its turn and    *)
(* the latest is still the one it read (Pending).                          *)
(*                                                                         *)
(* For any number of attempts and of readers and any lease: the            *)
(* transaction that confirms an analysis implements the single step of     *)
(* AnalysisClaim, so what is proved there of the claims and the versions   *)
(* holds of it.                                                            *)
(*                                                                         *)
(* Commit asks for the row lock and not for the claim.  What makes it a    *)
(* Confirm is LockIsFenced: nobody can take the claim from the attempt     *)
(* that has the row.                                                       *)
(***************************************************************************)
EXTENDS AnalysisTransaction, TLAPS

-----------------------------------------------------------------------------
(* The claim *)

Confirmers == {"committed", "releasing", "done", "dead"}

\* The holder is the last one that took the claim.
Fence ==
    /\ \A a \in Attempts : turn[a] <= taken
    /\ claim.token # None => turn[claim.token] = taken

\* A version belongs to an attempt that is past its confirmation.
Past == \A i \in 1..Len(versions) : pc[versions[i].by] \in Confirmers

\* The holder has not confirmed yet: it is newer than all the versions.
Pending ==
    \A a \in Attempts :
        claim.token = a /\ pc[a] \in {"claimed", "running"} =>
            /\ \A i \in 1..Len(versions) : turn[versions[i].by] < turn[a]
            /\ pc[a] = "running" => previous[a] = Len(versions)

IInv == TypeOK /\ Fence /\ Past /\ Pending /\ ConfirmedInOrder /\ ReplacesTheLatest

\* The initial state satisfies the inductive invariant: nobody has taken the
\* claim of a situation that was just registered.
LEMMA InitInv == Init => IInv
  BY ClaimAssumption
  DEF Init, IInv, TypeOK, Fence, Past, Pending, ConfirmedInOrder, ReplacesTheLatest,
      Free, Steps, EventTypes

\* Every variable keeps its type across the steps of the orchestrator.
LEMMA TypeStep == TypeOK /\ [Next]_vars => TypeOK'
<1> SUFFICES ASSUME TypeOK, [Next]_vars PROVE TypeOK'
  OBVIOUS
<1> USE ClaimAssumption DEF TypeOK, Steps, EventTypes, Goto, history
<1>1. CASE Tick
  <2>1. claim.ttl \in 0..Lease /\ claim.ttl > 0 /\ claim.token \in Attempts \cup {None}
    BY <1>1 DEF Tick
  <2>2. claim.ttl - 1 \in 0..Lease
    BY <2>1
  <2>3. claim' = [token |-> claim.token, ttl |-> claim.ttl - 1]
    BY <1>1 DEF Tick
  <2> QED BY <1>1, <2>1, <2>2, <2>3 DEF Tick
<1>2. ASSUME NEW a \in Attempts, Claim(a) PROVE TypeOK'
  BY <1>2 DEF Claim, Claimable
<1>3. ASSUME NEW a \in Attempts, Work(a) PROVE TypeOK'
  <2>1. CASE Begin(a)
    <3>1. Len(versions) \in Nat
      OBVIOUS
    <3> QED BY <2>1, <3>1 DEF Begin
  <2>2. CASE FailsUnrecorded(a)
    BY <2>2 DEF FailsUnrecorded
  <2>3. CASE Confirm(a)
    <3>1. versions' \in Seq(Version)
      BY <2>3 DEF Confirm, Version
    <3> QED BY <2>3, <3>1 DEF Confirm
  <2>4. CASE LoseClaim(a)
    BY <2>4 DEF LoseClaim
  <2>5. CASE Fail(a)
    BY <2>5 DEF Fail
  <2>6. CASE Answer(a)
    BY <2>6 DEF Answer
  <2>7. CASE Release(a)
    BY <2>7 DEF Release, Free
  <2> QED BY <1>3, <2>1, <2>2, <2>3, <2>4, <2>5, <2>6, <2>7 DEF Work
<1>4. ASSUME NEW a \in Attempts, Crash(a) PROVE TypeOK'
  BY <1>4 DEF Crash
<1>5. CASE UNCHANGED vars
  BY <1>5 DEF vars
<1> QED BY <1>1, <1>2, <1>3, <1>4, <1>5 DEF Next



\* Versions name their attempts.
LEMMA VersionTypes ==
    ASSUME TypeOK
    PROVE  /\ Len(versions) \in Nat
           /\ \A i \in 1..Len(versions) : versions[i].by \in Attempts
<1>1. versions \in Seq(Version)
  BY DEF TypeOK
<1>2. \A i \in 1..Len(versions) : versions[i] \in Version
  BY <1>1
<1> QED BY <1>1, <1>2 DEF Version

\* What a confirmation leaves in the list of versions.
LEMMA AppendedVersion ==
    ASSUME TypeOK, NEW a \in Attempts, NEW n \in Nat,
           versions' = Append(versions, [by |-> a, replaced |-> n])
    PROVE  /\ Len(versions') = Len(versions) + 1
           /\ \A i \in 1..Len(versions) : versions'[i] = versions[i]
           /\ versions'[Len(versions) + 1] = [by |-> a, replaced |-> n]
<1>1. versions \in Seq(Version) /\ [by |-> a, replaced |-> n] \in Version
  BY DEF TypeOK, Version
<1> QED BY <1>1

\* Taking the claim: only a request that still waits does it, and no version
\* is its own, so its turn is the newest.
LEMMA ClaimStep == ASSUME IInv, TypeOK', NEW a \in Attempts, Claim(a) PROVE IInv'
<1> USE ClaimAssumption DEF IInv
<1>1. /\ claim' = [token |-> a, ttl |-> Lease]
      /\ taken' = taken + 1
      /\ turn' = [turn EXCEPT ![a] = taken + 1]
      /\ pc[a] = "waiting"
      /\ pc' = [pc EXCEPT ![a] = "claimed"]
      /\ UNCHANGED <<previous, versions>>
  BY DEF Claim, Goto
<1>2. \A i \in 1..Len(versions) :
          /\ versions[i].by \in Attempts
          /\ versions[i].by # a
          /\ pc'[versions[i].by] = pc[versions[i].by]
          /\ turn'[versions[i].by] = turn[versions[i].by]
          /\ turn[versions[i].by] \in Nat
          /\ turn[versions[i].by] <= taken
  BY <1>1, VersionTypes DEF TypeOK, Past, Fence, Confirmers
<1>3. taken \in Nat /\ turn'[a] = taken + 1
  BY <1>1 DEF TypeOK
<1>4. Fence'
  BY <1>1, <1>3 DEF TypeOK, Fence
<1>5. Past'
  BY <1>1, <1>2 DEF Past
<1>6. Pending'
  <2>1. \A b \in Attempts : claim'.token = b => b = a
    BY <1>1
  <2>2. pc'[a] = "claimed"
    BY <1>1 DEF TypeOK
  <2>3. \A i \in 1..Len(versions') : turn'[versions'[i].by] < turn'[a]
    BY <1>1, <1>2, <1>3
  <2> QED BY <2>1, <2>2, <2>3 DEF Pending
<1>7. ConfirmedInOrder'
  BY <1>1, <1>2 DEF ConfirmedInOrder
<1>8. ReplacesTheLatest'
  BY <1>1 DEF ReplacesTheLatest
<1> QED BY <1>4, <1>5, <1>6, <1>7, <1>8

\* Confirming: the fence makes the new version the newest, and the one it read
\* still the latest.
LEMMA ConfirmStep == ASSUME IInv, TypeOK', NEW a \in Attempts, Confirm(a) PROVE IInv'
<1> USE ClaimAssumption DEF IInv
<1> DEFINE n == Len(versions)
<1>1. /\ pc[a] = "running"
      /\ claim.token = a
      /\ versions' = Append(versions, [by |-> a, replaced |-> previous[a]])
      /\ pc' = [pc EXCEPT ![a] = "committed"]
      /\ UNCHANGED <<claim, previous, taken, turn>>
  BY DEF Confirm, Goto, Holds, history
<1>2. previous[a] \in Nat
  BY DEF TypeOK
<1>3. /\ Len(versions') = n + 1
      /\ \A i \in 1..n : versions'[i] = versions[i] /\ versions[i].by \in Attempts
      /\ versions'[n + 1] = [by |-> a, replaced |-> previous[a]]
      /\ n \in Nat
  BY <1>1, <1>2, AppendedVersion, VersionTypes
<1>4. previous[a] = n /\ \A i \in 1..n : turn[versions[i].by] < turn[a]
  BY <1>1 DEF Pending
<1>5. \A b \in Attempts : pc'[b] = IF b = a THEN "committed" ELSE pc[b]
  BY <1>1 DEF TypeOK
<1>6. Fence'
  BY <1>1 DEF Fence
<1>7. Past'
  <2> SUFFICES ASSUME NEW i \in 1..(n + 1) PROVE pc'[versions'[i].by] \in Confirmers
    BY <1>3 DEF Past
  <2>1. CASE i = n + 1
    BY <2>1, <1>3, <1>5 DEF Confirmers
  <2>2. CASE i \in 1..n
    BY <2>2, <1>3, <1>5 DEF Past, Confirmers
  <2> QED BY <2>1, <2>2, <1>3
<1>8. Pending'
  BY <1>1, <1>5 DEF Pending
<1>9. ConfirmedInOrder'
  <2> SUFFICES ASSUME NEW i \in 1..(n + 1), NEW j \in 1..(n + 1), i < j
               PROVE  turn[versions'[i].by] < turn[versions'[j].by]
    BY <1>1, <1>3 DEF ConfirmedInOrder
  <2>1. i \in 1..n
    BY <1>3
  <2>2. CASE j = n + 1
    BY <2>1, <2>2, <1>3, <1>4
  <2>3. CASE j \in 1..n
    BY <2>1, <2>3, <1>3 DEF ConfirmedInOrder
  <2> QED BY <2>2, <2>3, <1>3
<1>10. ReplacesTheLatest'
  <2> SUFFICES ASSUME NEW i \in 1..(n + 1) PROVE versions'[i].replaced = i - 1
    BY <1>3 DEF ReplacesTheLatest
  <2>1. CASE i = n + 1
    BY <2>1, <1>3, <1>4
  <2>2. CASE i \in 1..n
    BY <2>2, <1>3 DEF ReplacesTheLatest
  <2> QED BY <2>1, <2>2, <1>3
<1> QED BY <1>6, <1>7, <1>8, <1>9, <1>10

\* A step of one attempt that touches neither the versions nor the turns: the
\* token stays or is dropped, and the attempt does not go back.
LEMMA QuietStep ==
    ASSUME IInv, TypeOK', NEW a \in Attempts, NEW step \in Steps \ {"claimed", "waiting"},
           pc' = [pc EXCEPT ![a] = step],
           claim'.token \in {claim.token, None},
           UNCHANGED <<versions, history>>,
           step \notin Confirmers => pc[a] \notin Confirmers,
           \A b \in Attempts \ {a} : previous'[b] = previous[b],
           step = "running" => previous'[a] = Len(versions) /\ pc[a] = "claimed"
    PROVE  IInv'
<1> USE ClaimAssumption DEF IInv
<1>1. \A b \in Attempts : pc'[b] = IF b = a THEN step ELSE pc[b]
  BY DEF TypeOK
<1>2. taken' = taken /\ turn' = turn
  BY DEF history
<1>3. \A i \in 1..Len(versions) : versions[i].by \in Attempts
  BY VersionTypes
<1>4. Fence'
  BY <1>2 DEF Fence
<1>5. Past'
  BY <1>1, <1>3 DEF Past, Confirmers
<1>6. Pending'
  BY <1>1, <1>2 DEF Pending, Steps
<1>7. ConfirmedInOrder' /\ ReplacesTheLatest'
  BY <1>2 DEF ConfirmedInOrder, ReplacesTheLatest
<1> QED BY <1>4, <1>5, <1>6, <1>7

\* The inductive invariant is preserved by every step.
LEMMA NextInv == IInv /\ [Next]_vars => IInv'
<1> SUFFICES ASSUME IInv, [Next]_vars PROVE IInv'
  OBVIOUS
<1>0. TypeOK /\ TypeOK'
  BY TypeStep DEF IInv
<1>1. CASE Tick
  <2>1. claim'.token = claim.token
    BY <1>1, <1>0 DEF Tick, TypeOK
  <2> QED BY <1>1, <1>0, <2>1
       DEF IInv, Tick, Fence, Past, Pending, ConfirmedInOrder, ReplacesTheLatest, history
<1>2. ASSUME NEW a \in Attempts, Claim(a) PROVE IInv'
  BY <1>2, <1>0, ClaimStep
<1>3. ASSUME NEW a \in Attempts, Work(a) PROVE IInv'
  <2>1. CASE Begin(a)
    <3>1. /\ pc[a] = "claimed" /\ pc' = [pc EXCEPT ![a] = "running"]
          /\ claim' = claim
          /\ UNCHANGED <<versions, history>>
          /\ previous' = [previous EXCEPT ![a] = Len(versions)]
      BY <2>1 DEF Begin, Goto
    <3>2. previous'[a] = Len(versions) /\ \A b \in Attempts \ {a} : previous'[b] = previous[b]
      BY <3>1, <1>0 DEF TypeOK
    <3> QED BY <3>1, <3>2, <1>0, QuietStep DEF Steps, Confirmers
  <2>2. CASE FailsUnrecorded(a)
    BY <2>2, <1>0, QuietStep DEF FailsUnrecorded, Goto, Steps, Confirmers
  <2>3. CASE Confirm(a)
    BY <2>3, <1>0, ConfirmStep
  <2>4. CASE LoseClaim(a)
    BY <2>4, <1>0, QuietStep DEF LoseClaim, Goto, Steps, Confirmers
  <2>5. CASE Fail(a)
    BY <2>5, <1>0, QuietStep DEF Fail, Goto, Steps, Confirmers
  <2>6. CASE Answer(a)
    BY <2>6, <1>0, QuietStep DEF Answer, Goto, Steps, Confirmers
  <2>7. CASE Release(a)
    <3>1. claim'.token \in {claim.token, None}
      BY <2>7 DEF Release, Free
    <3> QED BY <2>7, <3>1, <1>0, QuietStep DEF Release, Goto, Steps, Confirmers
  <2> QED BY <1>3, <2>1, <2>2, <2>3, <2>4, <2>5, <2>6, <2>7 DEF Work
<1>4. ASSUME NEW a \in Attempts, Crash(a) PROVE IInv'
  BY <1>4, <1>0, QuietStep DEF Crash, Goto, Steps, Confirmers
<1>5. CASE UNCHANGED vars
  BY <1>5 DEF vars, history, IInv, TypeOK, Fence, Past, Pending, ConfirmedInOrder,
              ReplacesTheLatest
<1> QED BY <1>1, <1>2, <1>3, <1>4, <1>5 DEF Next

\* The invariant holds always.
LEMMA Invariance == Spec => []IInv
  BY InitInv, NextInv, PTL DEF Spec

\* Every variable keeps its type.
THEOREM TypeCorrect == Spec => []TypeOK
<1>1. IInv => TypeOK
  BY DEF IInv
<1> QED BY <1>1, Invariance, PTL

\* An attempt whose expired claim was taken over never overwrites the analysis
\* of a newer one (assertClaimHeld).
THEOREM ClaimOrder == Spec => []ConfirmedInOrder
<1>1. IInv => ConfirmedInOrder
  BY DEF IInv
<1> QED BY <1>1, Invariance, PTL

\* The version read before the provider is called is still the latest when the
\* analysis that announces to replace it is confirmed (runClaimedAnalysis).
THEOREM ReplacementIsExact == Spec => []ReplacesTheLatest
<1>1. IInv => ReplacesTheLatest
  BY DEF IInv
<1> QED BY <1>1, Invariance, PTL

\* Only a confirmation writes the entries of a version, and it reads as many
\* versions as its attempt did when it began.
LEMMA AnnouncedStep ==
    ASSUME IInv, IInv', VersionsAreAnnounced, [Next]_vars
    PROVE  VersionsAreAnnounced'
<1> USE DEF EventTypes
<1>0. timeline \in [EventTypes -> Nat] /\ versions \in Seq(Version)
  BY DEF IInv, TypeOK
<1>1. CASE UNCHANGED <<versions, timeline>>
  BY <1>1 DEF VersionsAreAnnounced
<1>2. CASE /\ versions' = versions
           /\ \E e \in {"AI_ANALYSIS_STARTED", "AI_ANALYSIS_FAILED"} :
                 timeline' = [timeline EXCEPT ![e] = @ + 1]
  BY <1>0, <1>2 DEF VersionsAreAnnounced
<1>3. ASSUME NEW a \in Attempts, Confirm(a) PROVE VersionsAreAnnounced'
  <2>1. previous[a] = Len(versions) /\ previous[a] \in Nat
    BY <1>3 DEF Confirm, Holds, IInv, TypeOK, Pending
  <2>2. Len(versions') = Len(versions) + 1 /\ versions' # << >>
    BY <1>3, <2>1, AppendedVersion DEF Confirm, IInv
  <2>3. timeline' = [timeline EXCEPT
            !["AI_ANALYSIS_VERSION_CREATED"] = @ + 1,
            !["AI_REANALYZED"] = IF previous[a] > 0 THEN @ + 1 ELSE @]
    BY <1>3 DEF Confirm
  <2>4. /\ timeline'["AI_ANALYSIS_VERSION_CREATED"] = Len(versions) + 1
        /\ timeline'["AI_REANALYZED"] =
               IF Len(versions) > 0 THEN timeline["AI_REANALYZED"] + 1
               ELSE timeline["AI_REANALYZED"]
    BY <1>0, <2>1, <2>3 DEF VersionsAreAnnounced
  <2>5. versions = << >> <=> Len(versions) = 0
    BY <1>0
  <2> QED BY <2>1, <2>2, <2>4, <2>5 DEF VersionsAreAnnounced
<1>4. ASSUME NEW a \in Attempts, Claim(a) \/ Work(a) \/ Crash(a) PROVE VersionsAreAnnounced'
  BY <1>1, <1>2, <1>3, <1>4
     DEF Claim, Work, Crash, Begin, FailsUnrecorded, LoseClaim, Fail, Answer, Release
<1> QED BY <1>1, <1>4 DEF Next, Tick, vars

\* Every version has its entry, and every one but the first is told as a
\* reanalysis (runClaimedAnalysis).
THEOREM VersionsAreTold == Spec => []VersionsAreAnnounced
<1>1. Init => VersionsAreAnnounced
  BY DEF Init, VersionsAreAnnounced, EventTypes
<1>2. IInv /\ IInv' /\ VersionsAreAnnounced /\ [Next]_vars => VersionsAreAnnounced'
  BY AnnouncedStep
<1> QED BY <1>1, <1>2, Invariance, PTL DEF Spec

\* A claim that has not expired ends by the hand of its holder alone, however
\* late an attempt that lost it comes to its finally block (releaseAnalysisClaim).
THEOREM ClaimIsSafe == Spec => LiveClaimIsSafe
<1> DEFINE Safe == claim.token # None /\ claim.ttl > 0 /\ claim'.token # claim.token
                     => pc[claim.token] = "releasing"
<1>1. TypeOK /\ [Next]_vars => Safe
  <2> SUFFICES ASSUME TypeOK, [Next]_vars, claim.ttl > 0, claim'.token # claim.token
               PROVE  pc[claim.token] = "releasing"
    OBVIOUS
  <2>1. ~ Tick /\ ~ UNCHANGED vars
    BY DEF Tick, TypeOK, vars
  <2>2. PICK a \in Attempts : Claim(a) \/ Work(a) \/ Crash(a)
    BY <2>1 DEF Next
  <2>3. Release(a)
    BY <2>2 DEF Claim, Claimable, Work, Crash, Begin, FailsUnrecorded, Confirm, LoseClaim,
                Fail, Answer
  <2> QED BY <2>3 DEF Release, Holds
<1>2. IInv => TypeOK
  BY DEF IInv
<1>3. IInv /\ [Next]_vars => [Safe]_vars
  BY <1>1, <1>2
<1> QED BY <1>3, Invariance, PTL DEF Spec, LiveClaimIsSafe

-----------------------------------------------------------------------------
(* The transaction that confirms, and the answers *)

\* Who has the row is confirming, under the claim, or died at it.
LockIsFenced ==
    lock # None =>
        /\ lock \in Attempts
        /\ pc[lock] \in {"running", "dead"}
        /\ pc[lock] = "running" => Holds(lock)

\* Every step of the transactions is a step of AnalysisClaim or changes nothing
\* of it.
LEMMA TxStepImplements ==
  ASSUME TypeOK, LockIsFenced, [TxNext]_txVars
  PROVE  [Next]_vars
<1>1. CASE TxTick
  BY <1>1 DEF TxTick, Next
<1>2. ASSUME NEW a \in Attempts, TxClaim(a) PROVE [Next]_vars
  BY <1>2 DEF TxClaim, Next
<1>3. ASSUME NEW a \in Attempts, TxCrash(a) PROVE [Next]_vars
  BY <1>3 DEF TxCrash, Next
<1>4. ASSUME NEW a \in Attempts, TxStep(a) PROVE [Next]_vars
  <2>1. CASE LockClaim(a) \/ DraftVersion(a) \/ NoticeDeath(a)
    BY <2>1 DEF LockClaim, DraftVersion, NoticeDeath
  <2>2. CASE Commit(a)
    <3>1. Holds(a)
      BY <2>2, ClaimAssumption DEF Commit, LockIsFenced
    <3>2. Confirm(a)
      BY <2>2, <3>1 DEF Commit, Confirm
    <3> QED BY <3>2 DEF Work, Next
  <2>3. CASE AnswerWithImpact(a)
    BY <2>3 DEF AnswerWithImpact, Work, Next
  <2>4. CASE Begin(a) \/ LoseClaim(a) \/ Release(a)
    BY <2>4 DEF Work, Next
  <2>5. CASE Fail(a) \/ FailsUnrecorded(a)
    BY <2>5 DEF Work, Next
  <2> QED BY <1>4, <2>1, <2>2, <2>3, <2>4, <2>5 DEF TxStep
<1>5. ASSUME NEW r \in Readers, ReadRecord(r) \/ ReadLatest(r) PROVE [Next]_vars
  BY <1>5 DEF ReadRecord, ReadLatest
<1>6. CASE UNCHANGED txVars
  BY <1>6 DEF txVars
<1> QED BY <1>1, <1>2, <1>3, <1>4, <1>5, <1>6 DEF TxNext

\* The claim stays with the attempt that has the row, whatever the others do.
LEMMA LockStep ==
  ASSUME TypeOK, LockIsFenced, [TxNext]_txVars
  PROVE  LockIsFenced'
<1> USE ClaimAssumption DEF LockIsFenced, TypeOK, Holds, Goto
<1>1. CASE TxTick
  BY <1>1 DEF TxTick, Tick
<1>2. ASSUME NEW a \in Attempts, TxClaim(a) PROVE LockIsFenced'
  BY <1>2 DEF TxClaim, RowIsFree
<1>3. ASSUME NEW a \in Attempts, TxCrash(a) PROVE LockIsFenced'
  BY <1>3 DEF TxCrash, Crash
<1>4. ASSUME NEW a \in Attempts, TxStep(a) PROVE LockIsFenced'
  <2>1. CASE LockClaim(a)
    BY <2>1 DEF LockClaim, vars
  <2>2. CASE DraftVersion(a)
    BY <2>2 DEF DraftVersion, vars
  <2>3. CASE NoticeDeath(a)
    BY <2>3 DEF NoticeDeath, Leave
  <2>4. CASE Commit(a)
    BY <2>4 DEF Commit, Leave
  <2>5. CASE AnswerWithImpact(a)
    BY <2>5 DEF AnswerWithImpact, Answer
  <2>6. CASE Begin(a) /\ UNCHANGED lock
    BY <2>6 DEF Begin
  <2>7. CASE LoseClaim(a) /\ UNCHANGED lock
    BY <2>7 DEF LoseClaim
  <2>8. CASE Release(a) /\ UNCHANGED lock
    BY <2>8 DEF Release
  <2>9. CASE (Fail(a) \/ FailsUnrecorded(a)) /\ Leave(a)
    BY <2>9 DEF Fail, FailsUnrecorded, Leave
  <2> QED BY <1>4, <2>1, <2>2, <2>3, <2>4, <2>5, <2>6, <2>7, <2>8, <2>9 DEF TxStep
<1>5. ASSUME NEW r \in Readers, ReadRecord(r) \/ ReadLatest(r) PROVE LockIsFenced'
  BY <1>5 DEF ReadRecord, ReadLatest, vars
<1>6. CASE UNCHANGED txVars
  BY <1>6 DEF txVars, vars
<1> QED BY <1>1, <1>2, <1>3, <1>4, <1>5, <1>6 DEF TxNext

\* The initial state, and every step, keep the two together.
LEMMA TxInvariant == TxSpec => [](TypeOK /\ LockIsFenced)
<1>1. TxInit => TypeOK /\ LockIsFenced
  BY InitInv DEF TxInit, IInv, LockIsFenced
<1>2. TypeOK /\ LockIsFenced /\ [TxNext]_txVars => (TypeOK /\ LockIsFenced)'
  BY TxStepImplements, TypeStep, LockStep
<1> QED BY <1>1, <1>2, PTL DEF TxSpec

\* The row lock makes the confirmation one step: every behaviour of the
\* transactions is one of AnalysisClaim.
THEOREM TransactionsImplementClaim == TxSpec => ImplementsClaim
<1>1. TxInit => Init
  BY DEF TxInit
<1>2. TypeOK /\ LockIsFenced /\ [TxNext]_txVars => [Next]_vars
  BY TxStepImplements
<1> QED BY <1>1, <1>2, TxInvariant, PTL DEF TxSpec, ImplementsClaim, Spec

-----------------------------------------------------------------------------
(* What is answered *)

\* The current impact is that of the latest version.
CurrentIsLatest ==
    current = IF versions = << >> THEN None ELSE versions[Len(versions)].by

\* Who confirmed and has the claim still, confirmed the latest version.
HolderIsLatest ==
    \A a \in Attempts :
        pc[a] = "committed" /\ Holds(a) =>
            versions # << >> /\ versions[Len(versions)].by = a

\* What a reader got is the version that was the latest then.
ReadersSaw ==
    \A r \in Readers :
        reading[r].pc # "new" =>
            /\ reading[r].seen \in 1 .. Len(versions)
            /\ versions[reading[r].seen].by = reading[r].analysis

OwnImpact == \A a \in Attempts : answered[a].held => answered[a].impact = a

AnswerInv ==
    TxTypeOK /\ CurrentIsLatest /\ HolderIsLatest /\ ReadersSaw /\ OwnImpact

\* So, statement by statement, late answers never overwrite newer ones, and each
\* version replaces the one it says.
THEOREM TransactionsAreOrdered == TxSpec => [](ConfirmedInOrder /\ ReplacesTheLatest)
  BY TransactionsImplementClaim, ClaimOrder, ReplacementIsExact, PTL DEF ImplementsClaim

\* Nothing has been confirmed, read or answered yet.
LEMMA AnswerInit == TxInit => AnswerInv
  BY ClaimAssumption
  DEF TxInit, Init, AnswerInv, TxTypeOK, CurrentIsLatest, HolderIsLatest, ReadersSaw,
      OwnImpact, NotRead, Free

\* A step that writes no version, no impact and no answer, and moves nobody to
\* the commit nor gives the claim to who is past it.
Quiet ==
    /\ versions' = versions /\ current' = current
    /\ answered' = answered /\ reading' = reading
    /\ lock' \in Attempts \cup {None} /\ draft' \in Nat
    /\ \A a \in Attempts : pc'[a] = "committed" /\ claim'.token = a =>
           pc[a] = "committed" /\ claim.token = a

\* Such a step leaves what is answered coherent.
LEMMA StaysCoherent ==
  ASSUME AnswerInv, Quiet
  PROVE  AnswerInv'
<1>1. TxTypeOK'
  BY DEF AnswerInv, Quiet, TxTypeOK
<1>2. CurrentIsLatest'
  BY DEF AnswerInv, Quiet, CurrentIsLatest
<1>3. HolderIsLatest'
  BY DEF AnswerInv, Quiet, HolderIsLatest, Holds
<1>4. ReadersSaw' /\ OwnImpact'
  BY DEF AnswerInv, Quiet, ReadersSaw, OwnImpact
<1> QED
  BY <1>1, <1>2, <1>3, <1>4 DEF AnswerInv, Quiet

\* The commit puts its version and its impact in place together.
LEMMA CommitStep ==
  ASSUME TypeOK, AnswerInv, LockIsFenced, NEW a \in Attempts, Commit(a)
  PROVE  AnswerInv'
<1> USE DEF TypeOK, AnswerInv
<1> DEFINE v == [by |-> a, replaced |-> previous[a]]
<1>1. versions' = Append(versions, v) /\ v \in Version /\ versions \in Seq(Version)
  BY DEF Commit, Version
<1>2. /\ Len(versions') = Len(versions) + 1
      /\ versions'[Len(versions')] = v
      /\ \A i \in 1 .. Len(versions) : versions'[i] = versions[i]
      /\ Len(versions) \in Nat
  BY <1>1
<1>3. Holds(a) /\ claim' = claim
  BY ClaimAssumption DEF Commit, LockIsFenced
<1>4. versions' # << >>
  BY <1>2
<1>5. TxTypeOK'
  BY DEF Commit, TxTypeOK, Leave, PersistAnalysis, Replaces
<1>6. CurrentIsLatest'
  BY <1>2, <1>4 DEF CurrentIsLatest, Commit, PersistAnalysis, Replaces
<1>7. HolderIsLatest'
  BY <1>2, <1>3, <1>4 DEF HolderIsLatest, Holds
<1>8. ReadersSaw'
  BY <1>2 DEF ReadersSaw, Commit, TxTypeOK
<1>9. OwnImpact'
  BY DEF OwnImpact, Commit
<1> QED BY <1>5, <1>6, <1>7, <1>8, <1>9

\* What is answered stays coherent across every step.
LEMMA AnswerStep ==
  ASSUME TypeOK, AnswerInv, LockIsFenced, [TxNext]_txVars
  PROVE  AnswerInv'
<1> USE ClaimAssumption DEF Goto
<1>t. lock \in Attempts \cup {None} /\ draft \in Nat /\ pc \in [Attempts -> Steps]
        /\ Len(versions) \in Nat
  BY DEF AnswerInv, TxTypeOK, TypeOK
<1>1. CASE TxTick
  <2>1. Quiet
    BY <1>1, <1>t DEF Quiet, TxTick, Tick, TypeOK
  <2> QED BY <2>1, StaysCoherent
<1>2. ASSUME NEW a \in Attempts, TxClaim(a) PROVE AnswerInv'
  <2>1. Quiet
    BY <1>2, <1>t DEF Quiet, TxClaim, Claim
  <2> QED BY <2>1, StaysCoherent
<1>3. ASSUME NEW a \in Attempts, TxCrash(a) PROVE AnswerInv'
  <2>1. Quiet
    BY <1>3, <1>t DEF Quiet, TxCrash, Crash
  <2> QED BY <2>1, StaysCoherent
<1>4. ASSUME NEW a \in Attempts, TxStep(a) PROVE AnswerInv'
  <2>1. CASE LockClaim(a)
    <3>1. Quiet
      BY <2>1, <1>t DEF Quiet, LockClaim, vars
    <3> QED BY <3>1, StaysCoherent
  <2>2. CASE DraftVersion(a)
    <3>1. Quiet
      BY <2>2, <1>t DEF Quiet, DraftVersion, vars
    <3> QED BY <3>1, StaysCoherent
  <2>3. CASE NoticeDeath(a)
    <3>1. Quiet
      BY <2>3, <1>t DEF Quiet, NoticeDeath, Leave, vars
    <3> QED BY <3>1, StaysCoherent
  <2>4. CASE Commit(a)
    BY <2>4, CommitStep
  <2>5. CASE AnswerWithImpact(a)
    <3>1. UNCHANGED <<claim, versions, current, reading, lock, draft>>
      BY <2>5 DEF AnswerWithImpact, Answer
    <3>2. pc[a] = "committed" /\ pc' = [pc EXCEPT ![a] = "releasing"]
      BY <2>5 DEF AnswerWithImpact, Answer
    <3>3. answered' = [answered EXCEPT ![a] = [impact |-> current, held |-> Holds(a)]]
      BY <2>5 DEF AnswerWithImpact
    <3>4. Holds(a) => current = a
      BY <3>2 DEF AnswerInv, CurrentIsLatest, HolderIsLatest
    <3>5. Holds(a) \in BOOLEAN /\ current \in Attempts \cup {None}
      BY DEF Holds, AnswerInv, TxTypeOK
    <3>6. answered' \in [Attempts -> [impact : Attempts \cup {None}, held : BOOLEAN]]
      BY <3>3, <3>5 DEF AnswerInv, TxTypeOK
    <3>7. TxTypeOK'
      BY <3>1, <3>6 DEF AnswerInv, TxTypeOK
    <3>8. OwnImpact'
      BY <3>3, <3>4 DEF AnswerInv, OwnImpact, TxTypeOK
    <3>9. HolderIsLatest'
      BY <3>1, <3>2, <1>t DEF AnswerInv, HolderIsLatest, Holds
    <3> QED BY <3>1, <3>7, <3>8, <3>9 DEF AnswerInv, CurrentIsLatest, ReadersSaw
  <2>6. CASE Begin(a) /\ UNCHANGED <<lock, draft, current, answered, reading>>
    <3>1. Quiet
      BY <2>6, <1>t DEF Quiet, Begin
    <3> QED BY <3>1, StaysCoherent
  <2>7. CASE LoseClaim(a) /\ UNCHANGED <<lock, draft, current, answered, reading>>
    <3>1. Quiet
      BY <2>7, <1>t DEF Quiet, LoseClaim
    <3> QED BY <3>1, StaysCoherent
  <2>8. CASE Release(a) /\ UNCHANGED <<lock, draft, current, answered, reading>>
    <3>1. Quiet
      BY <2>8, <1>t DEF Quiet, Release, Free
    <3> QED BY <3>1, StaysCoherent
  <2>9. CASE Fail(a) /\ Leave(a) /\ UNCHANGED <<current, answered, reading>>
    <3>1. Quiet
      BY <2>9, <1>t DEF Quiet, Fail, Leave
    <3> QED BY <3>1, StaysCoherent
  <2>10. CASE FailsUnrecorded(a) /\ Leave(a) /\ UNCHANGED <<current, answered, reading>>
    <3>1. Quiet
      BY <2>10, <1>t DEF Quiet, FailsUnrecorded, Leave
    <3> QED BY <3>1, StaysCoherent
  <2> QED BY <1>4, <2>1, <2>2, <2>3, <2>4, <2>5, <2>6, <2>7, <2>8, <2>9, <2>10 DEF TxStep
<1>5. ASSUME NEW r \in Readers, ReadRecord(r) PROVE AnswerInv'
  <2>1. UNCHANGED <<vars, lock, draft, current, answered>> /\ current # None
    BY <1>5 DEF ReadRecord
  <2>2. reading' = [reading EXCEPT ![r] =
           [pc |-> "read", analysis |-> current, version |-> 0, seen |-> Len(versions)]]
    BY <1>5 DEF ReadRecord
  <2>3. Len(versions) \in 1 .. Len(versions) /\ versions[Len(versions)].by = current
    BY <2>1, <1>t DEF AnswerInv, CurrentIsLatest, TypeOK
  <2>4. TxTypeOK'
    BY <2>1, <2>2, <1>t DEF AnswerInv, TxTypeOK
  <2>5. ReadersSaw'
    BY <2>1, <2>2, <2>3 DEF AnswerInv, TxTypeOK, ReadersSaw, vars
  <2> QED BY <2>1, <2>4, <2>5 DEF AnswerInv, vars, CurrentIsLatest, HolderIsLatest,
                                  OwnImpact, Holds
<1>6. ASSUME NEW r \in Readers, ReadLatest(r) PROVE AnswerInv'
  <2>1. UNCHANGED <<vars, lock, draft, current, answered>>
    BY <1>6 DEF ReadLatest
  <2>2. /\ reading[r].pc = "read"
        /\ reading' = [reading EXCEPT ![r] =
               [pc |-> "told", analysis |-> reading[r].analysis, version |-> Len(versions),
                seen |-> reading[r].seen]]
    BY <1>6 DEF ReadLatest
  <2>3. TxTypeOK'
    BY <2>1, <2>2, <1>t DEF AnswerInv, TxTypeOK
  <2>4. ReadersSaw'
    BY <2>1, <2>2 DEF AnswerInv, TxTypeOK, ReadersSaw, vars
  <2> QED BY <2>1, <2>3, <2>4 DEF AnswerInv, vars, CurrentIsLatest, HolderIsLatest,
                                  OwnImpact, Holds
<1>7. CASE UNCHANGED txVars
  <2>1. Quiet
    BY <1>7, <1>t DEF Quiet, txVars, vars
  <2> QED BY <2>1, StaysCoherent
<1> QED BY <1>1, <1>2, <1>3, <1>4, <1>5, <1>6, <1>7 DEF TxNext

\* An attempt that has its claim when it answers answers its own impact, and a
\* reader is not told the version of another analysis unless one was confirmed
\* between its reads.
THEOREM CoherentAnswers == TxSpec => []AnswersAreCoherent
<1>1. TypeOK /\ LockIsFenced /\ AnswerInv /\ [TxNext]_txVars => AnswerInv'
  BY AnswerStep
<1>2. AnswerInv => AnswersAreCoherent
  BY DEF AnswerInv, OwnImpact, ReadersSaw, AnswersAreCoherent
<1> QED BY <1>1, <1>2, AnswerInit, TxInvariant, PTL DEF TxSpec

=============================================================================
