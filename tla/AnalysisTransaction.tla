------------------------ MODULE AnalysisTransaction ------------------------
(***************************************************************************)
(* AnalysisClaim in more detail.  The confirmation, one step there, is the *)
(* transaction it is in the code: assertClaimHeld locks the row of the     *)
(* situation, persistAnalysis and createSession write, the commit ends the *)
(* lock (src/src/ai-orchestration/ai-orchestrator.service.ts,              *)
(* src/src/ai-analysis, src/src/ai-analysis-sessions).  What is read of    *)
(* the analysis while others confirm is here too: the impact in the answer *)
(* of the attempt itself, and GET /situations/:id/analysis.                *)
(*                                                                         *)
(* The impact, the current record and the entry AI_ANALYZED are of the     *)
(* same attempt as the latest session, or the transaction wrote nothing:   *)
(* current stands for all of them.                                         *)
(***************************************************************************)
EXTENDS AnalysisClaim

CONSTANT Readers   \* requests of GET /situations/:id/analysis

VARIABLES
    lock,      \* who has the row of the situation FOR UPDATE
    draft,     \* the version that its transaction is to write; 0 for none yet
    current,   \* whose analysis and impact are the current ones
    answered,  \* whose impact each attempt answers, and if the claim was still its own
    reading    \* what each reader got

txVars == <<vars, lock, draft, current, answered, reading>>

NotRead == [pc |-> "new", analysis |-> None, version |-> 0, seen |-> 0]

TxInit ==
    /\ Init
    /\ lock = None
    /\ draft = 0
    /\ current = None
    /\ answered = [a \in Attempts |-> [impact |-> None, held |-> FALSE]]
    /\ reading = [r \in Readers |-> NotRead]

\* Mutated: assertClaimHeld reads the row and does not lock it.
RowIsReadable == TRUE

\* An UPDATE or a SELECT FOR UPDATE waits for the lock of a row it finds: a token
\* that is not in the row finds none, and does not wait.
RowIsFree == lock = None

\* The end of a transaction, whichever; none if the attempt is not in one.
Leave(a) ==
    /\ lock' = IF lock = a THEN None ELSE lock
    /\ draft' = IF lock = a THEN 0 ELSE draft

\* The latest version, read within the transaction, plus one.
DraftVersion(a) ==
    /\ pc[a] = "running"
    /\ lock = a /\ draft = 0
    /\ draft' = Len(versions) + 1
    /\ UNCHANGED <<vars, lock, current, answered, reading>>

\* assertClaimHeld, the claim being ours.
LockClaim(a) ==
    /\ pc[a] = "running"
    /\ RowIsFree /\ Holds(a)
    /\ lock' = a
    /\ UNCHANGED <<vars, draft, current, answered, reading>>

\* Mutated: the record of the first analysis stays the current one.
KeepsTheFirst(a) == IF current = None THEN a ELSE current

\* updateCurrentAnalysisRecord and replaceAssessment.
Replaces(a) == a

\* persistAnalysis, and the record.
PersistAnalysis(a) == current' = Replaces(a)

\* (situation, version) is unique.
Commit(a) ==
    /\ pc[a] = "running"
    /\ lock = a /\ draft = Len(versions) + 1
    /\ versions' = Append(versions, [by |-> a, replaced |-> previous[a]])
    /\ timeline' = [timeline EXCEPT
           !["AI_ANALYSIS_VERSION_CREATED"] = @ + 1,
           !["AI_REANALYZED"] = IF previous[a] > 0 THEN @ + 1 ELSE @]
    /\ Goto(a, "committed")
    /\ PersistAnalysis(a)
    /\ Leave(a)
    /\ UNCHANGED <<claim, previous, history, answered, reading>>

\* Of the three parallel reads that build the answer, the impact: outside the
\* transaction, it is whoever's is current now.
AnswerWithImpact(a) ==
    /\ Answer(a)
    /\ answered' = [answered EXCEPT ![a] = [impact |-> current, held |-> Holds(a)]]
    /\ UNCHANGED <<lock, draft, current, reading>>

\* A process that died keeps its lock until the database notices.
NoticeDeath(a) ==
    /\ pc[a] = "dead"
    /\ lock = a
    /\ Leave(a)
    /\ UNCHANGED <<vars, current, answered, reading>>

TxStep(a) ==
    \/ LockClaim(a)
    \/ DraftVersion(a)
    \/ Commit(a)
    \/ AnswerWithImpact(a)
    \/ NoticeDeath(a)
    \/ /\ Begin(a) \/ LoseClaim(a) \/ Release(a)
       /\ UNCHANGED <<lock, draft, current, answered, reading>>
    \/ /\ Fail(a) \/ FailsUnrecorded(a)
       /\ Leave(a)
       /\ UNCHANGED <<current, answered, reading>>

TxClaim(a) ==
    /\ RowIsFree
    /\ Claim(a)
    /\ UNCHANGED <<lock, draft, current, answered, reading>>

\* getPersistedAnalysis: the record, then the latest session.
ReadRecord(r) ==
    /\ reading[r].pc = "new"
    /\ current # None
    /\ reading' = [reading EXCEPT ![r] =
           [pc |-> "read", analysis |-> current, version |-> 0, seen |-> Len(versions)]]
    /\ UNCHANGED <<vars, lock, draft, current, answered>>

ReadLatest(r) ==
    /\ reading[r].pc = "read"
    /\ reading' = [reading EXCEPT ![r] =
           [pc |-> "told", analysis |-> @.analysis, version |-> Len(versions), seen |-> @.seen]]
    /\ UNCHANGED <<vars, lock, draft, current, answered>>

TxTick == Tick /\ UNCHANGED <<lock, draft, current, answered, reading>>

TxCrash(a) == Crash(a) /\ UNCHANGED <<lock, draft, current, answered, reading>>

TxNext ==
    \/ TxTick
    \/ \E a \in Attempts : TxClaim(a) \/ TxStep(a) \/ TxCrash(a)
    \/ \E r \in Readers : ReadRecord(r) \/ ReadLatest(r)

TxSpec == TxInit /\ [][TxNext]_txVars

TxFairSpec ==
    /\ TxSpec
    /\ WF_txVars(TxTick)
    /\ \A a \in Attempts : WF_txVars(TxClaim(a)) /\ WF_txVars(TxStep(a))

-----------------------------------------------------------------------------
(* Properties *)

\* Every variable of the transaction has its type.
TxTypeOK ==
    /\ lock \in Attempts \cup {None}
    /\ draft \in Nat
    /\ current \in Attempts \cup {None}
    /\ answered \in [Attempts -> [impact : Attempts \cup {None}, held : BOOLEAN]]
    /\ reading \in [Readers -> [pc : {"new", "read", "told"}, analysis : Attempts \cup {None},
                                version : Nat, seen : Nat]]

\* The row lock makes the transaction one step: whatever claims, expires, fails
\* or dies between its statements, what is committed is what AnalysisClaim
\* confirms, by the attempt that has the claim at that instant.
ImplementsClaim == Spec

\* An attempt whose claim was its own when it answered answers its own impact,
\* and a reader is told the version of the analysis it is given, unless one was
\* confirmed between its two reads.
AnswersAreCoherent ==
    /\ \A a \in Attempts : answered[a].held => answered[a].impact = a
    /\ \A r \in Readers :
          reading[r].pc = "told" /\ reading[r].version = reading[r].seen =>
              versions[reading[r].version].by = reading[r].analysis

=============================================================================
