--------------------------- MODULE FollowUp_proofs ---------------------------
(***************************************************************************)
(* What is kept beside a problem while it is attended to: its evidences    *)
(* and its recommendations.                                                *)
(*                                                                         *)
(* For any number of uploads and keys: the timeline tells of an evidence   *)
(* once, and the retries of a note are all answered the same evidence.     *)
(* Both follow from where an upload is: its row exists from the insert on, *)
(* and the index lets one row have a key at a time.                        *)
(*                                                                         *)
(* For any number of requests: the status of a recommendation agrees with  *)
(* its completion instant as long as no save is torn, and its completion   *)
(* is told by somebody, or by nobody because somebody died.  A request     *)
(* holds in memory an entity that agrees with itself, and while nobody     *)
(* writes between its comparison and its write, it writes all that the row *)
(* lacks of it.                                                            *)
(***************************************************************************)
EXTENDS EvidenceUploads, RecommendationUpdates, TLAPS

Stored == evidences \cup removed

\* The row of an upload is there from its insert on, and is told at its end.
RowFollowsUpload ==
    \A u \in Uploads :
        /\ upload[u].pc \in {"new", "saving", "violated", "failed"} => u \notin Stored
        /\ upload[u].pc \in {"saved", "announcing", "orphaned", "unanswered"} => u \in Stored

\* The partial unique index.
OneRowPerKey ==
    \A e, f \in evidences : KeyOf[e] = KeyOf[f] /\ KeyOf[e] # NoKey => e = f

\* Who lost the race lost it to a row of its key, which may be gone since.
LostToTheKey ==
    \A u \in Uploads :
        /\ At(u, "violated") =>
              /\ KeyOf[u] # NoKey
              /\ \E e \in Stored : KeyOf[e] = KeyOf[u]
        /\ At(u, "failed") => \E e \in removed : KeyOf[e] = KeyOf[u]
        /\ upload[u].pc \in {"orphaned", "unanswered"} => u \in removed

\* An answer names a row of the key that was asked for.
AnswersNameTheKey ==
    \A u \in Uploads :
        At(u, "answered") =>
            /\ upload[u].evidence \in Stored
            /\ KeyOf[upload[u].evidence] = KeyOf[u]

EvidenceInv ==
    /\ EvidenceTypeOK
    /\ EvidenceIsAnnounced
    /\ RowFollowsUpload
    /\ OneRowPerKey
    /\ LostToTheKey
    /\ AnswersNameTheKey

\* Nothing is stored.
LEMMA EvidenceInitInv == EvidenceInit => EvidenceInv
BY DEF EvidenceInit, EvidenceInv, EvidenceTypeOK, UploadSteps, EvidenceIsAnnounced,
       RowFollowsUpload, OneRowPerKey, LostToTheKey, AnswersNameTheKey, Stored, At

\* A step of one upload, and a deletion, keep the invariant.
LEMMA EvidenceStep ==
  ASSUME EvidenceInv, NEW u \in Uploads,
         \/ LookUp(u) \/ SaveEvidence(u) \/ LookUpAgain(u) \/ ReadAgain(u)
         \/ Announce(u) \/ UploadDies(u) \/ DeleteEvidence(u)
  PROVE  EvidenceInv'
<1> USE UploadsAssumption DEF EvidenceInv, EvidenceTypeOK, UploadSteps, EvidenceIsAnnounced,
        RowFollowsUpload, OneRowPerKey, LostToTheKey, AnswersNameTheKey, Stored, At, Move, AnswerWith
<1>1. CASE LookUp(u)
  <2>1. CASE SameKey(u) = {}
    <3>1. upload' = [upload EXCEPT ![u].pc = "saving"] /\ upload[u].pc = "new"
      BY <1>1, <2>1 DEF LookUp
    <3>2. UNCHANGED <<evidences, removed, entries>>
      BY <1>1 DEF LookUp
    <3> QED BY <3>1, <3>2
  <2>2. CASE SameKey(u) # {}
    <3>1. PICK e \in SameKey(u) : upload' = [upload EXCEPT ![u] = [pc |-> "answered", evidence |-> e]]
      BY <1>1, <2>2 DEF LookUp
    <3>2. e \in evidences /\ KeyOf[e] = KeyOf[u]
      BY <3>1 DEF SameKey
    <3> QED BY <1>1, <3>1, <3>2 DEF LookUp
  <2> QED BY <2>1, <2>2
<1>2. CASE SaveEvidence(u)
  <2>1. CASE SameKey(u) = {}
    <3>1. /\ upload' = [upload EXCEPT ![u].pc = "saved"] /\ upload[u].pc = "saving"
          /\ evidences' = evidences \cup {u}
          /\ UNCHANGED <<removed, entries>>
      BY <1>2, <2>1 DEF SaveEvidence
    <3>2. \A e \in evidences : KeyOf[u] = NoKey \/ KeyOf[e] # KeyOf[u]
      BY <2>1 DEF SameKey
    <3>3. EvidenceTypeOK' /\ EvidenceIsAnnounced' /\ RowFollowsUpload'
      BY <3>1
    <3>4. OneRowPerKey' /\ LostToTheKey' /\ AnswersNameTheKey'
      BY <3>1, <3>2
    <3> QED BY <3>3, <3>4
  <2>2. CASE SameKey(u) # {}
    <3>1. upload' = [upload EXCEPT ![u].pc = "violated"] /\ upload[u].pc = "saving"
      BY <1>2, <2>2 DEF SaveEvidence
    <3>2. UNCHANGED <<evidences, removed, entries>>
      BY <1>2, <2>2 DEF SaveEvidence
    <3>3. KeyOf[u] # NoKey /\ \E e \in evidences : KeyOf[e] = KeyOf[u]
      BY <2>2 DEF SameKey
    <3> QED BY <3>1, <3>2, <3>3
  <2> QED BY <2>1, <2>2
<1>3. CASE LookUpAgain(u)
  <2>1. ASSUME NEW e \in SameKey(u), upload' = [upload EXCEPT ![u] = [pc |-> "answered", evidence |-> e]]
        PROVE  EvidenceInv'
    <3>1. e \in evidences /\ KeyOf[e] = KeyOf[u]
      BY <2>1 DEF SameKey
    <3> QED BY <1>3, <2>1, <3>1 DEF LookUpAgain
  <2>2. CASE SameKey(u) = {} /\ upload' = [upload EXCEPT ![u].pc = "failed"]
    <3>1. \E e \in removed : KeyOf[e] = KeyOf[u]
      BY <1>3, <2>2 DEF LookUpAgain, SameKey
    <3> QED BY <1>3, <2>2, <3>1 DEF LookUpAgain
  <2> QED BY <1>3, <2>1, <2>2 DEF LookUpAgain
<1>4. CASE Announce(u)
  <2>1. CASE At(u, "announcing") /\ AnswerWith(u, u)
    BY <1>4, <2>1 DEF Announce
  <2>2. CASE At(u, "orphaned") /\ Move(u, "unanswered")
    BY <1>4, <2>2 DEF Announce
  <2> QED BY <1>4, <2>1, <2>2 DEF Announce
<1>5. CASE UploadDies(u)
  BY <1>5 DEF UploadDies
<1>6. CASE DeleteEvidence(u)
  BY <1>6 DEF DeleteEvidence
<1>7. CASE ReadAgain(u)
  <2>1. CASE u \in evidences
    BY <1>7, <2>1 DEF ReadAgain
  <2>2. CASE u \notin evidences
    BY <1>7, <2>2 DEF ReadAgain
  <2> QED BY <2>1, <2>2
<1> QED BY <1>1, <1>2, <1>3, <1>4, <1>5, <1>6, <1>7

LEMMA EvidenceInvariance == EvidenceSpec => []EvidenceInv
<1>1. EvidenceInv /\ UNCHANGED evidenceVars => EvidenceInv'
  BY DEF evidenceVars, EvidenceInv, EvidenceTypeOK, EvidenceIsAnnounced, RowFollowsUpload,
         OneRowPerKey, LostToTheKey, AnswersNameTheKey, Stored, At
<1>2. EvidenceInv /\ EvidenceNext => EvidenceInv'
  BY EvidenceStep DEF EvidenceNext
<1> QED BY <1>1, <1>2, EvidenceInitInv, PTL DEF EvidenceSpec

\* The timeline tells of an evidence once, when the upload that inserted it
\* gets to its end, and never of what was not stored.
THEOREM EvidenceIsToldOnce == EvidenceSpec => []EvidenceIsAnnounced
<1>1. EvidenceInv => EvidenceIsAnnounced
  BY DEF EvidenceInv
<1> QED BY <1>1, EvidenceInvariance, PTL

\* The retries of a note are all answered the same evidence, until it is deleted.
THEOREM RetriesAreAnsweredAlike == EvidenceSpec => []RetriesAgree
<1>1. EvidenceInv => RetriesAgree
  <2> SUFFICES ASSUME EvidenceInv, NEW u \in Uploads, NEW v \in Uploads,
                      At(u, "answered"), KeyOf[u] = KeyOf[v], KeyOf[u] # NoKey,
                      upload[u].evidence \notin removed
               PROVE  /\ KeyOf[upload[u].evidence] = KeyOf[u]
                      /\ At(v, "answered") =>
                           upload[v].evidence \in removed \cup {upload[u].evidence}
                      /\ upload[v].pc \in {"failed", "unanswered"} =>
                           \E e \in removed : KeyOf[e] = KeyOf[u]
    BY DEF RetriesAgree
  <2> USE DEF EvidenceInv
  <2>1. KeyOf[upload[u].evidence] = KeyOf[u] /\ upload[u].evidence \in evidences
    BY DEF AnswersNameTheKey, Stored
  <2>2. ASSUME At(v, "answered"), upload[v].evidence \notin removed
        PROVE  upload[v].evidence = upload[u].evidence
    BY <2>1, <2>2 DEF AnswersNameTheKey, Stored, OneRowPerKey
  <2>3. upload[v].pc \in {"failed", "unanswered"} => \E e \in removed : KeyOf[e] = KeyOf[u]
    BY DEF LostToTheKey, At
  <2> QED BY <2>1, <2>2, <2>3
<1> QED BY <1>1, EvidenceInvariance, PTL

-----------------------------------------------------------------------------
\* Recommendations.

Coherent(row) == row.status = "COMPLETED" <=> row.completedAt # Null

\* Somebody told that it was completed, is about to, or died before.
CompletionIsKnown ==
    \/ told > 0
    \/ \E u \in Updates : Completes(u) /\ update[u].pc \in {"saved", "dead"}

\* An entity agrees with itself; its columns that were compared are those in
\* which the row differs; and if it was loaded completed, that is known.
RequestIsSound(u) ==
    /\ ~ torn => Coherent(update[u].entity)
    /\ ~ torn /\ update[u].pc = "selected" =>
          \A c \in AdviceColumns : c \notin update[u].changed => update[u].entity[c] = advice[c]
    /\ update[u].pc # "new" /\ update[u].previous = "COMPLETED" => CompletionIsKnown

AdviceInv ==
    /\ AdviceTypeOK
    /\ \A u \in Updates : RequestIsSound(u)
    /\ ~ torn => Coherent(advice)
    /\ advice.status = "COMPLETED" => CompletionIsKnown

\* Nobody has asked for anything.
LEMMA AdviceInitInv == AdviceInit => AdviceInv
<1> SUFFICES ASSUME AdviceInit PROVE AdviceInv
  OBVIOUS
<1> USE UpdatesAssumption DEF AdviceInit
<1>1. PICK status \in AdviceStatuses :
         advice = [status |-> status, completedAt |-> IF status = "COMPLETED" THEN 1 ELSE Null]
  OBVIOUS
<1>2. advice \in Advice /\ Coherent(advice)
  BY <1>1 DEF Advice, AdviceStatuses, Stamps, Null, Coherent
<1>3. AdviceTypeOK
  <2>1. advice.status \in AdviceStatuses
    BY <1>2 DEF Advice
  <2>2. update \in [Updates ->
           [pc : {"new", "loaded", "selected", "saved", "done", "dead"}, entity : Advice,
            previous : AdviceStatuses, changed : SUBSET AdviceColumns]]
    BY <1>2, <2>1
  <2>3. told \in Nat /\ torn \in BOOLEAN /\ stamp \in 1 .. MaxClock
    <3>1. told \in Nat
      OBVIOUS
    <3>2. torn \in BOOLEAN
      OBVIOUS
    <3>3. stamp \in 1 .. MaxClock
      OBVIOUS
    <3> QED BY <3>1, <3>2, <3>3
  <2> QED BY <1>2, <2>2, <2>3 DEF AdviceTypeOK
<1>4. advice.status = "COMPLETED" => CompletionIsKnown
  BY DEF CompletionIsKnown
<1>5. \A u \in Updates : RequestIsSound(u)
  BY <1>2, <1>4 DEF RequestIsSound
<1> QED BY <1>2, <1>3, <1>4, <1>5 DEF AdviceInv

\* What is edited is a recommendation.
LEMMA EditedInAdvice ==
  ASSUME stamp \in 1 .. MaxClock, NEW row \in Advice, NEW status \in AdviceStatuses
  PROVE  Edited(row, status) \in Advice
BY UpdatesAssumption DEF Edited, Advice, AdviceStatuses, Stamps, Null

\* And one that agrees with itself, if the row did.
LEMMA EditedCoherent ==
  ASSUME stamp \in 1 .. MaxClock, NEW row \in Advice, Coherent(row),
         NEW status \in AdviceStatuses
  PROVE  Coherent(Edited(row, status))
BY UpdatesAssumption DEF Edited, Coherent, Advice, AdviceStatuses, Stamps, Null

\* What is known to be completed stays known.
LEMMA KnownStays ==
  ASSUME AdviceTypeOK, AdviceNext, CompletionIsKnown
  PROVE  CompletionIsKnown'
<1> USE DEF AdviceTypeOK, CompletionIsKnown, Completes
<1>1. CASE told > 0
  <2>1. told' \in Nat /\ told' >= told
    BY DEF AdviceNext, StampTick, LoadAdvice, SelectAdvice, WriteAdvice, TellUpdate, UpdateDies
  <2> QED BY <1>1, <2>1
<1>2. ASSUME NEW w \in Updates, Completes(w), update[w].pc \in {"saved", "dead"}
      PROVE  CompletionIsKnown'
  <2>1. CASE UNCHANGED update[w]
    BY <1>2, <2>1
  <2>2. CASE TellUpdate(w)
    BY <1>2, <2>2 DEF TellUpdate
  <2>3. CASE UpdateDies(w)
    BY <1>2, <2>3 DEF UpdateDies
  <2>4. UNCHANGED update[w] \/ TellUpdate(w) \/ UpdateDies(w)
    <3>1. CASE StampTick
      BY <3>1 DEF StampTick
    <3>2. ASSUME NEW u \in Updates, LoadAdvice(u) \/ SelectAdvice(u) \/ WriteAdvice(u)
          PROVE  UNCHANGED update[w]
      <4>1. u # w
        BY <1>2, <3>2 DEF LoadAdvice, SelectAdvice, WriteAdvice
      <4> QED BY <3>2, <4>1 DEF LoadAdvice, SelectAdvice, WriteAdvice
    <3>3. ASSUME NEW u \in Updates, TellUpdate(u) \/ UpdateDies(u), u # w
          PROVE  UNCHANGED update[w]
      BY <3>3 DEF TellUpdate, UpdateDies
    <3> QED BY <3>1, <3>2, <3>3 DEF AdviceNext
  <2> QED BY <2>1, <2>2, <2>3, <2>4
<1> QED BY <1>1, <1>2

\* A step of a request keeps the invariant.
LEMMA AdviceStep ==
  ASSUME AdviceInv, NEW u \in Updates,
         LoadAdvice(u) \/ SelectAdvice(u) \/ WriteAdvice(u) \/ TellUpdate(u) \/ UpdateDies(u)
  PROVE  AdviceInv'
<1> USE UpdatesAssumption DEF AdviceInv, AdviceTypeOK
<1>0. /\ AdviceNext
      /\ CompletionIsKnown => CompletionIsKnown'
  BY KnownStays DEF AdviceNext
<1>1. CASE LoadAdvice(u)
  <2>1. PICK entity \in {advice} \cup {Edited(advice, status) : status \in AdviceStatuses} :
           update' = [update EXCEPT ![u] =
              [pc |-> "loaded", entity |-> entity, previous |-> advice.status, changed |-> {}]]
    BY <1>1 DEF LoadAdvice
  <2>2. UNCHANGED <<advice, told, torn, stamp>>
    BY <1>1 DEF LoadAdvice
  <2>3. entity \in Advice /\ (~ torn => Coherent(entity))
    <3>1. CASE entity = advice
      BY <3>1
    <3>2. ASSUME NEW status \in AdviceStatuses, entity = Edited(advice, status)
          PROVE  entity \in Advice /\ (~ torn => Coherent(entity))
      BY <3>2, EditedInAdvice, EditedCoherent
    <3> QED BY <3>1, <3>2
  <2>4. AdviceTypeOK'
    BY <2>1, <2>2, <2>3 DEF Advice
  <2>5. RequestIsSound(u)'
    BY <2>1, <2>2, <2>3, <1>0 DEF RequestIsSound
  <2>6. ASSUME NEW v \in Updates, v # u PROVE RequestIsSound(v)'
    BY <2>1, <2>2, <2>6, <1>0 DEF RequestIsSound
  <2> QED BY <2>2, <2>4, <2>5, <2>6, <1>0 DEF Coherent
<1>2. CASE SelectAdvice(u)
  <2>1. update' = [update EXCEPT ![u] =
           [pc |-> "selected", entity |-> @.entity, previous |-> @.previous,
            changed |-> {c \in AdviceColumns : @.entity[c] # advice[c]}]]
    BY <1>2 DEF SelectAdvice
  <2>2. UNCHANGED <<advice, told, torn, stamp>> /\ update[u].pc = "loaded"
    BY <1>2 DEF SelectAdvice
  <2>3. AdviceTypeOK'
    BY <2>1, <2>2
  <2>4. RequestIsSound(u)'
    BY <2>1, <2>2, <1>0 DEF RequestIsSound, Coherent
  <2>5. ASSUME NEW v \in Updates, v # u PROVE RequestIsSound(v)'
    BY <2>1, <2>2, <2>5, <1>0 DEF RequestIsSound
  <2> QED BY <2>2, <2>3, <2>4, <2>5, <1>0 DEF Coherent
<1>3. CASE WriteAdvice(u)
  <2>1. /\ advice' = [c \in AdviceColumns |->
              IF c \in update[u].changed THEN update[u].entity[c] ELSE advice[c]]
        /\ update' = [update EXCEPT ![u].pc = "saved"]
        /\ UNCHANGED <<told, stamp>> /\ update[u].pc = "selected"
        /\ torn' = (torn \/ \E v \in Updates \ {u} : update[v].pc = "selected")
    BY <1>3 DEF WriteAdvice
  <2>2. advice' \in Advice
    BY <2>1 DEF Advice, AdviceColumns
  <2>3. torn' \in BOOLEAN /\ (~ torn' => ~ torn)
    BY <2>1
  <2>4. AdviceTypeOK'
    BY <2>1, <2>2, <2>3
  <2>5. ~ torn' => Coherent(advice)'
    BY <2>1, <2>3 DEF RequestIsSound, Coherent, AdviceColumns
  <2>6. advice'.status = "COMPLETED" => CompletionIsKnown'
    <3>1. CASE "status" \in update[u].changed
      <4>1. CASE update[u].previous = "COMPLETED"
        BY <4>1, <2>1, <1>0 DEF RequestIsSound
      <4>2. CASE update[u].previous # "COMPLETED" /\ update[u].entity.status = "COMPLETED"
        BY <4>2, <2>1 DEF CompletionIsKnown, Completes
      <4>3. advice'.status = update[u].entity.status
        BY <3>1, <2>1 DEF AdviceColumns
      <4> QED BY <4>1, <4>2, <4>3
    <3>2. CASE "status" \notin update[u].changed
      BY <3>2, <2>1, <1>0 DEF AdviceColumns
    <3> QED BY <3>1, <3>2
  <2>7. RequestIsSound(u)'
    BY <2>1, <2>3, <1>0 DEF RequestIsSound, Coherent
  <2>8. ASSUME NEW v \in Updates, v # u PROVE RequestIsSound(v)'
    <3>1. update'[v] = update[v]
      BY <2>1, <2>8
    <3>2. ~ torn' => update[v].pc # "selected"
      BY <2>1, <2>8
    <3> QED BY <3>1, <3>2, <2>3, <1>0 DEF RequestIsSound, Coherent
  <2> QED BY <2>4, <2>5, <2>6, <2>7, <2>8
<1>4. CASE TellUpdate(u) \/ UpdateDies(u)
  <2>1. UNCHANGED <<advice, torn, stamp>> /\ told' \in Nat
    BY <1>4 DEF TellUpdate, UpdateDies
  <2>2. PICK step \in {"done", "dead"} : update' = [update EXCEPT ![u].pc = step]
    BY <1>4 DEF TellUpdate, UpdateDies
  <2>3. update[u].pc # "new"
    BY <1>4 DEF TellUpdate, UpdateDies
  <2>4. AdviceTypeOK'
    BY <2>1, <2>2
  <2>5. ASSUME NEW v \in Updates PROVE RequestIsSound(v)'
    BY <2>1, <2>2, <2>3, <1>0 DEF RequestIsSound, Coherent
  <2> QED BY <2>1, <2>4, <2>5, <1>0 DEF Coherent
<1> QED BY <1>1, <1>2, <1>3, <1>4

LEMMA AdviceInvariance == AdviceSpec => []AdviceInv
<1>1. AdviceInv /\ StampTick => AdviceInv'
  BY UpdatesAssumption
     DEF StampTick, AdviceInv, AdviceTypeOK, RequestIsSound, Coherent, CompletionIsKnown, Completes
<1>2. AdviceInv /\ UNCHANGED adviceVars => AdviceInv'
  BY DEF adviceVars, AdviceInv, AdviceTypeOK, RequestIsSound, Coherent, CompletionIsKnown, Completes
<1>3. AdviceInv /\ [AdviceNext]_adviceVars => AdviceInv'
  BY <1>1, <1>2, AdviceStep DEF AdviceNext
<1> QED BY <1>3, AdviceInitInv, PTL DEF AdviceSpec

\* However many requests edit a recommendation, its status and its instant agree
\* unless a save is torn, and a completion that nobody tells was lost by a death.
THEOREM CompletionsCohere == AdviceSpec => []CompletionCoherent
<1>1. AdviceInv => CompletionCoherent
  BY DEF AdviceInv, Coherent, CompletionCoherent, CompletionIsKnown
<1> QED BY <1>1, AdviceInvariance, PTL

=============================================================================
