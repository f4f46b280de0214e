-------------------------- MODULE ServerStart_proofs --------------------------
(***************************************************************************)
(* What the start of a server does to the tables, in three parts that      *)
(* share no variable.                                                      *)
(*                                                                         *)
(* For any number of registrations, edits and failed backfills: what the   *)
(* lot leaves behind is whole.                                             *)
(*                                                                         *)
(* A migration that alters the table runs between registrations, so those  *)
(* that are open were begun under the schema they will commit under; and a *)
(* row the backfill has written is locked, so what it wrote is still what  *)
(* it would write.                                                         *)
(*                                                                         *)
(* Of the servers that write one catalogue, some one writes all of it:     *)
(* whoever inserts the row another was about to insert is past it himself. *)
(*                                                                         *)
(* For any number of servers and jobs, any catalogue and any matrix to     *)
(* begin with: no permission of the catalogue is ever taken from a role,   *)
(* and if several synchronisations refuse one another one of them still    *)
(* finishes, with the matrix at the catalogue.                             *)
(*                                                                         *)
(* Why somebody finishes.  Who is refused was overtaken: another one had   *)
(* removed, or inserted, the assignment it was at.  Assignments are taken  *)
(* in one order, so who overtook it is ahead of it, and if that one is     *)
(* refused in turn there is another still further ahead (RevokeFront,      *)
(* GrantFront).  The last of them has nobody to refuse it.                 *)
(***************************************************************************)
EXTENDS SchemaRelease, BootSeeds, RbacSync, TLAPS

-----------------------------------------------------------------------------
(* The lot of migrations of a release: SchemaRelease *)

\* Until the backfill a row has no reported severity, and its own is what was
\* told unless it was edited.
BeforeTheBackfill(r) ==
    r.step \in {"inserted", "committed"} /\ migrated < 5 =>
        /\ r.reported = Unset /\ r.first = Unset /\ ~r.marked
        /\ r.amended \/ r.severity = r.told

\* Nobody has inserted between the backfill and the triggers; an open
\* registration has its entry, or its mark.
OpenIsSound(r) ==
    r.step = "inserted" =>
        /\ migrated < 5 \/ migrated >= 8
        /\ migrated >= 8 =>
              /\ r.reported # Unset /\ r.reported = r.told
              /\ ~r.marked => r.first = r.reported
              /\ r.marked => r.first = Unset

\* What is committed after the backfill is whole.
RowIsSound(r) ==
    r.step = "committed" /\ migrated >= 5 =>
        /\ r.reported # Unset
        /\ r.first = r.reported
        /\ r.traced \/ ~r.amended => r.reported = r.told

AreaIsKnown(r) ==
    r.step \in {"inserted", "committed"} /\ migrated >= 1 /\ r.owner # NoOwner =>
        r.affected = r.owner \/ r.unaided

\* The backfill has written what it would write now.
FilledIsCurrent ==
    /\ backfilling => migrated = 4
    /\ \A s \in Situations :
          filled[s] # Unset =>
              backfilling /\ Committed(s) /\ filled[s] = ReportedLevel(situation[s])

SoundRow(r) ==
    /\ BeforeTheBackfill(r)
    /\ OpenIsSound(r)
    /\ RowIsSound(r)
    /\ AreaIsKnown(r)
    /\ r.step \in {"inserted", "committed"} => r.severity # Unset /\ r.told # Unset

ReleaseInv ==
    /\ ReleaseTypeOK
    /\ FilledIsCurrent
    /\ \A s \in Situations : SoundRow(situation[s])

LEMMA LotLength == Len(Lot) = 9
BY DEF Lot

\* Which migrations are committed is how many are.
LEMMA Numbered ==
  ASSUME ReleaseTypeOK
  PROVE  /\ migrated \in 0 .. 9
         /\ Applied("AddReportKind") <=> migrated >= 1
         /\ Applied("BackfillReportedSeverity") <=> migrated >= 5
         /\ Applied("LegacyInsertCompatibility") <=> migrated >= 8
         /\ ComesNext("AddReportKind") <=> migrated = 0
         /\ ComesNext("AddSeverityHistory") <=> migrated = 3
         /\ ComesNext("BackfillReportedSeverity") <=> migrated = 4
         /\ ComesNext("AddConsequences") <=> migrated = 5
         /\ ComesNext("AddTimelineEvents") <=> migrated = 6
         /\ ComesNext("LegacyInsertCompatibility") <=> migrated = 7
         /\ ComesNext("GrantAnalyst") <=> migrated = 1
         /\ ComesNext("GrantDirector") <=> migrated = 2
         /\ ComesNext("RevokeAdminDirector") <=> migrated = 8
<1>1. Len(Lot) = 9 /\ migrated \in 0 .. 9
  BY LotLength DEF ReleaseTypeOK
<1>2. /\ Lot[1] = "AddReportKind" /\ Lot[2] = "GrantAnalyst" /\ Lot[3] = "GrantDirector"
      /\ Lot[4] = "AddSeverityHistory" /\ Lot[5] = "BackfillReportedSeverity"
      /\ Lot[6] = "AddConsequences" /\ Lot[7] = "AddTimelineEvents"
      /\ Lot[8] = "LegacyInsertCompatibility" /\ Lot[9] = "RevokeAdminDirector"
  BY DEF Lot
<1>3. /\ ComesNext("AddReportKind") <=> migrated = 0
      /\ ComesNext("AddSeverityHistory") <=> migrated = 3
      /\ ComesNext("BackfillReportedSeverity") <=> migrated = 4
      /\ ComesNext("AddConsequences") <=> migrated = 5
      /\ ComesNext("AddTimelineEvents") <=> migrated = 6
      /\ ComesNext("LegacyInsertCompatibility") <=> migrated = 7
      /\ ComesNext("GrantAnalyst") <=> migrated = 1
      /\ ComesNext("GrantDirector") <=> migrated = 2
      /\ ComesNext("RevokeAdminDirector") <=> migrated = 8
  BY <1>1, <1>2 DEF ComesNext
<1>4. /\ Applied("AddReportKind") <=> migrated >= 1
      /\ Applied("BackfillReportedSeverity") <=> migrated >= 5
      /\ Applied("LegacyInsertCompatibility") <=> migrated >= 8
  BY <1>1, <1>2 DEF Applied
<1> QED BY <1>1, <1>3, <1>4

\* Nothing is migrated, nothing is registered.
LEMMA ReleaseInitInv == ReleaseInit => ReleaseInv
<1> SUFFICES ASSUME ReleaseInit PROVE ReleaseInv
  OBVIOUS
<1>2. ReleaseTypeOK
  <2>1. Absent \in Situation
    BY DEF Absent, Situation
  <2>2. situation \in [Situations -> Situation]
    BY <2>1 DEF ReleaseInit
  <2>3. filled \in [Situations -> Levels \cup {Unset}]
    BY DEF ReleaseInit, NotFilled
  <2>4. 0 \in 0 .. 9
    OBVIOUS
  <2>5. migrated \in 0 .. Len(Lot)
    BY LotLength, <2>4, Zenon DEF ReleaseInit
  <2>6. backfilling \in BOOLEAN
    BY DEF ReleaseInit
  <2> QED BY <2>2, <2>3, <2>5, <2>6 DEF ReleaseTypeOK
<1>3. FilledIsCurrent
  BY DEF ReleaseInit, FilledIsCurrent, NotFilled
<1>4. \A s \in Situations : situation[s].step = "absent"
  BY DEF ReleaseInit, Absent
<1>5. \A s \in Situations : SoundRow(situation[s])
  BY <1>4 DEF SoundRow, BeforeTheBackfill, OpenIsSound, RowIsSound, AreaIsKnown
<1> QED BY <1>2, <1>3, <1>5 DEF ReleaseInv

\* A migration that leaves the rows as they are, and does not run across the backfill.
LEMMA RowsStay ==
  ASSUME ReleaseInv, ~backfilling,
         migrated' = migrated + 1, migrated' \in 0 .. 9, migrated \in {1, 2, 3, 5, 6, 7, 8},
         migrated = 7 => NobodyInserts,
         UNCHANGED <<backfilling, filled, situation>>
  PROVE  ReleaseInv'
<1>1. ReleaseTypeOK'
  BY LotLength DEF ReleaseInv, ReleaseTypeOK
<1>2. FilledIsCurrent'
  BY DEF ReleaseInv, FilledIsCurrent, Committed
<1>3. ASSUME NEW s \in Situations
      PROVE  SoundRow(situation[s])'
  BY <1>3 DEF ReleaseInv, SoundRow, BeforeTheBackfill, OpenIsSound, RowIsSound, AreaIsKnown,
       NobodyInserts
<1> QED BY <1>1, <1>2, <1>3 DEF ReleaseInv

\* The problems that are there are given their area.
LEMMA AddReportKindKeeps ==
  ASSUME ReleaseInv, AddReportKind
  PROVE  ReleaseInv'
<1>1. migrated = 0 /\ migrated' = 1 /\ UNCHANGED <<backfilling, filled>>
  BY Numbered DEF AddReportKind, Applies, ReleaseInv
<1>2. situation' = [s \in Situations |->
                      IF Committed(s) /\ situation[s].owner # NoOwner
                      THEN [situation[s] EXCEPT !.affected = situation[s].owner]
                      ELSE situation[s]]
  BY DEF AddReportKind, Applies
<1>3. ~backfilling /\ \A s \in Situations : filled[s] = Unset
  BY <1>1 DEF ReleaseInv, FilledIsCurrent
<1>4. ASSUME NEW s \in Situations
      PROVE  situation'[s] \in Situation /\ SoundRow(situation[s])'
  <2>1. situation[s] \in Situation /\ SoundRow(situation[s]) /\ situation[s].step # "inserted"
    BY DEF ReleaseInv, ReleaseTypeOK, AddReportKind, NobodyInserts
  <2>2. CASE Committed(s) /\ situation[s].owner # NoOwner
    <3>1. situation'[s] = [situation[s] EXCEPT !.affected = situation[s].owner]
      BY <1>2, <2>2
    <3> QED BY <1>1, <2>1, <2>2, <3>1
         DEF Situation, SoundRow, BeforeTheBackfill, OpenIsSound, RowIsSound, AreaIsKnown, Committed
  <2>3. CASE ~(Committed(s) /\ situation[s].owner # NoOwner)
    <3>1. situation'[s] = situation[s]
      BY <1>2, <2>3
    <3> QED BY <1>1, <2>1, <2>3, <3>1
         DEF SoundRow, BeforeTheBackfill, OpenIsSound, RowIsSound, AreaIsKnown, Committed
  <2> QED BY <2>2, <2>3
<1>5. ReleaseTypeOK'
  BY <1>1, <1>2, <1>4, LotLength DEF ReleaseInv, ReleaseTypeOK
<1>6. FilledIsCurrent'
  BY <1>1, <1>3 DEF FilledIsCurrent
<1> QED BY <1>4, <1>5, <1>6 DEF ReleaseInv

\* What the backfill has written, nobody edits before it commits.
LEMMA BackfillKeeps ==
  ASSUME ReleaseInv, BackfillFills \/ BackfillCommits \/ BackfillFails
  PROVE  ReleaseInv'
<1>1. Len(Lot) = 9 /\ migrated \in 0 .. 9 /\ (backfilling => migrated = 4)
  BY Numbered, LotLength DEF ReleaseInv, FilledIsCurrent
<1>2. CASE BackfillFills
  <2>1. migrated = 4 /\ backfilling' = TRUE /\ UNCHANGED <<migrated, situation>>
    BY <1>1, <1>2, Numbered DEF BackfillFills, ReleaseInv
  <2>2. filled' = [s \in Situations |->
                    IF Committed(s) THEN ReportedLevel(situation[s]) ELSE Unset]
    BY <1>2 DEF BackfillFills
  <2>3. ASSUME NEW s \in Situations
        PROVE  ReportedLevel(situation[s]) \in Levels \cup {Unset}
    BY DEF ReportedLevel, ReleaseInv, ReleaseTypeOK, Situation
  <2>4. ReleaseTypeOK'
    BY <2>1, <2>2, <2>3 DEF ReleaseInv, ReleaseTypeOK
  <2>5. FilledIsCurrent'
    BY <2>1, <2>2 DEF FilledIsCurrent, Committed, ReportedLevel
  <2>6. \A s \in Situations : SoundRow(situation[s])'
    BY <2>1 DEF ReleaseInv, SoundRow, BeforeTheBackfill, OpenIsSound, RowIsSound, AreaIsKnown
  <2> QED BY <2>4, <2>5, <2>6 DEF ReleaseInv
<1>3. CASE BackfillCommits
  <2>1. migrated = 4 /\ migrated' = 5 /\ backfilling' = FALSE /\ filled' = NotFilled
    <3>1. /\ backfilling /\ migrated' = migrated + 1
          /\ backfilling' = FALSE /\ filled' = NotFilled
      BY <1>3, Zenon DEF BackfillCommits
    <3>2. migrated = 4
      BY <1>1, <3>1, Zenon
    <3> QED BY <3>1, <3>2
  <2>2. situation' = [s \in Situations |->
                       IF Committed(s)
                       THEN [situation[s] EXCEPT !.reported = filled[s], !.first = filled[s]]
                       ELSE situation[s]]
    BY <1>3 DEF BackfillCommits
  <2>3. ASSUME NEW s \in Situations
        PROVE  situation'[s] \in Situation /\ SoundRow(situation[s])'
    <3>1. /\ situation[s] \in Situation /\ SoundRow(situation[s])
          /\ situation[s].step # "inserted"
      BY <1>3 DEF ReleaseInv, ReleaseTypeOK, BackfillCommits, NobodyInserts
    <3>2. CASE Committed(s)
      <4>1. situation'[s] = [situation[s] EXCEPT !.reported = filled[s], !.first = filled[s]]
        BY <2>2, <3>2
      <4>2. /\ filled[s] # Unset /\ filled[s] \in Levels \cup {Unset}
            /\ filled[s] = IF situation[s].traced THEN situation[s].told ELSE situation[s].severity
        BY <1>3, <3>2 DEF BackfillCommits, ReleaseInv, ReleaseTypeOK, FilledIsCurrent, ReportedLevel
      <4>3. situation[s].amended \/ situation[s].severity = situation[s].told
        BY <2>1, <3>1, <3>2 DEF SoundRow, BeforeTheBackfill, Committed
      <4>4. situation'[s] \in Situation
        BY <3>1, <4>1, <4>2 DEF Situation
      <4> QED BY <2>1, <3>1, <3>2, <4>1, <4>2, <4>3, <4>4
           DEF Situation, SoundRow, BeforeTheBackfill, OpenIsSound, RowIsSound, AreaIsKnown, Committed
    <3>3. CASE ~Committed(s)
      <4>1. situation'[s] = situation[s]
        BY <2>2, <3>3
      <4> QED BY <2>1, <3>1, <3>3, <4>1
           DEF SoundRow, BeforeTheBackfill, OpenIsSound, RowIsSound, AreaIsKnown, Committed
    <3> QED BY <3>2, <3>3
  <2>4. ReleaseTypeOK'
    <3>1. filled' \in [Situations -> Levels \cup {Unset}]
      BY <2>1 DEF NotFilled
    <3>2. situation' \in [Situations -> Situation]
      BY <2>2, <2>3
    <3>3. migrated' \in 0 .. Len(Lot)
      BY <1>1, <2>1
    <3>4. backfilling' \in BOOLEAN
      BY <2>1
    <3> QED BY <3>1, <3>2, <3>3, <3>4 DEF ReleaseTypeOK
  <2>5. FilledIsCurrent'
    BY <2>1 DEF FilledIsCurrent, NotFilled
  <2> QED BY <2>3, <2>4, <2>5 DEF ReleaseInv
<1>4. CASE BackfillFails
  <2>1. backfilling' = FALSE /\ filled' = NotFilled /\ UNCHANGED <<migrated, situation>>
    BY <1>4 DEF BackfillFails
  <2>2. ReleaseTypeOK'
    BY <2>1 DEF ReleaseInv, ReleaseTypeOK, NotFilled
  <2>3. FilledIsCurrent'
    BY <2>1 DEF FilledIsCurrent, NotFilled
  <2>4. \A s \in Situations : SoundRow(situation[s])'
    BY <2>1 DEF ReleaseInv, SoundRow, BeforeTheBackfill, OpenIsSound, RowIsSound, AreaIsKnown
  <2> QED BY <2>2, <2>3, <2>4 DEF ReleaseInv
<1> QED BY <1>2, <1>3, <1>4

\* A registration or an edit changes one row, that the backfill has not written.
LEMMA OneRow ==
  ASSUME ReleaseInv, NEW s \in Situations, filled[s] = Unset,
         NEW r \in Situation, SoundRow(r),
         situation' = [situation EXCEPT ![s] = r],
         UNCHANGED <<migrated, backfilling, filled>>
  PROVE  ReleaseInv'
<1>1. ReleaseTypeOK'
  BY DEF ReleaseInv, ReleaseTypeOK
<1>2. FilledIsCurrent'
  BY DEF ReleaseInv, ReleaseTypeOK, FilledIsCurrent, Committed
<1>3. ASSUME NEW t \in Situations
      PROVE  SoundRow(situation[t])'
  <2>1. SoundRow(situation[t]) /\ situation'[t] = IF t = s THEN r ELSE situation[t]
    BY DEF ReleaseInv, ReleaseTypeOK
  <2> QED BY <2>1 DEF SoundRow, BeforeTheBackfill, OpenIsSound, RowIsSound, AreaIsKnown
<1> QED BY <1>1, <1>2, <1>3 DEF ReleaseInv

\* The revision before inserts; the triggers complete what it sends, or it is refused.
LEMMA LegacyInsertKeeps ==
  ASSUME ReleaseInv, NEW s \in Situations, LegacyInsert(s)
  PROVE  ReleaseInv'
<1>1. PICK owner \in Owners \cup {NoOwner}, severity \in Levels, traced \in BOOLEAN, unaided \in BOOLEAN :
          \/ /\ ~Applied("BackfillReportedSeverity")
             /\ unaided <=> Applied("AddReportKind")
             /\ situation' = [situation EXCEPT ![s] = Sent(owner, severity, traced, unaided)]
          \/ situation' = [situation EXCEPT ![s] = [Absent EXCEPT !.step = "refused"]]
          \/ /\ Applied("LegacyInsertCompatibility")
             /\ situation' = [situation EXCEPT ![s] =
                                LegacyDefaults(Sent(owner, severity, traced, FALSE))]
  BY DEF LegacyInsert
<1>2. filled[s] = Unset /\ UNCHANGED <<migrated, backfilling, filled>>
  BY DEF LegacyInsert, ReleaseInv, FilledIsCurrent, Committed
<1>3. /\ migrated \in 0 .. 9 /\ severity # Unset
      /\ Applied("AddReportKind") <=> migrated >= 1
      /\ Applied("BackfillReportedSeverity") <=> migrated >= 5
      /\ Applied("LegacyInsertCompatibility") <=> migrated >= 8
  BY Numbered, ReleaseAssumption DEF ReleaseInv
<1>4. CASE /\ ~Applied("BackfillReportedSeverity")
           /\ unaided <=> Applied("AddReportKind")
           /\ situation' = [situation EXCEPT ![s] = Sent(owner, severity, traced, unaided)]
  <2> DEFINE r == Sent(owner, severity, traced, unaided)
  <2>1. r \in Situation
    BY DEF Situation, Sent, Absent
  <2>2. SoundRow(r)
    BY <1>3, <1>4 DEF SoundRow, BeforeTheBackfill, OpenIsSound, RowIsSound, AreaIsKnown,
                      Sent, Absent
  <2>3. situation' = [situation EXCEPT ![s] = r]
    BY <1>4
  <2> HIDE DEF r
  <2> QED BY <1>2, <2>1, <2>2, <2>3, OneRow
<1>5. CASE situation' = [situation EXCEPT ![s] = [Absent EXCEPT !.step = "refused"]]
  <2> DEFINE r == [Absent EXCEPT !.step = "refused"]
  <2>1. r \in Situation
    BY DEF Situation, Absent
  <2>2. SoundRow(r)
    BY DEF SoundRow, BeforeTheBackfill, OpenIsSound, RowIsSound, AreaIsKnown, Absent
  <2>3. situation' = [situation EXCEPT ![s] = r]
    BY <1>5
  <2> HIDE DEF r
  <2> QED BY <1>2, <2>1, <2>2, <2>3, OneRow
<1>6. CASE /\ Applied("LegacyInsertCompatibility")
           /\ situation' = [situation EXCEPT ![s] =
                              LegacyDefaults(Sent(owner, severity, traced, FALSE))]
  <2> DEFINE r == LegacyDefaults(Sent(owner, severity, traced, FALSE))
  <2>1. r \in Situation
    BY DEF Situation, LegacyDefaults, Sent, Absent
  <2>2. SoundRow(r)
    BY <1>3, <1>6 DEF SoundRow, BeforeTheBackfill, OpenIsSound, RowIsSound, AreaIsKnown,
                      LegacyDefaults, Sent, Absent
  <2>3. situation' = [situation EXCEPT ![s] = r]
    BY <1>6
  <2> HIDE DEF r
  <2> QED BY <1>2, <2>1, <2>2, <2>3, OneRow
<1> QED BY <1>1, <1>4, <1>5, <1>6

\* The new revision inserts a whole row, and its entry.
LEMMA InsertKeeps ==
  ASSUME ReleaseInv, NEW s \in Situations, Insert(s)
  PROVE  ReleaseInv'
<1>1. PICK owner \in Owners, severity \in Levels :
        situation' = [situation EXCEPT ![s] =
          [Absent EXCEPT !.step = "inserted", !.owner = owner, !.affected = owner,
                         !.severity = severity, !.told = severity, !.traced = TRUE,
                         !.reported = severity, !.first = severity]]
  BY DEF Insert
<1> DEFINE r == [Absent EXCEPT !.step = "inserted", !.owner = owner, !.affected = owner,
                         !.severity = severity, !.told = severity, !.traced = TRUE,
                         !.reported = severity, !.first = severity]
<1>2. filled[s] = Unset /\ UNCHANGED <<migrated, backfilling, filled>> /\ migrated = 9
  BY LotLength DEF Insert, ReleaseInv, FilledIsCurrent, Committed
<1>3. r \in Situation
  BY DEF Situation, Absent
<1>4. SoundRow(r)
  BY <1>2, ReleaseAssumption
     DEF SoundRow, BeforeTheBackfill, OpenIsSound, RowIsSound, AreaIsKnown, Absent
<1>5. situation' = [situation EXCEPT ![s] = r]
  BY <1>1
<1> HIDE DEF r
<1> QED BY <1>2, <1>3, <1>4, <1>5, OneRow

\* The deferred trigger gives an open registration the entry it lacks.
LEMMA CommitKeeps ==
  ASSUME ReleaseInv, NEW s \in Situations, CommitInsert(s) \/ Rollback(s)
  PROVE  ReleaseInv'
<1>1. /\ situation[s].step = "inserted" /\ filled[s] = Unset
      /\ UNCHANGED <<migrated, backfilling, filled>>
      /\ situation[s] \in Situation /\ SoundRow(situation[s]) /\ migrated \in 0 .. 9
  BY Numbered
     DEF CommitInsert, Rollback, ReleaseInv, ReleaseTypeOK, FilledIsCurrent, Committed
<1>2. CASE CommitInsert(s)
  <2> DEFINE r == [situation[s] EXCEPT !.step = "committed",
                                       !.first = EntryAtCommit(situation[s]), !.marked = FALSE]
  <2>1. situation' = [situation EXCEPT ![s] = r]
    BY <1>2 DEF CommitInsert, ReleaseInv, ReleaseTypeOK
  <2>2. r \in Situation
    <3>1. EntryAtCommit(situation[s]) \in Levels \cup {Unset}
      BY <1>1 DEF Situation, EntryAtCommit
    <3> QED BY <1>1, <3>1 DEF Situation
  <2>3. SoundRow(r)
    BY <1>1 DEF Situation, EntryAtCommit, SoundRow, BeforeTheBackfill, OpenIsSound, RowIsSound,
                AreaIsKnown
  <2> HIDE DEF r
  <2> QED BY <1>1, <2>1, <2>2, <2>3, OneRow
<1>3. CASE Rollback(s)
  <2>1. situation' = [situation EXCEPT ![s] = Absent]
    BY <1>3 DEF Rollback
  <2>2. Absent \in Situation
    BY DEF Situation, Absent
  <2>3. SoundRow(Absent)
    BY DEF SoundRow, BeforeTheBackfill, OpenIsSound, RowIsSound, AreaIsKnown, Absent
  <2> QED BY <1>1, <2>1, <2>2, <2>3, OneRow
<1> QED BY <1>2, <1>3

\* An edit of a row without a reported severity leaves its trace in amended.
LEMMA LegacyEditKeeps ==
  ASSUME ReleaseInv, NEW s \in Situations, LegacyEdit(s)
  PROVE  ReleaseInv'
<1>1. PICK severity \in Levels \ {situation[s].severity} :
        situation' = [situation EXCEPT ![s].severity = severity,
                                       ![s].amended = @ \/ situation[s].reported = Unset]
  BY DEF LegacyEdit
<1>2. /\ situation[s].step = "committed" /\ filled[s] = Unset
      /\ UNCHANGED <<migrated, backfilling, filled>>
      /\ situation[s] \in Situation /\ SoundRow(situation[s]) /\ migrated \in 0 .. 9
      /\ severity # Unset
  BY Numbered, ReleaseAssumption DEF LegacyEdit, ReleaseInv, ReleaseTypeOK, Committed
<1> DEFINE r == [situation[s] EXCEPT !.severity = severity,
                                     !.amended = @ \/ situation[s].reported = Unset]
<1>3. situation' = [situation EXCEPT ![s] = r]
  BY <1>1 DEF ReleaseInv, ReleaseTypeOK
<1>4. r \in Situation
  BY <1>2 DEF Situation
<1>5. SoundRow(r)
  BY <1>2 DEF Situation, SoundRow, BeforeTheBackfill, OpenIsSound, RowIsSound, AreaIsKnown
<1> HIDE DEF r
<1> QED BY <1>2, <1>3, <1>4, <1>5, OneRow

LEMMA ReleaseInvariance == ReleaseSpec => []ReleaseInv
<1>1. ReleaseInv /\ UNCHANGED releaseVars => ReleaseInv'
  BY DEF releaseVars, ReleaseInv, ReleaseTypeOK, FilledIsCurrent, SoundRow, BeforeTheBackfill,
         OpenIsSound, RowIsSound, AreaIsKnown, Committed
<1>2. ASSUME ReleaseInv, Migrate
      PROVE  ReleaseInv'
  <2>1. CASE AddReportKind
    BY <1>2, <2>1, AddReportKindKeeps
  <2>2. CASE BackfillFills \/ BackfillCommits \/ BackfillFails
    BY <1>2, <2>2, BackfillKeeps
  <2>3. CASE \/ AddSeverityHistory \/ AddConsequences \/ AddTimelineEvents
             \/ ChangePermissions \/ LegacyInsertCompatibility
    <3>1. /\ migrated \in {1, 2, 3, 5, 6, 7, 8}
          /\ migrated' = migrated + 1
          /\ UNCHANGED <<backfilling, filled, situation>>
          /\ migrated = 7 => NobodyInserts
      BY <1>2, <2>3, Numbered
         DEF AddSeverityHistory, AddConsequences, AddTimelineEvents, ChangePermissions,
             LegacyInsertCompatibility, Applies, ReleaseInv
    <3>2. ~backfilling
      BY <1>2, <3>1 DEF ReleaseInv, FilledIsCurrent
    <3> QED BY <1>2, <3>1, <3>2, RowsStay
  <2> QED BY <1>2, <2>1, <2>2, <2>3 DEF Migrate
<1>3. ReleaseInv /\ ReleaseNext => ReleaseInv'
  BY <1>2, LegacyInsertKeeps, InsertKeeps, CommitKeeps, LegacyEditKeeps DEF ReleaseNext
<1> QED BY <1>1, <1>3, ReleaseInitInv, PTL DEF ReleaseSpec

\* Whatever is registered and edited meanwhile, and however often the backfill
\* fails: the history of every problem starts as it was reported, and its area is
\* known unless it was registered in the window.
THEOREM ReleaseLeavesRowsWhole == ReleaseSpec => []MigratedRowsAreWhole
<1>1. ReleaseInv => MigratedRowsAreWhole
  BY Numbered
     DEF ReleaseInv, MigratedRowsAreWhole, HistoryStartsAsReported, OnlyTheWindowLacksItsArea,
         SoundRow, RowIsSound, AreaIsKnown, Committed
<1> QED BY <1>1, ReleaseInvariance, PTL

-----------------------------------------------------------------------------
(* The seeds of the catalogues: BootSeeds *)

\* The item is one of its list, or the one after the last when the list is over.
ItemsFit ==
    \A s \in Boots, l \in Lists :
        /\ at[s][l].item \in 1 .. Size[l] + 1
        /\ at[s][l].step \in {"updating", "inserting", "refused"} => at[s][l].item <= Size[l]
        /\ at[s][l].step = "done" => at[s][l].item > Size[l]

\* What a server has passed is current.
PassedIsCurrent ==
    \A s \in Boots, l \in Lists :
        \A i \in 1 .. Size[l] : i < at[s][l].item => row[<<l, i>>] = "current"

\* Refused, or about to be.
Beaten(s, l) ==
    \/ at[s][l].step = "refused"
    \/ at[s][l].step = "inserting" /\ row[<<l, at[s][l].item>>] # "absent"

\* Whoever was started, one of them is not beaten.
SomebodyIsAhead ==
    \A l \in Lists :
        (\E s \in Boots : ~ Idle(s)) => \E s \in Boots : ~ Idle(s) /\ ~ Beaten(s, l)

SeedsInv == SeedsTypeOK /\ ItemsFit /\ PassedIsCurrent /\ SomebodyIsAhead

-----------------------------------------------------------------------------
\* Below the next position and not at this one is below this one.
LEMMA BelowNext == \A j, n \in Nat : j # n /\ j < n + 1 => j < n
  OBVIOUS

\* The items of a list are rows of the catalogues.
LEMMA ItemsOfAList ==
    ASSUME NEW l \in Lists
    PROVE  /\ Size[l] \in Nat \ {0}
           /\ \A i \in 1 .. Size[l] + 1 : i \in Positions /\ i \in Nat
           /\ \A i \in 1 .. Size[l] : <<l, i>> \in Items
<1>1. Size[l] \in Nat \ {0}
  BY SeedsAssumption
<1>2. \A i \in 1 .. Size[l] + 1 : i \in Positions /\ i \in Nat
  BY <1>1 DEF Positions
<1>3. \A i \in 1 .. Size[l] : <<l, i>> \in Items
  <2>1. TAKE i \in 1 .. Size[l]
  <2>2. i \in Positions /\ i <= Size[l]
    BY <1>1, <1>2
  <2> QED
    BY <2>2 DEF Items
<1> QED
  BY <1>1, <1>2, <1>3

\* The first state has the invariant.
LEMMA SeedsBegin == SeedsInit => SeedsInv
<1> SUFFICES ASSUME SeedsInit PROVE SeedsInv
  OBVIOUS
<1>1. \A s \in Boots, l \in Lists : at[s][l] = [step |-> "off", item |-> 1]
  BY DEF SeedsInit, Place
<1>2. SeedsTypeOK
  <2>1. \A l \in Lists : 1 \in Positions
    BY ItemsOfAList
  <2> QED
    BY <2>1 DEF SeedsInit, SeedsTypeOK, Place, SeedSteps
<1>3. ItemsFit /\ PassedIsCurrent
  BY <1>1, ItemsOfAList DEF ItemsFit, PassedIsCurrent
<1>4. SomebodyIsAhead
  BY <1>1 DEF SomebodyIsAhead, Idle
<1> QED
  BY <1>2, <1>3, <1>4 DEF SeedsInv

\* Looking changes only what the server is about to do.
LEMMA LookKeeps ==
    ASSUME SeedsInv, NEW s \in Boots, NEW l \in Lists, LookItem(s, l)
    PROVE  SeedsInv'
<1> DEFINE step == IF row[<<l, at[s][l].item>>] = "absent" THEN "inserting" ELSE "updating"
<1> USE DEF SeedsInv, SeedsTypeOK
<1>1. /\ at[s][l].step = "looking" /\ at[s][l].item <= Size[l] /\ row' = row
      /\ at' = [at EXCEPT ![s][l] = [step |-> step, item |-> at[s][l].item]]
  BY DEF LookItem, Go, Place
<1>2. at'[s][l] = [step |-> step, item |-> at[s][l].item]
  BY <1>1
<1>3. \A t \in Boots, m \in Lists : t # s \/ m # l => at'[t][m] = at[t][m]
  BY <1>1
<1>4. at' \in [Boots -> [Lists -> [step : SeedSteps, item : Positions]]]
  BY <1>1 DEF SeedSteps
<1>5. ItemsFit' /\ PassedIsCurrent'
  <2>1. \A t \in Boots, m \in Lists : at'[t][m].item = at[t][m].item
    <3>1. at'[s][l].item = at[s][l].item
      BY <1>2
    <3> QED BY Zenon, <3>1, <1>3
  <2>2. ItemsFit'
    <3> SUFFICES ASSUME NEW t \in Boots, NEW m \in Lists
                 PROVE  /\ at'[t][m].item \in 1 .. Size[m] + 1
                        /\ at'[t][m].step \in {"updating", "inserting", "refused"} =>
                              at'[t][m].item <= Size[m]
                        /\ at'[t][m].step = "done" => at'[t][m].item > Size[m]
      BY DEF ItemsFit
    <3>1. CASE t = s /\ m = l
      BY <3>1, <1>1, <1>2, <2>1 DEF ItemsFit
    <3>2. CASE t # s \/ m # l
      BY <3>2, <1>3 DEF ItemsFit
    <3> QED
      BY <3>1, <3>2
  <2>3. PassedIsCurrent'
    BY <2>1, <1>1 DEF PassedIsCurrent
  <2> QED
    BY <2>2, <2>3
<1>6. SomebodyIsAhead'
  <2>1. ~ Idle(s) /\ ~ Idle(s)'
    BY <1>1, <1>2 DEF Idle
  <2>2. \A t \in Boots : ~ Idle(t) => ~ Idle(t)'
    BY <2>1, <1>3 DEF Idle
  <2>3. \A t \in Boots, m \in Lists : ~ Beaten(t, m) => ~ Beaten(t, m)'
    BY <1>1, <1>2, <1>3 DEF Beaten
  <2>4. \A m \in Lists : \E t \in Boots : ~ Idle(t) /\ ~ Beaten(t, m)
    BY <2>1 DEF SomebodyIsAhead
  <2> QED
    BY <2>2, <2>3, <2>4 DEF SomebodyIsAhead
<1> QED
  BY <1>1, <1>4, <1>5, <1>6

\* Whoever saves a row, and may beat others to it, goes past it; and who is
\* refused was beaten before.
LEMMA SaveKeeps ==
    ASSUME SeedsInv, NEW s \in Boots, NEW l \in Lists, SaveItem(s, l)
    PROVE  SeedsInv'
<1> DEFINE i == <<l, at[s][l].item>>
<1> USE DEF SeedsInv, SeedsTypeOK
<1>1. at[s][l].step \in {"updating", "inserting"} /\ at[s][l].item \in 1 .. Size[l]
  BY ItemsOfAList DEF SaveItem, ItemsFit
<1>2. i \in Items /\ at[s][l].item + 1 \in 1 .. Size[l] + 1 /\ at[s][l].item + 1 \in Positions
  BY <1>1, ItemsOfAList
<1>3. ~ Idle(s)
  BY <1>1 DEF Idle
<1>4. CASE at[s][l].step = "inserting" /\ row[i] # "absent"
  <2>1. row' = row /\ at' = [at EXCEPT ![s][l] = [step |-> "refused", item |-> at[s][l].item]]
    BY <1>4 DEF SaveItem, Go, Place
  <2>2. at'[s][l] = [step |-> "refused", item |-> at[s][l].item]
    BY <2>1
  <2>3. \A t \in Boots, m \in Lists : t # s \/ m # l => at'[t][m] = at[t][m]
    BY <2>1
  <2>4. at' \in [Boots -> [Lists -> [step : SeedSteps, item : Positions]]]
    BY <2>1 DEF SeedSteps
  <2>5. ItemsFit' /\ PassedIsCurrent'
    BY <1>1, <2>1, <2>2, <2>3 DEF ItemsFit, PassedIsCurrent
  <2>6. SomebodyIsAhead'
    <3>1. \A t \in Boots : ~ Idle(t) => ~ Idle(t)'
      BY <2>2, <2>3 DEF Idle
    <3>2. Beaten(s, l)
      BY <1>4 DEF Beaten
    <3>3. \A t \in Boots, m \in Lists : ~ Beaten(t, m) => ~ Beaten(t, m)'
      BY <3>2, <2>1, <2>3 DEF Beaten
    <3>4. \A m \in Lists : \E t \in Boots : ~ Idle(t) /\ ~ Beaten(t, m)
      BY <1>3 DEF SomebodyIsAhead
    <3> QED
      BY <3>1, <3>3, <3>4 DEF SomebodyIsAhead
  <2> QED
    BY <2>1, <2>4, <2>5, <2>6
<1>5. CASE ~ (at[s][l].step = "inserting" /\ row[i] # "absent")
  <2>1. /\ row' = [row EXCEPT ![i] = "current"]
        /\ at' = [at EXCEPT ![s][l] = [step |-> "looking", item |-> at[s][l].item + 1]]
    BY <1>5 DEF SaveItem, Go, Place
  <2>2. at'[s][l] = [step |-> "looking", item |-> at[s][l].item + 1]
    BY <2>1
  <2>3. \A t \in Boots, m \in Lists : t # s \/ m # l => at'[t][m] = at[t][m]
    BY <2>1
  <2>4. /\ at' \in [Boots -> [Lists -> [step : SeedSteps, item : Positions]]]
        /\ row' \in [Items -> {"absent", "old", "current"}]
    BY <1>2, <2>1 DEF SeedSteps
  <2>5. row'[i] = "current" /\ \A j \in Items : j # i => row'[j] = row[j]
    BY <1>2, <2>1
  <2>6. ItemsFit'
    BY <1>2, <2>2, <2>3 DEF ItemsFit
  <2>7. PassedIsCurrent'
    <3> SUFFICES ASSUME NEW t \in Boots, NEW m \in Lists, NEW j \in 1 .. Size[m],
                        j < at'[t][m].item
                 PROVE  row'[<<m, j>>] = "current"
      BY DEF PassedIsCurrent
    <3>1. <<m, j>> \in Items
      BY ItemsOfAList
    <3>2. CASE <<m, j>> = i
      BY <3>2, <2>5
    <3>3. CASE <<m, j>> # i
      <4>1. j < at[t][m].item
        <5>1. CASE t = s /\ m = l
          <6>1. j # at[s][l].item /\ j < at[s][l].item + 1
            BY <5>1, <3>3, <2>2
          <6>2. j \in Nat /\ at[s][l].item \in Nat
            BY <1>1, ItemsOfAList
          <6>3. j < at[s][l].item
            BY <6>1, <6>2, BelowNext
          <6> QED
            BY <5>1, <6>3
        <5>2. CASE t # s \/ m # l
          BY <5>2, <2>3
        <5> QED
          BY <5>1, <5>2
      <4> QED
        BY <4>1, <3>1, <3>3, <2>5 DEF PassedIsCurrent
    <3> QED
      BY <3>2, <3>3
  <2>8. SomebodyIsAhead'
    <3>1. ~ Idle(s)' /\ ~ Beaten(s, l)'
      BY <2>2 DEF Idle, Beaten
    <3>2. \A t \in Boots : ~ Idle(t) => ~ Idle(t)'
      BY <3>1, <2>3 DEF Idle
    <3>3. \A t \in Boots, m \in Lists : m # l /\ ~ Beaten(t, m) => ~ Beaten(t, m)'
      <4> SUFFICES ASSUME NEW t \in Boots, NEW m \in Lists, m # l, ~ Beaten(t, m)
                   PROVE  ~ Beaten(t, m)'
        OBVIOUS
      <4>1. at'[t][m] = at[t][m]
        BY <2>3
      <4>2. CASE at[t][m].step = "inserting"
        <5>1. <<m, at[t][m].item>> \in Items /\ <<m, at[t][m].item>> # i
          BY <4>2, ItemsOfAList DEF ItemsFit
        <5> QED
          BY <5>1, <4>1, <4>2, <2>5 DEF Beaten
      <4>3. CASE at[t][m].step # "inserting"
        BY <4>1, <4>3 DEF Beaten
      <4> QED
        BY <4>2, <4>3
    <3>4. \A m \in Lists : \E t \in Boots : ~ Idle(t) /\ ~ Beaten(t, m)
      BY <1>3 DEF SomebodyIsAhead
    <3> QED
      BY <3>1, <3>2, <3>3, <3>4 DEF SomebodyIsAhead
  <2> QED
    BY <2>4, <2>6, <2>7, <2>8
<1> QED
  BY <1>4, <1>5

\* At the end of a list all of it has been passed.
LEMMA EndKeeps ==
    ASSUME SeedsInv, NEW s \in Boots, NEW l \in Lists, EndList(s, l)
    PROVE  SeedsInv'
<1> USE DEF SeedsInv, SeedsTypeOK
<1>1. at[s][l].step = "looking" /\ at[s][l].item > Size[l] /\ row' = row
  BY DEF EndList
<1>2. at'[s] = [m \in Lists |-> IF m = l THEN [step |-> "done", item |-> at[s][l].item]
                               ELSE IF l = Awaited THEN [step |-> "looking", item |-> 1]
                               ELSE at[s][m]]
  BY DEF EndList, Place
<1>3. \A t \in Boots : t # s => at'[t] = at[t]
  BY DEF EndList
<1>4. \A m \in Lists : 1 \in Positions /\ 1 \in 1 .. Size[m] + 1
  BY ItemsOfAList
<1>5. at' \in [Boots -> [Lists -> [step : SeedSteps, item : Positions]]]
  <2>1. at'[s] \in [Lists -> [step : SeedSteps, item : Positions]]
    BY <1>2, <1>4 DEF SeedSteps
  <2> QED
    BY <2>1 DEF EndList
<1>6. \A t \in Boots, m \in Lists :
         \/ t = s /\ m = l /\ at'[t][m] = [step |-> "done", item |-> at[s][l].item]
         \/ at'[t][m] = [step |-> "looking", item |-> 1]
         \/ at'[t][m] = at[t][m]
  BY <1>2, <1>3
<1>7. ItemsFit'
  BY <1>1, <1>4, <1>6 DEF ItemsFit
<1>8. PassedIsCurrent'
  <2> SUFFICES ASSUME NEW t \in Boots, NEW m \in Lists, NEW j \in 1 .. Size[m],
                      j < at'[t][m].item
               PROVE  row'[<<m, j>>] = "current"
    BY DEF PassedIsCurrent
  <2>1. ~ (j < 1)
    BY ItemsOfAList
  <2>2. j < at[t][m].item
    BY <1>6, <2>1
  <2> QED
    BY <1>1, <2>2 DEF PassedIsCurrent
<1>9. SomebodyIsAhead'
  <2>1. ~ Idle(s)
    BY <1>1 DEF Idle
  <2>2. ~ Idle(s)' /\ \A t \in Boots : ~ Idle(t) => ~ Idle(t)'
    BY <1>2, <1>3 DEF Idle
  <2>3. \A t \in Boots, m \in Lists : ~ Beaten(t, m) => ~ Beaten(t, m)'
    <3> SUFFICES ASSUME NEW t \in Boots, NEW m \in Lists, ~ Beaten(t, m) PROVE ~ Beaten(t, m)'
      OBVIOUS
    <3>1. CASE at'[t][m].step \in {"done", "looking"}
      BY <3>1 DEF Beaten
    <3>2. CASE at'[t][m] = at[t][m]
      BY <3>2, <1>1 DEF Beaten
    <3> QED
      BY <3>1, <3>2, <1>6
  <2>4. \A m \in Lists : \E t \in Boots : ~ Idle(t) /\ ~ Beaten(t, m)
    BY <2>1 DEF SomebodyIsAhead
  <2> QED
    BY <2>2, <2>3, <2>4 DEF SomebodyIsAhead
<1> QED
  BY <1>1, <1>5, <1>7, <1>8, <1>9

\* A server that starts, or is replaced, is beaten by nobody.
LEMMA BeginningKeeps ==
    ASSUME SeedsInv, NEW s \in Boots, StartServer(s) \/ ProbeRestarts(s)
    PROVE  SeedsInv'
<1> USE DEF SeedsInv, SeedsTypeOK
<1>1. row' = row /\ at' = [at EXCEPT ![s] = Beginning]
  BY DEF StartServer, ProbeRestarts
<1>2. \A m \in Lists : 1 \in Positions /\ 1 \in 1 .. Size[m] + 1
  BY ItemsOfAList
<1>3. \A m \in Lists : at'[s][m] = [step |-> IF m = Awaited THEN "looking" ELSE "off", item |-> 1]
  BY <1>1 DEF Beginning, Place
<1>4. \A t \in Boots : t # s => at'[t] = at[t]
  BY <1>1
<1>5. \A m \in Lists : /\ at'[s][m].item = 1
                       /\ at'[s][m].step \in {"looking", "off"}
                       /\ m = Awaited => at'[s][m].step = "looking"
  <2> SUFFICES ASSUME NEW m \in Lists
               PROVE  /\ at'[s][m].item = 1
                      /\ at'[s][m].step \in {"looking", "off"}
                      /\ m = Awaited => at'[s][m].step = "looking"
    OBVIOUS
  <2>1. CASE m = Awaited
    <3>1. at'[s][m] = [step |-> "looking", item |-> 1]
      BY <2>1, <1>3
    <3> QED
      BY <3>1
  <2>2. CASE m # Awaited
    <3>1. at'[s][m] = [step |-> "off", item |-> 1]
      BY <2>2, <1>3
    <3> QED
      BY <2>2, <3>1
  <2> QED
    BY <2>1, <2>2
<1>6. at' \in [Boots -> [Lists -> [step : SeedSteps, item : Positions]]]
  <2>1. Beginning \in [Lists -> [step : SeedSteps, item : Positions]]
    BY <1>2 DEF Beginning, Place, SeedSteps
  <2> QED
    BY <1>1, <2>1
<1>7. ItemsFit' /\ PassedIsCurrent'
  <2>1. ItemsFit'
    <3> SUFFICES ASSUME NEW t \in Boots, NEW m \in Lists
                 PROVE  /\ at'[t][m].item \in 1 .. Size[m] + 1
                        /\ at'[t][m].step \in {"updating", "inserting", "refused"} =>
                              at'[t][m].item <= Size[m]
                        /\ at'[t][m].step = "done" => at'[t][m].item > Size[m]
      BY DEF ItemsFit
    <3>1. CASE t = s
      BY <3>1, <1>2, <1>5
    <3>2. CASE t # s
      BY <3>2, <1>4 DEF ItemsFit
    <3> QED
      BY <3>1, <3>2
  <2>2. PassedIsCurrent'
    <3> SUFFICES ASSUME NEW t \in Boots, NEW m \in Lists, NEW j \in 1 .. Size[m],
                        j < at'[t][m].item
                 PROVE  row'[<<m, j>>] = "current"
      BY DEF PassedIsCurrent
    <3>1. t # s
      BY <1>5, ItemsOfAList
    <3> QED
      BY <3>1, <1>1, <1>4 DEF PassedIsCurrent
  <2> QED
    BY <2>1, <2>2
<1>8. SomebodyIsAhead'
  <2>1. ~ Idle(s)'
    BY <1>5, SeedsAssumption DEF Idle
  <2>2. \A m \in Lists : ~ Beaten(s, m)'
    BY <1>5 DEF Beaten
  <2> QED
    BY <2>1, <2>2 DEF SomebodyIsAhead
<1> QED
  BY <1>1, <1>6, <1>7, <1>8

\* Who dies is not beaten for that.
LEMMA DeathKeeps ==
    ASSUME SeedsInv, NEW s \in Boots, ServerDies(s)
    PROVE  SeedsInv'
<1> USE DEF SeedsInv, SeedsTypeOK
<1>1. row' = row /\ ~ Idle(s)
  BY DEF ServerDies
<1>2. \A t \in Boots, m \in Lists :
         \/ at'[t][m] = at[t][m]
         \/ t = s /\ at[t][m].step # "off" /\ at'[t][m] = [step |-> "dead", item |-> at[t][m].item]
  BY DEF ServerDies, Place
<1>3. \A t \in Boots, m \in Lists :
         /\ at'[t][m].item = at[t][m].item
         /\ \/ at'[t][m].step = at[t][m].step
            \/ at[t][m].step # "off" /\ at'[t][m].step = "dead"
  <2> SUFFICES ASSUME NEW t \in Boots, NEW m \in Lists
               PROVE  /\ at'[t][m].item = at[t][m].item
                      /\ \/ at'[t][m].step = at[t][m].step
                         \/ at[t][m].step # "off" /\ at'[t][m].step = "dead"
    OBVIOUS
  <2>1. CASE at'[t][m] = at[t][m]
    BY <2>1
  <2>2. CASE /\ at[t][m].step # "off"
             /\ at'[t][m] = [step |-> "dead", item |-> at[t][m].item]
    BY <2>2
  <2> QED
    BY <2>1, <2>2, <1>2
<1>4. at' \in [Boots -> [Lists -> [step : SeedSteps, item : Positions]]]
  <2>1. at'[s] \in [Lists -> [step : SeedSteps, item : Positions]]
    BY DEF ServerDies, Place, SeedSteps
  <2> QED
    BY <2>1 DEF ServerDies
<1>5. ItemsFit' /\ PassedIsCurrent'
  <2>1. \A t \in Boots, m \in Lists : at'[t][m].item = at[t][m].item
    BY <1>3
  <2>2. ItemsFit'
    BY <1>3 DEF ItemsFit
  <2>3. PassedIsCurrent'
    BY <1>1, <2>1 DEF PassedIsCurrent
  <2> QED
    BY <2>2, <2>3
<1>6. SomebodyIsAhead'
  <2>1. \A t \in Boots : ~ Idle(t) => ~ Idle(t)'
    BY <1>3 DEF Idle
  <2>2. \A t \in Boots, m \in Lists : ~ Beaten(t, m) => ~ Beaten(t, m)'
    <3> SUFFICES ASSUME NEW t \in Boots, NEW m \in Lists, ~ Beaten(t, m) PROVE ~ Beaten(t, m)'
      OBVIOUS
    <3>1. CASE at'[t][m].step = "dead"
      BY <3>1 DEF Beaten
    <3>2. CASE at'[t][m].step = at[t][m].step
      <4>1. at'[t][m].item = at[t][m].item /\ row' = row
        BY <1>1, <1>3
      <4> QED
        BY <3>2, <4>1 DEF Beaten
    <3> QED
      BY <3>1, <3>2, <1>3
  <2>3. \A m \in Lists : \E t \in Boots : ~ Idle(t) /\ ~ Beaten(t, m)
    BY <1>1 DEF SomebodyIsAhead
  <2> QED
    BY <2>1, <2>2, <2>3 DEF SomebodyIsAhead
<1> QED
  BY <1>1, <1>4, <1>5, <1>6

-----------------------------------------------------------------------------
\* The invariant is inductive.
LEMMA SeedsInvariant == SeedsSpec => []SeedsInv
<1>1. SeedsInv /\ [SeedsNext]_seedVars => SeedsInv'
  <2> SUFFICES ASSUME SeedsInv, [SeedsNext]_seedVars PROVE SeedsInv'
    OBVIOUS
  <2>1. CASE UNCHANGED seedVars
    <3>1. row' = row /\ at' = at
      BY <2>1 DEF seedVars
    <3>2. SeedsTypeOK'
      BY <3>1 DEF SeedsInv, SeedsTypeOK
    <3>3. ItemsFit' /\ PassedIsCurrent'
      BY <3>1 DEF SeedsInv, ItemsFit, PassedIsCurrent
    <3>4. SomebodyIsAhead'
      BY <3>1 DEF SeedsInv, SomebodyIsAhead, Idle, Beaten
    <3> QED
      BY <3>2, <3>3, <3>4 DEF SeedsInv
  <2>2. ASSUME NEW s \in Boots, StartServer(s) \/ ProbeRestarts(s) PROVE SeedsInv'
    BY <2>2, BeginningKeeps
  <2>3. ASSUME NEW s \in Boots, ServerDies(s) PROVE SeedsInv'
    BY <2>3, DeathKeeps
  <2>4. ASSUME NEW s \in Boots, NEW l \in Lists, SeedStep(s, l) PROVE SeedsInv'
    BY <2>4, LookKeeps, SaveKeeps, EndKeeps DEF SeedStep
  <2> QED
    BY <2>1, <2>2, <2>3, <2>4 DEF SeedsNext
<1> QED
  BY <1>1, SeedsBegin, PTL DEF SeedsSpec

\* However many servers boot, on whatever rows, with whatever failures and
\* restarts, their refusals never leave a catalogue without one that completes it
\* (the save of CoordinationCatalogSeedService.seedCoordinations and its likes).
THEOREM SomebodyWrites == SeedsSpec => []SomebodySeeds
<1>1. SeedsInv => SomebodySeeds
  <2> SUFFICES ASSUME SeedsInv, NEW l \in Lists, \E s \in Boots : ~ Idle(s),
                      \A s \in Boots : Idle(s) \/ at[s][l].step \in {"done", "refused"}
               PROVE  /\ \E s \in Boots : at[s][l].step = "done"
                      /\ \A i \in 1 .. Size[l] : row[<<l, i>>] = "current"
    BY DEF SomebodySeeds
  <2>1. PICK s \in Boots : ~ Idle(s) /\ ~ Beaten(s, l)
    BY DEF SeedsInv, SomebodyIsAhead
  <2>2. at[s][l].step = "done"
    BY <2>1 DEF Beaten
  <2>3. \A i \in 1 .. Size[l] : i < at[s][l].item
    BY <2>2, ItemsOfAList DEF SeedsInv, ItemsFit
  <2> QED
    BY <2>2, <2>3 DEF SeedsInv, PassedIsCurrent
<1> QED
  BY <1>1, SeedsInvariant, PTL

-----------------------------------------------------------------------------
(* The synchronisation of permissions: RbacSync *)

\* What a synchronisation has still to take and to give.
ListsFit ==
    \A s \in Syncs :
        /\ revokes[s] \cap Expected[role[s]] = {}
        /\ grants[s] \subseteq Expected[role[s]]
        /\ phase[s] \in {"off", "reading", "granting", "inserting", "done"} => revokes[s] = {}
        /\ phase[s] \in {"off", "reading", "done"} => grants[s] = {}
        /\ phase[s] = "off" => role[s] = 1
        /\ phase[s] = "done" => role[s] = RoleCount

\* What it passed is at the catalogue, and what is not yet of the role it is at
\* is in its lists.
Covered ==
    \A s \in Syncs, r \in Roles :
        /\ r < role[s] \/ phase[s] = "done" => Synchronised(r)
        /\ r = role[s] /\ phase[s] \notin {"off", "reading", "dead"} =>
              /\ granted[r] \ Expected[r] \subseteq revokes[s]
              /\ \A p \in Expected[r] \ granted[r] : p \in grants[s] \/ <<r, p>> \in skipped

\* Who is refused found what it came for already done.
Refused ==
    \A s \in Syncs :
        phase[s] = "refused" =>
            \/ s \in Servers /\ \E p \in revokes[s] : p \notin granted[role[s]]
            \/ s \in Jobs /\ \E p \in grants[s] : p \in granted[role[s]]

Died == \E s \in Syncs : phase[s] = "dead"

\* t is beyond the removal of p from r: it cannot be refused there.  A job is not
\* refused while it removes.
PastRevoke(t, r, p) ==
    \/ r < role[t]
    \/ /\ r = role[t] /\ phase[t] \notin {"off", "reading", "dead"}
       /\ t \in Jobs \/ \A q \in revokes[t] : p < q

\* t is beyond the insertion of p in r.
PastGrant(t, r, p) ==
    \/ r < role[t]
    \/ /\ r = role[t] /\ phase[t] \in {"granting", "inserting", "done"}
       /\ \A q \in grants[t] : p < q

\* Somebody that goes on is beyond each removal that another one finds done.
RevokeFront ==
    Died \/ \A s \in Syncs : \A p \in revokes[s] :
        p \notin granted[role[s]] =>
            \E t \in Syncs : phase[t] # "refused" /\ PastRevoke(t, role[s], p)

\* And beyond each insertion that a job finds done.
GrantFront ==
    Died \/ \A s \in Jobs : \A p \in grants[s] :
        p \in granted[role[s]] =>
            \E t \in Syncs : phase[t] # "refused" /\ PastGrant(t, role[s], p)

RbacInv == RbacTypeOK /\ ListsFit /\ Covered /\ Refused /\ RevokeFront /\ GrantFront

-----------------------------------------------------------------------------
(* The invariant *)

\* Nobody has started.
LEMMA RbacInitInv == RbacInit => RbacInv
<1> SUFFICES ASSUME RbacInit PROVE RbacInv
  OBVIOUS
<1> USE RbacAssumption DEF RbacInit, Roles
<1>1. RbacTypeOK
  BY DEF RbacTypeOK, RbacSteps
<1>2. ListsFit
  BY DEF ListsFit
<1>3. Covered
  BY DEF Covered
<1>4. Refused /\ RevokeFront /\ GrantFront
  BY DEF Refused, RevokeFront, GrantFront, Syncs
<1> QED BY <1>1, <1>2, <1>3, <1>4 DEF RbacInv

\* Every variable keeps its type.
LEMMA RbacTypeStep ==
  ASSUME RbacTypeOK, NEW s \in Syncs, Boot(s) \/ SyncStep(s) \/ SyncDies(s)
  PROVE  RbacTypeOK'
<1> USE RbacAssumption DEF RbacTypeOK, RbacSteps, Enter, Roles
<1>1. CASE Boot(s)
  BY <1>1 DEF Boot
<1>2. CASE ReadRole(s)
  BY <1>2 DEF ReadRole, Unexpected
<1>3. CASE FindAssignment(s)
  BY <1>3 DEF FindAssignment
<1>4. CASE RemoveAssignment(s)
  BY <1>4 DEF RemoveAssignment
<1>5. CASE StartGranting(s)
  BY <1>5 DEF StartGranting
<1>6. CASE LookAssignment(s)
  BY <1>6 DEF LookAssignment
<1>7. CASE InsertAssignment(s)
  <2>1. PICK p \in grants[s] :
           IF s \in Jobs /\ p \in granted[role[s]]
           THEN Enter(s, "refused") /\ UNCHANGED <<granted, grants>>
           ELSE /\ granted' = [granted EXCEPT ![role[s]] = @ \cup {p}]
                /\ grants' = [grants EXCEPT ![s] = @ \ {p}]
                /\ Enter(s, "granting")
    BY <1>7 DEF InsertAssignment
  <2>2. UNCHANGED <<role, revokes, skipped>>
    BY <1>7 DEF InsertAssignment
  <2>3. phase' \in [Syncs -> RbacSteps]
    BY <2>1
  <2>4. p \in Permissions /\ role[s] \in Roles
    OBVIOUS
  <2>5. granted' \in [Roles -> SUBSET Permissions]
    <3>1. granted' = granted \/ granted' = [granted EXCEPT ![role[s]] = @ \cup {p}]
      BY <2>1
    <3>2. granted[role[s]] \cup {p} \in SUBSET Permissions
      BY <2>4
    <3> QED BY <3>1, <3>2, <2>4
  <2>6. grants' \in [Syncs -> SUBSET Permissions]
    <3>1. grants' = grants \/ grants' = [grants EXCEPT ![s] = @ \ {p}]
      BY <2>1
    <3> QED BY <3>1
  <2> QED BY <2>2, <2>3, <2>5, <2>6
<1>8. CASE SkipGrant(s)
  BY <1>8 DEF SkipGrant
<1>9. CASE NextRole(s)
  BY <1>9 DEF NextRole
<1>10. CASE SyncDies(s)
  BY <1>10 DEF SyncDies
<1> QED BY <1>1, <1>2, <1>3, <1>4, <1>5, <1>6, <1>7, <1>8, <1>9, <1>10 DEF SyncStep

\* The lists hold nothing else, and are empty when they were gone through.
LEMMA ListsStep ==
  ASSUME RbacTypeOK, ListsFit, NEW s \in Syncs, Boot(s) \/ SyncStep(s) \/ SyncDies(s)
  PROVE  ListsFit'
<1> USE RbacAssumption DEF RbacTypeOK, Enter, Roles, ListsFit
<1>1. CASE Boot(s)
  BY <1>1 DEF Boot
<1>2. CASE ReadRole(s)
  BY <1>2 DEF ReadRole, Unexpected
<1>3. CASE FindAssignment(s)
  BY <1>3 DEF FindAssignment
<1>4. CASE RemoveAssignment(s)
  BY <1>4 DEF RemoveAssignment
<1>5. CASE StartGranting(s)
  BY <1>5 DEF StartGranting
<1>6. CASE LookAssignment(s)
  BY <1>6 DEF LookAssignment
<1>7. CASE InsertAssignment(s)
  BY <1>7 DEF InsertAssignment
<1>8. CASE SkipGrant(s)
  BY <1>8 DEF SkipGrant
<1>9. CASE NextRole(s)
  BY <1>9 DEF NextRole
<1>10. CASE SyncDies(s)
  BY <1>10 DEF SyncDies
<1> QED BY <1>1, <1>2, <1>3, <1>4, <1>5, <1>6, <1>7, <1>8, <1>9, <1>10 DEF SyncStep

\* Which permissions a step takes and gives: none but those of its own lists.
LEMMA RbacMoves ==
  ASSUME RbacTypeOK, ListsFit, NEW s \in Syncs, Boot(s) \/ SyncStep(s) \/ SyncDies(s)
  PROVE  \A r \in Roles :
            /\ granted[r] \cap Expected[r] \subseteq granted'[r]
            /\ granted'[r] \subseteq granted[r] \cup Expected[r]
<1> USE RbacAssumption DEF RbacTypeOK, Roles, ListsFit
<1>1. CASE UNCHANGED granted
  BY <1>1
<1>2. CASE RemoveAssignment(s)
  BY <1>2 DEF RemoveAssignment
<1>3. CASE InsertAssignment(s)
  BY <1>3 DEF InsertAssignment
<1> QED BY <1>1, <1>2, <1>3 DEF Boot, SyncStep, SyncDies, ReadRole, FindAssignment,
           StartGranting, LookAssignment, SkipGrant, NextRole

\* So a role at the catalogue stays there.
LEMMA StaysSynchronised ==
  ASSUME RbacTypeOK, ListsFit, NEW s \in Syncs, Boot(s) \/ SyncStep(s) \/ SyncDies(s),
         NEW r \in Roles, Synchronised(r)
  PROVE  Synchronised(r)'
<1>1. skipped \subseteq skipped'
  BY DEF Boot, SyncStep, SyncDies, ReadRole, FindAssignment, RemoveAssignment,
         StartGranting, LookAssignment, InsertAssignment, SkipGrant, NextRole
<1>2. Expected[r] \cap granted[r] \subseteq granted'[r] /\ granted'[r] \subseteq granted[r] \cup Expected[r]
  BY RbacMoves
<1> QED BY <1>1, <1>2 DEF Synchronised

\* What is passed is at the catalogue, and the rest is in the lists.
LEMMA CoveredStep ==
  ASSUME RbacTypeOK, ListsFit, Covered, NEW s \in Syncs, Boot(s) \/ SyncStep(s) \/ SyncDies(s)
  PROVE  Covered'
<1> DEFINE Passed(t, r) == r < role[t] \/ phase[t] = "done"
           AtRole(t, r) == r = role[t] /\ phase[t] \notin {"off", "reading", "dead"}
           Listed(t, r) ==
               /\ granted[r] \ Expected[r] \subseteq revokes[t]
               /\ \A p \in Expected[r] \ granted[r] : p \in grants[t] \/ <<r, p>> \in skipped
<1> SUFFICES ASSUME NEW t \in Syncs, NEW r \in Roles
             PROVE  (Passed(t, r) => Synchronised(r))' /\ (AtRole(t, r) => Listed(t, r))'
  BY DEF Covered
<1>0. /\ Passed(t, r) => Synchronised(r)
      /\ AtRole(t, r) => Listed(t, r)
  BY DEF Covered
<1>m. /\ granted[r] \cap Expected[r] \subseteq granted'[r]
      /\ granted'[r] \subseteq granted[r] \cup Expected[r]
  BY RbacMoves
<1>k. skipped \subseteq skipped'
  BY DEF Boot, SyncStep, SyncDies, ReadRole, FindAssignment, RemoveAssignment,
         StartGranting, LookAssignment, InsertAssignment, SkipGrant, NextRole
<1>s. Synchronised(r) => Synchronised(r)'
  BY StaysSynchronised
<1> USE RbacAssumption DEF RbacTypeOK, Enter, Roles, ListsFit
<1>t. CASE /\ phase'[t] = phase[t] /\ role'[t] = role[t]
           /\ revokes'[t] = revokes[t] /\ grants'[t] = grants[t]
  BY <1>t, <1>0, <1>m, <1>k, <1>s
<1>1. CASE Boot(s)
  BY <1>1, <1>0, <1>m, <1>k, <1>s DEF Boot
<1>2. CASE ReadRole(s)
  BY <1>2, <1>0, <1>m, <1>k, <1>s DEF ReadRole, Unexpected, Syncs
<1>3. CASE FindAssignment(s)
  BY <1>3, <1>0, <1>m, <1>k, <1>s DEF FindAssignment
<1>4. CASE RemoveAssignment(s)
  BY <1>4, <1>0, <1>m, <1>k, <1>s DEF RemoveAssignment
<1>5. CASE StartGranting(s)
  BY <1>5, <1>0, <1>m, <1>k, <1>s DEF StartGranting
<1>6. CASE LookAssignment(s)
  <2>1. CASE t # s
    BY <2>1, <1>6, <1>t DEF LookAssignment
  <2>2. CASE t = s
    <3>1. PICK p \in grants[s] :
             IF p \in granted[role[s]]
             THEN grants' = [grants EXCEPT ![s] = @ \ {p}] /\ UNCHANGED phase
             ELSE Enter(s, "inserting") /\ UNCHANGED grants
      BY <1>6 DEF LookAssignment
    <3>2. phase[s] = "granting" /\ UNCHANGED <<granted, role, revokes, skipped>>
      BY <1>6 DEF LookAssignment
    <3>3. phase'[s] \in {"granting", "inserting"}
      BY <3>1, <3>2
    <3>4. \A q \in grants[s] : q \in grants'[s] \/ q \in granted[role[s]]
      BY <3>1
    <3>5. Passed(t, r)' => Synchronised(r)'
      BY <3>2, <3>3, <2>2, <1>0, <1>s
    <3>6. AtRole(t, r)' => r = role[s] /\ Listed(t, r)
      BY <3>2, <2>2, <1>0
    <3>7. AtRole(t, r)' => Listed(t, r)'
      BY <3>6, <3>4, <3>2, <2>2
    <3> QED BY <3>5, <3>7
  <2> QED BY <2>1, <2>2
<1>7. CASE InsertAssignment(s)
  BY <1>7, <1>0, <1>m, <1>k, <1>s DEF InsertAssignment
<1>8. CASE SkipGrant(s)
  BY <1>8, <1>0, <1>m, <1>k, <1>s DEF SkipGrant
<1>9. CASE NextRole(s)
  <2>1. CASE t # s
    BY <2>1, <1>9, <1>t DEF NextRole
  <2>2. CASE t = s
    <3>1. phase[s] = "granting" /\ revokes[s] = {} /\ grants[s] = {}
      BY <1>9 DEF NextRole
    <3>2. UNCHANGED <<granted, skipped>> /\ Synchronised(r)' = Synchronised(r)
      BY <1>9 DEF NextRole, Synchronised
    <3>3. r = role[s] => Synchronised(r)
      BY <3>1, <2>2, <1>0 DEF Synchronised
    <3>4. r <= role[s] => Synchronised(r)
      BY <3>3, <2>2, <1>0
    <3>5. \/ role[s] = RoleCount /\ role' = role /\ phase'[s] = "done"
          \/ role'[s] = role[s] + 1 /\ phase'[s] = "reading"
      BY <1>9 DEF NextRole
    <3>6. Passed(t, r)' => r <= role[s]
      BY <3>5, <2>2
    <3>7. AtRole(t, r)' => /\ r = role[s] /\ UNCHANGED <<granted, skipped, grants, revokes>>
                          /\ AtRole(t, r)
      BY <3>5, <3>1, <2>2, <1>9 DEF NextRole
    <3>8. AtRole(t, r)' => Listed(t, r)'
      BY <3>7, <1>0
    <3> QED BY <3>2, <3>4, <3>6, <3>8
  <2> QED BY <2>1, <2>2
<1>10. CASE SyncDies(s)
  <2>1. CASE t # s
    BY <2>1, <1>10, <1>t DEF SyncDies
  <2>2. CASE t = s
    <3>1. phase'[t] = "dead" /\ role'[t] = role[t] /\ phase[t] # "done"
      BY <2>2, <1>10 DEF SyncDies, Ended
    <3>2. Passed(t, r)' => Passed(t, r)
      BY <3>1
    <3>3. ~ AtRole(t, r)'
      BY <3>1
    <3> QED BY <3>2, <3>3, <1>0, <1>s
  <2> QED BY <2>1, <2>2
<1> QED BY <1>1, <1>2, <1>3, <1>4, <1>5, <1>6, <1>7, <1>8, <1>9, <1>10 DEF SyncStep

\* Who was refused is still where it was, and the assignment it was at stays so.
LEMMA RefusedStep ==
  ASSUME RbacTypeOK, ListsFit, Refused, NEW s \in Syncs, Boot(s) \/ SyncStep(s) \/ SyncDies(s)
  PROVE  Refused'
<1> SUFFICES ASSUME NEW t \in Syncs, phase'[t] = "refused"
             PROVE  \/ t \in Servers /\ \E p \in revokes'[t] : p \notin granted'[role'[t]]
                    \/ t \in Jobs /\ \E p \in grants'[t] : p \in granted'[role'[t]]
  BY DEF Refused
<1> USE RbacAssumption DEF RbacTypeOK, Enter, Roles
<1>1. CASE phase[t] = "refused"
  <2>1. UNCHANGED <<role[t], revokes[t], grants[t]>>
    BY <1>1 DEF Boot, SyncStep, SyncDies, ReadRole, FindAssignment, RemoveAssignment, Ended,
           StartGranting, LookAssignment, InsertAssignment, SkipGrant, NextRole
  <2>2. /\ granted[role[t]] \cap Expected[role[t]] \subseteq granted'[role[t]]
        /\ granted'[role[t]] \subseteq granted[role[t]] \cup Expected[role[t]]
    BY RbacMoves
  <2> QED BY <1>1, <2>1, <2>2 DEF Refused, ListsFit
<1>2. CASE phase[t] # "refused"
  <2>1. t = s /\ (FindAssignment(s) \/ InsertAssignment(s))
    BY <1>2 DEF Boot, SyncStep, SyncDies, ReadRole, FindAssignment, RemoveAssignment,
           StartGranting, LookAssignment, InsertAssignment, SkipGrant, NextRole
  <2> QED BY <2>1 DEF FindAssignment, InsertAssignment
<1> QED BY <1>1, <1>2

\* Who is beyond an assignment and goes on stays beyond it.
LEMMA PastStays ==
  ASSUME RbacTypeOK, ListsFit, NEW s \in Syncs, Boot(s) \/ SyncStep(s),
         NEW t \in Syncs, phase'[t] # "refused", NEW r \in Roles, NEW p \in Permissions
  PROVE  /\ PastRevoke(t, r, p) => PastRevoke(t, r, p)'
         /\ PastGrant(t, r, p) => PastGrant(t, r, p)'
<1> USE RbacAssumption DEF RbacTypeOK, Enter, Roles, ListsFit, PastRevoke, PastGrant
<1>1. CASE t # s
  <2>1. /\ phase'[t] = phase[t] /\ role'[t] = role[t]
        /\ revokes'[t] = revokes[t] /\ grants'[t] = grants[t]
    BY <1>1 DEF Boot, SyncStep, ReadRole, FindAssignment, RemoveAssignment,
           StartGranting, LookAssignment, InsertAssignment, SkipGrant, NextRole
  <2> QED BY <2>1
<1>2. CASE t = s
  <2>1. CASE Boot(s)
    BY <2>1, <1>2 DEF Boot
  <2>2. CASE ReadRole(s)
    <3>1. role' = role /\ phase[s] = "reading"
      BY <2>2 DEF ReadRole
    <3> QED BY <3>1, <1>2
  <2>3. CASE FindAssignment(s)
    BY <2>3, <1>2 DEF FindAssignment
  <2>4. CASE RemoveAssignment(s)
    <3>1. /\ UNCHANGED <<role, grants>> /\ phase'[s] = "revoking"
          /\ phase[s] \in {"removing", "revoking"}
      BY <2>4 DEF RemoveAssignment
    <3>2. revokes'[s] \subseteq revokes[s]
      BY <2>4 DEF RemoveAssignment
    <3> QED BY <3>1, <3>2, <1>2
  <2>5. CASE StartGranting(s)
    BY <2>5, <1>2 DEF StartGranting
  <2>6. CASE LookAssignment(s)
    <3>1. /\ UNCHANGED <<role, revokes>> /\ phase[s] \in {"granting", "inserting"}
          /\ phase'[s] \in {"granting", "inserting", "refused"}
      BY <2>6 DEF LookAssignment
    <3>2. grants'[s] \subseteq grants[s]
      BY <2>6 DEF LookAssignment
    <3> QED BY <3>1, <3>2, <1>2
  <2>7. CASE InsertAssignment(s)
    <3>1. /\ UNCHANGED <<role, revokes>> /\ phase[s] \in {"granting", "inserting"}
          /\ phase'[s] \in {"granting", "inserting", "refused"}
      BY <2>7 DEF InsertAssignment
    <3>2. grants'[s] \subseteq grants[s]
      BY <2>7 DEF InsertAssignment
    <3> QED BY <3>1, <3>2, <1>2
  <2>8. CASE SkipGrant(s)
    BY <2>8, <1>2 DEF SkipGrant
  <2>9. CASE NextRole(s)
    BY <2>9, <1>2 DEF NextRole
  <2> QED BY <2>1, <2>2, <2>3, <2>4, <2>5, <2>6, <2>7, <2>8, <2>9 DEF SyncStep
<1> QED BY <1>1, <1>2

\* Where somebody is refused, somebody that goes on is beyond all that the
\* refused one was beyond.
LEMMA RefusedIsReplaced ==
  ASSUME RbacTypeOK, ListsFit, RevokeFront, GrantFront, ~ Died,
         NEW s \in Syncs, Boot(s) \/ SyncStep(s), phase[s] # "refused", phase'[s] = "refused"
  PROVE  /\ UNCHANGED <<granted, role, revokes, grants>>
         /\ \E u \in Syncs : /\ u # s /\ phase[u] # "refused"
                             /\ \A r \in Roles, p \in Permissions :
                                   /\ PastRevoke(s, r, p) => PastRevoke(u, r, p)
                                   /\ PastGrant(s, r, p) => PastGrant(u, r, p)
<1> USE RbacAssumption DEF RbacTypeOK, Enter, Roles
<1>1. FindAssignment(s) \/ InsertAssignment(s)
  BY DEF Boot, SyncStep, ReadRole, FindAssignment, RemoveAssignment,
         StartGranting, LookAssignment, InsertAssignment, SkipGrant, NextRole
<1>2. CASE FindAssignment(s)
  <2>1. PICK q \in revokes[s] : IsNext(q, revokes[s]) /\ q \notin granted[role[s]]
    BY <1>2 DEF FindAssignment
  <2>2. s \in Servers /\ phase[s] = "revoking" /\ UNCHANGED <<granted, role, revokes, grants>>
    BY <1>2 DEF FindAssignment
  <2>3. PICK u \in Syncs : phase[u] # "refused" /\ PastRevoke(u, role[s], q)
    BY <2>1 DEF RevokeFront
  <2>4. u # s
    BY <2>1, <2>2, <2>3 DEF PastRevoke
  <2>5. ASSUME NEW r \in Roles, NEW p \in Permissions, PastRevoke(s, r, p)
        PROVE  PastRevoke(u, r, p)
    <3>1. r < role[s] \/ (r = role[s] /\ p < q)
      BY <2>5, <2>1, <2>2 DEF PastRevoke
    <3> QED BY <3>1, <2>3, <2>1 DEF PastRevoke
  <2>6. ASSUME NEW r \in Roles, NEW p \in Permissions, PastGrant(s, r, p)
        PROVE  PastGrant(u, r, p)
    <3>1. r < role[s]
      BY <2>6, <2>2 DEF PastGrant
    <3>2. role[s] <= role[u]
      BY <2>3 DEF PastRevoke
    <3> QED BY <3>1, <3>2 DEF PastGrant
  <2> QED BY <2>2, <2>3, <2>4, <2>5, <2>6
<1>3. CASE InsertAssignment(s)
  <2>1. PICK q \in grants[s] : IsNext(q, grants[s]) /\ q \in granted[role[s]]
    BY <1>3 DEF InsertAssignment
  <2>2. s \in Jobs /\ phase[s] = "granting" /\ UNCHANGED <<granted, role, revokes, grants>>
    BY <1>3 DEF InsertAssignment, Syncs
  <2>3. PICK u \in Syncs : phase[u] # "refused" /\ PastGrant(u, role[s], q)
    BY <2>1, <2>2 DEF GrantFront
  <2>4. u # s
    BY <2>1, <2>2, <2>3 DEF PastGrant
  <2>5. role[s] <= role[u]
    BY <2>3 DEF PastGrant
  <2>6. ASSUME NEW r \in Roles, NEW p \in Permissions, PastRevoke(s, r, p)
        PROVE  PastRevoke(u, r, p)
    <3>1. r <= role[s]
      BY <2>6 DEF PastRevoke
    <3>2. role[u] = role[s] => revokes[u] = {} /\ phase[u] \notin {"off", "reading", "dead"}
      BY <2>3 DEF PastGrant, ListsFit
    <3> QED BY <3>1, <3>2, <2>5 DEF PastRevoke
  <2>7. ASSUME NEW r \in Roles, NEW p \in Permissions, PastGrant(s, r, p)
        PROVE  PastGrant(u, r, p)
    <3>1. r < role[s] \/ (r = role[s] /\ p < q)
      BY <2>7, <2>1, <2>2 DEF PastGrant
    <3> QED BY <3>1, <2>3, <2>1 DEF PastGrant
  <2> QED BY <2>2, <2>3, <2>4, <2>6, <2>7
<1> QED BY <1>1, <1>2, <1>3

\* So whatever the step, who had somebody beyond still has.
LEMMA SomebodyBeyond ==
  ASSUME RbacTypeOK, ListsFit, RevokeFront, GrantFront, ~ Died,
         NEW s \in Syncs, Boot(s) \/ SyncStep(s), NEW r \in Roles, NEW p \in Permissions
  PROVE  /\ (\E t \in Syncs : phase[t] # "refused" /\ PastRevoke(t, r, p))
               => (\E t \in Syncs : phase[t] # "refused" /\ PastRevoke(t, r, p))'
         /\ (\E t \in Syncs : phase[t] # "refused" /\ PastGrant(t, r, p))
               => (\E t \in Syncs : phase[t] # "refused" /\ PastGrant(t, r, p))'
<1>1. \A t \in Syncs : t # s => phase'[t] = phase[t]
  BY DEF RbacTypeOK, Enter, Boot, SyncStep, ReadRole, FindAssignment, RemoveAssignment,
         StartGranting, LookAssignment, InsertAssignment, SkipGrant, NextRole
<1>2. \A t \in Syncs : phase'[t] # "refused" =>
         /\ PastRevoke(t, r, p) => PastRevoke(t, r, p)'
         /\ PastGrant(t, r, p) => PastGrant(t, r, p)'
  BY PastStays
<1>3. CASE phase'[s] # "refused" \/ phase[s] = "refused"
  BY <1>1, <1>2, <1>3
<1>4. CASE phase'[s] = "refused" /\ phase[s] # "refused"
  <2>1. PICK u \in Syncs : /\ u # s /\ phase[u] # "refused"
                           /\ PastRevoke(s, r, p) => PastRevoke(u, r, p)
                           /\ PastGrant(s, r, p) => PastGrant(u, r, p)
    BY <1>4, RefusedIsReplaced
  <2> QED BY <1>1, <1>2, <2>1
<1> QED BY <1>3, <1>4

\* Who removes an assignment is beyond it; who is to remove it now was to before.
LEMMA RevokeFrontStep ==
  ASSUME RbacTypeOK, ListsFit, RevokeFront, GrantFront, ~ Died,
         NEW s \in Syncs, Boot(s) \/ SyncStep(s)
  PROVE  RevokeFront'
<1> SUFFICES ASSUME NEW t \in Syncs, NEW p \in revokes'[t], p \notin granted'[role'[t]]
             PROVE  (\E u \in Syncs : phase[u] # "refused" /\ PastRevoke(u, role[t], p))'
  BY DEF RevokeFront
<1> USE RbacAssumption DEF RbacTypeOK, Enter, Roles
<1>1. p \in revokes[t] /\ role'[t] = role[t]
  <2>1. CASE t # s
    BY <2>1 DEF Boot, SyncStep, ReadRole, FindAssignment, RemoveAssignment,
           StartGranting, LookAssignment, InsertAssignment, SkipGrant, NextRole
  <2>2. CASE t = s /\ ReadRole(s)
    BY <2>2 DEF ReadRole, Unexpected
  <2>3. CASE t = s /\ NextRole(s)
    BY <2>3 DEF NextRole, ListsFit
  <2>4. CASE t = s /\ RemoveAssignment(s)
    BY <2>4 DEF RemoveAssignment
  <2> QED BY <2>1, <2>2, <2>3, <2>4 DEF Boot, SyncStep, FindAssignment,
             StartGranting, LookAssignment, InsertAssignment, SkipGrant
<1>2. p \in Permissions /\ role[t] \in Roles
  BY <1>1
<1>3. CASE p \notin granted[role[t]]
  <2>1. \E u \in Syncs : phase[u] # "refused" /\ PastRevoke(u, role[t], p)
    BY <1>1, <1>3 DEF RevokeFront
  <2>2. PICK r \in Roles : r = role[t]
    BY <1>2
  <2>3. (\E u \in Syncs : phase[u] # "refused" /\ PastRevoke(u, r, p))'
    BY <2>1, <2>2, <1>2, SomebodyBeyond
  <2> QED BY <2>2, <2>3, <1>1
<1>4. CASE p \in granted[role[t]]
  <2>1. RemoveAssignment(s)
    <3>1. granted' # granted
      BY <1>1, <1>4
    <3>2. ~ InsertAssignment(s)
      <4> SUFFICES ASSUME InsertAssignment(s) PROVE FALSE
        OBVIOUS
      <4>1. granted[role[t]] \subseteq granted'[role[t]]
        BY <1>2 DEF InsertAssignment
      <4> QED BY <4>1, <1>1, <1>4
    <3> QED BY <3>1, <3>2 DEF Boot, SyncStep, ReadRole, FindAssignment,
               StartGranting, LookAssignment, SkipGrant, NextRole
  <2>2. PICK q \in revokes[s] : /\ s \in Servers => IsNext(q, revokes[s])
                                /\ granted' = [granted EXCEPT ![role[s]] = @ \ {q}]
                                /\ revokes' = [revokes EXCEPT ![s] = @ \ {q}]
    BY <2>1 DEF RemoveAssignment
  <2>3. role' = role /\ phase'[s] = "revoking"
    BY <2>1 DEF RemoveAssignment
  <2>4. q = p /\ role[s] = role[t]
    BY <1>1, <1>2, <1>4, <2>2
  <2>5. s \in Jobs \/ \A o \in revokes'[s] : p < o
    BY <2>2, <2>4 DEF IsNext, Syncs
  <2> QED BY <2>3, <2>4, <2>5 DEF PastRevoke
<1> QED BY <1>3, <1>4

\* And so for who inserts one.
LEMMA GrantFrontStep ==
  ASSUME RbacTypeOK, ListsFit, RevokeFront, GrantFront, ~ Died,
         NEW s \in Syncs, Boot(s) \/ SyncStep(s)
  PROVE  GrantFront'
<1> SUFFICES ASSUME NEW t \in Jobs, NEW p \in grants'[t], p \in granted'[role'[t]]
             PROVE  (\E u \in Syncs : phase[u] # "refused" /\ PastGrant(u, role[t], p))'
  BY DEF GrantFront
<1> USE RbacAssumption DEF RbacTypeOK, Enter, Roles
<1>0. t \in Syncs /\ t \notin Servers
  BY DEF Syncs
<1>1. p \in grants[t] /\ role'[t] = role[t]
  <2>1. CASE t # s
    BY <1>0, <2>1 DEF Boot, SyncStep, ReadRole, FindAssignment, RemoveAssignment,
           StartGranting, LookAssignment, InsertAssignment, SkipGrant, NextRole
  <2>2. CASE t = s /\ ReadRole(s)
    BY <1>0, <2>2 DEF ReadRole
  <2>3. CASE t = s /\ NextRole(s)
    BY <1>0, <2>3 DEF NextRole
  <2>4. CASE t = s /\ InsertAssignment(s)
    <3>1. role' = role /\ grants'[s] \subseteq grants[s]
      BY <2>4 DEF InsertAssignment
    <3> QED BY <3>1, <2>4
  <2> QED BY <1>0, <2>1, <2>2, <2>3, <2>4 DEF Boot, SyncStep, FindAssignment, RemoveAssignment,
             StartGranting, LookAssignment, SkipGrant
<1>2. p \in Permissions /\ role[t] \in Roles
  BY <1>0, <1>1
<1>3. CASE p \in granted[role[t]]
  <2>1. \E u \in Syncs : phase[u] # "refused" /\ PastGrant(u, role[t], p)
    BY <1>1, <1>3 DEF GrantFront
  <2>2. PICK r \in Roles : r = role[t]
    BY <1>2
  <2>3. (\E u \in Syncs : phase[u] # "refused" /\ PastGrant(u, r, p))'
    BY <2>1, <2>2, <1>2, SomebodyBeyond
  <2> QED BY <2>2, <2>3, <1>1
<1>4. CASE p \notin granted[role[t]]
  <2>1. InsertAssignment(s) /\ granted' # granted
    <3>1. granted' # granted
      BY <1>1, <1>4
    <3>2. ~ RemoveAssignment(s)
      <4> SUFFICES ASSUME RemoveAssignment(s) PROVE FALSE
        OBVIOUS
      <4>1. granted'[role[t]] \subseteq granted[role[t]]
        BY <1>2 DEF RemoveAssignment
      <4> QED BY <4>1, <1>1, <1>4
    <3> QED BY <3>1, <3>2 DEF Boot, SyncStep, ReadRole, FindAssignment,
               StartGranting, LookAssignment, SkipGrant, NextRole
  <2>2. PICK q \in grants[s] : /\ IsNext(q, grants[s])
                               /\ granted' = [granted EXCEPT ![role[s]] = @ \cup {q}]
                               /\ grants' = [grants EXCEPT ![s] = @ \ {q}]
                               /\ Enter(s, "granting")
    BY <2>1 DEF InsertAssignment
  <2>3. role' = role /\ phase'[s] = "granting"
    BY <2>1, <2>2 DEF InsertAssignment
  <2>4. q = p /\ role[s] = role[t]
    BY <1>1, <1>2, <1>4, <2>2
  <2>5. \A o \in grants'[s] : p < o
    BY <2>2, <2>4 DEF IsNext
  <2> QED BY <2>3, <2>4, <2>5 DEF PastGrant
<1> QED BY <1>3, <1>4

\* The invariant holds before and after every step.
LEMMA RbacNextInv == RbacInv /\ [RbacNext]_rbacVars => RbacInv'
<1> SUFFICES ASSUME RbacInv, [RbacNext]_rbacVars PROVE RbacInv'
  OBVIOUS
<1>1. CASE UNCHANGED rbacVars
  BY <1>1 DEF RbacInv, rbacVars, RbacTypeOK, ListsFit, Covered, Synchronised, Refused, RevokeFront,
         GrantFront, Died, PastRevoke, PastGrant
<1>2. ASSUME NEW s \in Syncs, Boot(s) \/ SyncStep(s) \/ SyncDies(s)
      PROVE  RbacInv'
  <2>1. RbacTypeOK' /\ ListsFit' /\ Covered' /\ Refused'
    BY <1>2, RbacTypeStep, ListsStep, CoveredStep, RefusedStep DEF RbacInv
  <2>2. CASE Died \/ SyncDies(s)
    <3>1. Died'
      BY <1>2, <2>2 DEF RbacInv, RbacTypeOK, Died, Enter, Ended, Boot, SyncStep, SyncDies, ReadRole,
             FindAssignment, RemoveAssignment, StartGranting, LookAssignment, InsertAssignment,
             SkipGrant, NextRole
    <3> QED BY <2>1, <3>1 DEF RbacInv, RevokeFront, GrantFront
  <2>3. CASE ~ Died /\ (Boot(s) \/ SyncStep(s))
    BY <2>1, <2>3, RevokeFrontStep, GrantFrontStep DEF RbacInv
  <2> QED BY <1>2, <2>2, <2>3
<1> QED BY <1>1, <1>2 DEF RbacNext

LEMMA RbacInvariance == RbacSpec => []RbacInv
BY RbacInitInv, RbacNextInv, PTL DEF RbacSpec

-----------------------------------------------------------------------------
(* The theorems *)

\* Every variable keeps its type, whatever synchronises.
THEOREM RbacTypeCorrect == RbacSpec => []RbacTypeOK
<1>1. RbacInv => RbacTypeOK
  BY DEF RbacInv
<1> QED BY <1>1, RbacInvariance, PTL

\* A permission that the catalogue gives a role is never taken from it, however
\* many servers boot at once and whatever the matrix was.
THEOREM NeverRevoked == RbacSpec => ExpectedIsNeverRevoked
<1>1. RbacInv /\ [RbacNext]_rbacVars =>
         [\A r \in Roles : granted[r] \cap Expected[r] \subseteq granted'[r]]_rbacVars
  BY RbacMoves DEF RbacInv, RbacNext
<1> QED BY <1>1, RbacInvariance, PTL DEF RbacSpec, ExpectedIsNeverRevoked

\* Among any number of synchronisations that refuse one another, none of which
\* dies, one finishes, and leaves the matrix at the catalogue.
THEOREM SomebodyDoes == RbacSpec => []SomebodyFinishes
<1>1. RbacInv => SomebodyFinishes
  <2> SUFFICES ASSUME RbacInv,
                      \A s \in Syncs : phase[s] \in {"off", "done", "refused"},
                      NEW b \in Syncs, phase[b] # "off"
               PROVE  /\ \E s \in Syncs : phase[s] = "done"
                      /\ \A r \in Roles : Synchronised(r)
    BY DEF SomebodyFinishes
  <2> USE RbacAssumption DEF RbacInv, RbacTypeOK, Roles
  <2>1. ~ Died
    BY DEF Died
  <2>2. \E s \in Syncs : phase[s] = "done"
    <3>1. CASE phase[b] = "refused" /\ b \in Servers
      <4>1. PICK p \in revokes[b] : p \notin granted[role[b]]
        BY <3>1 DEF Refused
      <4>2. PICK u \in Syncs : phase[u] # "refused" /\ PastRevoke(u, role[b], p)
        BY <4>1, <2>1 DEF RevokeFront
      <4> QED BY <4>2 DEF PastRevoke, ListsFit
    <3>2. CASE phase[b] = "refused" /\ b \in Jobs
      <4>1. PICK p \in grants[b] : p \in granted[role[b]]
        BY <3>2 DEF Refused
      <4>2. PICK u \in Syncs : phase[u] # "refused" /\ PastGrant(u, role[b], p)
        BY <4>1, <3>2, <2>1 DEF GrantFront
      <4> QED BY <4>2 DEF PastGrant, ListsFit
    <3> QED BY <3>1, <3>2 DEF Syncs
  <2>3. \A r \in Roles : Synchronised(r)
    BY <2>2 DEF Covered
  <2> QED BY <2>2, <2>3
<1> QED BY <1>1, RbacInvariance, PTL

==============================================================================
