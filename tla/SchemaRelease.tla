---------------------------- MODULE SchemaRelease ----------------------------
(***************************************************************************)
(* The release that changes the schema under a backend that keeps serving  *)
(* (docs/RELEASE_CIRCO.md, section 4): nine migrations, each a transaction *)
(* of its own (migrationsTransactionMode 'each'), while the revision       *)
(* before them registers and edits problems with the columns it knows, and *)
(* takes the traffic back if the new one fails.                            *)
(*                                                                         *)
(* A registration is a transaction: it is seen from its insert to its      *)
(* commit because a migration that alters the table waits for it.  The     *)
(* revision before is not in this repository: the migrations say which     *)
(* columns it does not send, and that it could edit a severity.  That the  *)
(* new one is deployed once the lot is applied is the order of the         *)
(* document; the workflow does not enforce it.                             *)
(***************************************************************************)
EXTENDS Naturals, Sequences

CONSTANTS
    Situations, \* the rows there may be
    Owners,     \* coordinations
    NoOwner,    \* a problem without a coordination
    Levels,     \* severities
    Unset       \* null

ASSUME ReleaseAssumption ==
    /\ NoOwner \notin Owners
    /\ Unset \notin Owners \cup {NoOwner} \cup Levels

\* In the order of their timestamps.
Lot == <<"AddReportKind", "GrantAnalyst", "GrantDirector", "AddSeverityHistory",
         "BackfillReportedSeverity", "AddConsequences", "AddTimelineEvents",
         "LegacyInsertCompatibility", "RevokeAdminDirector">>

VARIABLES
    migrated,    \* how many migrations of the lot are committed
    backfilling, \* the backfill is open
    filled,      \* the levels it has written and not committed
    situation    \* the row of each problem, and its REPORTED entry

releaseVars == <<migrated, backfilling, filled, situation>>

NotFilled == [s \in Situations |-> Unset]

Applied(name) == \E i \in 1 .. migrated : Lot[i] = name

ComesNext(name) == migrated < Len(Lot) /\ Lot[migrated + 1] = name

(***************************************************************************)
(* told, traced, amended and unaided are history: the severity that was    *)
(* reported, whether the timeline or the audit kept it, whether an edit    *)
(* replaced it before the row had a reported severity, and whether the row *)
(* came from the former revision between the backfill of the affected      *)
(* coordination and the triggers that complete its inserts.                *)
(***************************************************************************)
Situation == [
    step     : {"absent", "inserted", "committed", "refused"},
    owner    : Owners \cup {NoOwner},
    affected : Owners \cup {NoOwner, Unset},
    severity : Levels \cup {Unset},
    reported : Levels \cup {Unset},
    first    : Levels \cup {Unset},
    marked   : BOOLEAN,
    told     : Levels \cup {Unset},
    traced   : BOOLEAN,
    amended  : BOOLEAN,
    unaided  : BOOLEAN]

Absent == [step |-> "absent", owner |-> NoOwner, affected |-> Unset, severity |-> Unset,
           reported |-> Unset, first |-> Unset, marked |-> FALSE, told |-> Unset,
           traced |-> FALSE, amended |-> FALSE, unaided |-> FALSE]

Committed(s) == situation[s].step = "committed"

\* ALTER TABLE and CREATE TRIGGER wait for the transactions that have inserted.
NobodyInserts == \A s \in Situations : situation[s].step # "inserted"

\* A migration that is one step.
Applies(name, rows) ==
    /\ ComesNext(name)
    /\ migrated' = migrated + 1
    /\ situation' = rows
    /\ UNCHANGED <<backfilling, filled>>

\* The problems that are there are INTERNAL, and affect the coordination that owns them.
AddReportKind ==
    /\ NobodyInserts
    /\ Applies("AddReportKind",
               [s \in Situations |->
                  IF Committed(s) /\ situation[s].owner # NoOwner
                  THEN [situation[s] EXCEPT !.affected = situation[s].owner]
                  ELSE situation[s]])

\* New columns and tables, and permissions: nothing a registration is stopped by.
AddSeverityHistory == NobodyInserts /\ Applies("AddSeverityHistory", situation)
AddConsequences == NobodyInserts /\ Applies("AddConsequences", situation)
AddTimelineEvents == Applies("AddTimelineEvents", situation)
ChangePermissions ==
    \E name \in {"GrantAnalyst", "GrantDirector", "RevokeAdminDirector"} :
        Applies(name, situation)

\* Mutated: the severity of the row, which an edit may have replaced.
EffectiveLevel(r) == r.severity

\* What the timeline or the audit kept of the registration, or else what the row says.
ReportedLevel(r) == IF r.traced THEN r.told ELSE r.severity

(***************************************************************************)
(* The backfill of the reported severity.  Its UPDATE takes only the rows  *)
(* it sees, which stay locked; registrations go on until SET NOT NULL has  *)
(* the table for itself, and fails if one of them left a null.             *)
(***************************************************************************)
BackfillFills ==
    /\ ComesNext("BackfillReportedSeverity")
    /\ ~backfilling
    /\ backfilling' = TRUE
    /\ filled' = [s \in Situations |->
                    IF Committed(s) THEN ReportedLevel(situation[s]) ELSE Unset]
    /\ UNCHANGED <<migrated, situation>>

BackfillCommits ==
    /\ backfilling
    /\ NobodyInserts
    /\ \A s \in Situations : Committed(s) => filled[s] # Unset
    /\ situation' = [s \in Situations |->
                       IF Committed(s)
                       THEN [situation[s] EXCEPT !.reported = filled[s], !.first = filled[s]]
                       ELSE situation[s]]
    /\ migrated' = migrated + 1
    /\ backfilling' = FALSE
    /\ filled' = NotFilled

\* A null, a deadlock with an edit that waits for a row, or a lost connection.
BackfillFails ==
    /\ backfilling
    /\ backfilling' = FALSE
    /\ filled' = NotFilled
    /\ UNCHANGED <<migrated, situation>>

\* The triggers; the problems that are there are left as they are.
LegacyInsertCompatibility ==
    /\ NobodyInserts
    /\ Applies("LegacyInsertCompatibility", situation)

\* The trigger before an insert that brings no reported severity.
LegacyDefaults(r) ==
    [r EXCEPT !.reported = r.severity,
              !.affected = IF r.owner # NoOwner THEN r.owner ELSE Unset,
              !.marked   = TRUE]

\* What the revision before sends.
Sent(owner, severity, traced, unaided) ==
    [Absent EXCEPT !.step = "inserted", !.owner = owner, !.severity = severity,
                   !.told = severity, !.traced = traced, !.unaided = unaided]

\* Its insert is completed once the triggers are there; from SET NOT NULL until
\* then it is refused.
LegacyInsert(s) ==
    /\ situation[s].step = "absent"
    /\ \E owner \in Owners \cup {NoOwner}, severity \in Levels, traced, unaided \in BOOLEAN :
          \/ /\ ~Applied("BackfillReportedSeverity")
             /\ unaided <=> Applied("AddReportKind")
             /\ situation' = [situation EXCEPT ![s] = Sent(owner, severity, traced, unaided)]
          \/ /\ Applied("BackfillReportedSeverity")
             /\ ~Applied("LegacyInsertCompatibility")
             /\ situation' = [situation EXCEPT ![s] = [Absent EXCEPT !.step = "refused"]]
          \/ /\ Applied("LegacyInsertCompatibility")
             /\ situation' = [situation EXCEPT ![s] =
                                LegacyDefaults(Sent(owner, severity, traced, FALSE))]
    /\ UNCHANGED <<migrated, backfilling, filled>>

\* The new revision is deployed when the lot is applied; it brings every column
\* and writes the REPORTED entry itself.  Of an INTERNAL problem: those that were
\* there are.
Insert(s) ==
    /\ migrated = Len(Lot)
    /\ situation[s].step = "absent"
    /\ \E owner \in Owners, severity \in Levels :
          situation' = [situation EXCEPT ![s] =
             [Absent EXCEPT !.step = "inserted", !.owner = owner, !.affected = owner,
                            !.severity = severity, !.told = severity, !.traced = TRUE,
                            !.reported = severity, !.first = severity]]
    /\ UNCHANGED <<migrated, backfilling, filled>>

\* The deferred trigger: the entry of a marked row that has none.
EntryAtCommit(r) == IF r.marked /\ r.first = Unset THEN r.reported ELSE r.first

CommitInsert(s) ==
    /\ situation[s].step = "inserted"
    /\ situation' = [situation EXCEPT ![s] =
                       [@ EXCEPT !.step = "committed", !.first = EntryAtCommit(situation[s]),
                                 !.marked = FALSE]]
    /\ UNCHANGED <<migrated, backfilling, filled>>

Rollback(s) ==
    /\ situation[s].step = "inserted"
    /\ situation' = [situation EXCEPT ![s] = Absent]
    /\ UNCHANGED <<migrated, backfilling, filled>>

\* A PATCH of the revision before; it waits for a row the backfill has written.
LegacyEdit(s) ==
    /\ Committed(s)
    /\ filled[s] = Unset
    /\ \E severity \in Levels \ {situation[s].severity} :
          situation' = [situation EXCEPT ![s].severity = severity,
                                         ![s].amended = @ \/ situation[s].reported = Unset]
    /\ UNCHANGED <<migrated, backfilling, filled>>

ReleaseTypeOK ==
    /\ migrated \in 0 .. Len(Lot)
    /\ backfilling \in BOOLEAN
    /\ filled \in [Situations -> Levels \cup {Unset}]
    /\ situation \in [Situations -> Situation]

ReleaseInit ==
    /\ migrated = 0
    /\ backfilling = FALSE
    /\ filled = NotFilled
    /\ situation = [s \in Situations |-> Absent]

Migrate ==
    \/ AddReportKind \/ AddSeverityHistory \/ AddConsequences \/ AddTimelineEvents
    \/ ChangePermissions
    \/ BackfillFills \/ BackfillCommits \/ BackfillFails
    \/ LegacyInsertCompatibility

ReleaseNext ==
    \/ Migrate
    \/ \E s \in Situations :
          LegacyInsert(s) \/ Insert(s) \/ CommitInsert(s) \/ Rollback(s) \/ LegacyEdit(s)

ReleaseSpec == ReleaseInit /\ [][ReleaseNext]_releaseVars

-----------------------------------------------------------------------------

\* Once the backfill is committed every problem has a reported severity and one
\* REPORTED entry of it, and both are what its author reported; only an edit that
\* came before, of a registration nobody kept a trace of, is mistaken for it.
\* (1787800000000-BackfillReportedSeverity, 1788100000000-LegacySituationInsertCompatibility)
HistoryStartsAsReported ==
    Applied("BackfillReportedSeverity") =>
        \A s \in Situations : Committed(s) =>
            LET r == situation[s] IN
            /\ r.reported # Unset
            /\ r.first = r.reported
            /\ r.traced \/ ~r.amended => r.reported = r.told

\* An INTERNAL problem with a coordination affects it, unless the revision before
\* registered it after the columns were added and before the triggers.
\* (1787400000000-AddSituationReportKindAndAffectedCoordination)
OnlyTheWindowLacksItsArea ==
    Applied("AddReportKind") =>
        \A s \in Situations : Committed(s) /\ situation[s].owner # NoOwner =>
            situation[s].affected = situation[s].owner \/ situation[s].unaided

\* What the lot leaves behind, whatever was registered and edited meanwhile: the
\* history of every problem starts as it was reported, and its area is known.
MigratedRowsAreWhole == HistoryStartsAsReported /\ OnlyTheWindowLacksItsArea

\* "El backend anterior admite el esquema nuevo. Eso permite publicar sin ventana
\* de alta caida" (docs/RELEASE_CIRCO.md:199-201): no registration is refused.
NobodyIsTurnedAway == \A s \in Situations : situation[s].step # "refused"

=============================================================================
