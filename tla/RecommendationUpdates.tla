------------------------ MODULE RecommendationUpdates ------------------------
(***************************************************************************)
(* PATCH /recommendations/:id:                                             *)
(* SituationRecommendationsService.updateRecommendation                    *)
(* (src/src/situation-recommendations), of one recommendation, a manual    *)
(* one or one of an analysis.                                              *)
(*                                                                         *)
(* As everywhere, save() is two steps after the load: the row is read      *)
(* again to note the columns in which the entity differs, and those        *)
(* columns of the entity are written.  Two columns must agree: status, and *)
(* completedAt, which is set or not.                                       *)
(***************************************************************************)
EXTENDS Naturals

CONSTANTS
    Updates,    \* requests
    MaxClock    \* bound of the clock that stamps completions

ASSUME UpdatesAssumption == MaxClock \in Nat \ {0}

AdviceStatuses == {"PENDING", "IN_PROGRESS", "COMPLETED", "DISMISSED"}

\* completedAt is null, or an instant.
Null == 0
Stamps == 0 .. MaxClock

Advice == [status : AdviceStatuses, completedAt : Stamps]

AdviceColumns == {"status", "completedAt"}

VARIABLES
    advice,      \* the row
    update,      \* where each request is, its entity, what it will write
    told,        \* RECOMMENDATION_COMPLETED entries
    torn,        \* history: a save was written between the two steps of another
    stamp        \* the clock

adviceVars == <<advice, update, told, torn, stamp>>

\* A recommendation as it may stand: completed and told so, or not.
AdviceInit ==
    /\ \E status \in AdviceStatuses :
          advice = [status |-> status, completedAt |-> IF status = "COMPLETED" THEN 1 ELSE Null]
    /\ update = [u \in Updates |->
           [pc |-> "new", entity |-> advice, previous |-> advice.status, changed |-> {}]]
    /\ told = IF advice.status = "COMPLETED" THEN 1 ELSE 0
    /\ torn = FALSE
    /\ stamp = 1

\* Mutated: a completion is not taken back.
EditedKeeping(row, status) ==
    [status |-> status,
     completedAt |-> IF status = "COMPLETED" THEN stamp ELSE row.completedAt]

\* dto.status, when there is one, on the entity that was loaded.
Edited(row, status) ==
    [status |-> status,
     completedAt |-> IF status = "COMPLETED" THEN stamp
                     ELSE IF row.status = "COMPLETED" THEN Null
                     ELSE row.completedAt]

LoadAdvice(u) ==
    /\ update[u].pc = "new"
    /\ \E entity \in {advice} \cup {Edited(advice, status) : status \in AdviceStatuses} :
          update' = [update EXCEPT ![u] =
              [pc |-> "loaded", entity |-> entity, previous |-> advice.status, changed |-> {}]]
    /\ UNCHANGED <<advice, told, torn, stamp>>

SelectAdvice(u) ==
    /\ update[u].pc = "loaded"
    /\ update' = [update EXCEPT ![u] =
           [pc |-> "selected", entity |-> @.entity, previous |-> @.previous,
            changed |-> {c \in AdviceColumns : @.entity[c] # advice[c]}]]
    /\ UNCHANGED <<advice, told, torn, stamp>>

WriteAdvice(u) ==
    /\ update[u].pc = "selected"
    /\ advice' = [c \in AdviceColumns |->
           IF c \in update[u].changed THEN update[u].entity[c] ELSE advice[c]]
    /\ torn' = (torn \/ \E v \in Updates \ {u} : update[v].pc = "selected")
    /\ update' = [update EXCEPT ![u].pc = "saved"]
    /\ UNCHANGED <<told, stamp>>

Completes(u) == update[u].entity.status = "COMPLETED" /\ update[u].previous # "COMPLETED"

\* The entry, by what was loaded: completing what was completed tells nothing.
TellUpdate(u) ==
    /\ update[u].pc = "saved"
    /\ told' = IF Completes(u) THEN told + 1 ELSE told
    /\ update' = [update EXCEPT ![u].pc = "done"]
    /\ UNCHANGED <<advice, torn, stamp>>

\* The process dies, or a query fails.
UpdateDies(u) ==
    /\ update[u].pc \in {"loaded", "selected", "saved"}
    /\ update' = [update EXCEPT ![u].pc = "dead"]
    /\ UNCHANGED <<advice, told, torn, stamp>>

StampTick ==
    /\ stamp < MaxClock
    /\ stamp' = stamp + 1
    /\ UNCHANGED <<advice, update, told, torn>>

AdviceNext ==
    \/ StampTick
    \/ \E u \in Updates :
          \/ LoadAdvice(u) \/ SelectAdvice(u) \/ WriteAdvice(u) \/ TellUpdate(u)
          \/ UpdateDies(u)

AdviceSpec == AdviceInit /\ [][AdviceNext]_adviceVars

-----------------------------------------------------------------------------
(* Properties                                                               *)

\* Every variable has its type.
AdviceTypeOK ==
    /\ advice \in Advice
    /\ update \in [Updates ->
           [pc : {"new", "loaded", "selected", "saved", "done", "dead"}, entity : Advice,
            previous : AdviceStatuses, changed : SUBSET AdviceColumns]]
    /\ told \in Nat /\ torn \in BOOLEAN /\ stamp \in 1 .. MaxClock

\* A recommendation has a completion instant exactly when it is COMPLETED,
\* however stale the requests that edit it are, unless a save was written
\* between the comparison and the write of another; and the timeline was told
\* that it was completed, unless whoever completed it is at that or died.
CompletionCoherent ==
    /\ ~ torn => (advice.status = "COMPLETED" <=> advice.completedAt # Null)
    /\ advice.status = "COMPLETED" =>
          \/ told > 0
          \/ \E u \in Updates : Completes(u) /\ update[u].pc \in {"saved", "dead"}

=============================================================================
