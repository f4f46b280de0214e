--------------------------- MODULE SituationRecord ---------------------------
(***************************************************************************)
(* What the operation is promised about a registered problem, without      *)
(* rows, requests or clocks: it is open, then attended, then closed for    *)
(* good; its deadline is missed at most once and only while it is alive;   *)
(* effects are only ever added, and only while it is alive; it is closed   *)
(* exactly once, leaving the lesson of whoever closed it.                  *)
(*                                                                         *)
(* The promise may be broken: a request may save the problem as it was     *)
(* when it was read.  `kept` is FALSE from then on, and what is left of    *)
(* the promise is that no effect disappears and no lesson is replaced.     *)
(*                                                                         *)
(* This is the prose of SituationsService.resolve (lines 874-902), of      *)
(* SituationConsequencesService (32-42) and of the column slaBreachedAt    *)
(* (situation.entity.ts:203), written as a state machine.                  *)
(***************************************************************************)
EXTENDS Naturals

CONSTANT None

VARIABLES stage, missed, effects, lesson, kept

record == <<stage, missed, effects, lesson, kept>>

Alive == kept /\ stage # "closed"

Init ==
    /\ stage = "open"
    /\ missed = FALSE
    /\ effects \in {0, 1}
    /\ lesson = None
    /\ kept = TRUE

Attend ==
    /\ Alive /\ stage = "open"
    /\ stage' = "attended"
    /\ UNCHANGED <<missed, effects, lesson, kept>>

MissDeadline ==
    /\ Alive /\ ~missed
    /\ missed' = TRUE
    /\ UNCHANGED <<stage, effects, lesson, kept>>

AddEffect ==
    /\ Alive
    /\ effects' = effects + 1
    /\ UNCHANGED <<stage, missed, lesson, kept>>

Close ==
    /\ Alive
    /\ stage' = "closed"
    /\ lesson' # None
    /\ UNCHANGED <<missed, effects, kept>>

Break ==
    /\ kept' = FALSE
    /\ effects' >= effects
    /\ lesson # None => lesson' = lesson

Next == Attend \/ MissDeadline \/ AddEffect \/ Close \/ Break

Spec == Init /\ [][Next]_record

=============================================================================
