----------------------------- MODULE KpiPeriods -----------------------------
(***************************************************************************)
(* The periods and buckets of the indicators                               *)
(* (src/src/operational-kpis/domain/kpi-estado-evolution-buckets.ts).      *)
(*                                                                         *)
(* A day of the Bogota calendar is an integer.  The evolution of a week is *)
(* told by days, of a month by weeks and of a cycle by months: UnitStarts  *)
(* holds the first days of those units.  A bucket is a unit cut to the     *)
(* period, and its last day is the key of its counts.                      *)
(***************************************************************************)
EXTENDS Integers

CONSTANT UnitStarts

ASSUME UnitsAssumption == UnitStarts \subseteq Int

\* Where the buckets of [from, to] start: the unit that is running on the first
\* day is cut to it.
BucketStarts(from, to) ==
    {d \in from .. to : d = from \/ d \in UnitStarts}

\* The last day of the bucket that starts on d: the day before the next unit,
\* or the last one of the period.
EndsBucket(d, e, to) ==
    /\ d <= e /\ e <= to
    /\ \A u \in d + 1 .. e : u \notin UnitStarts
    /\ e = to \/ e + 1 \in UnitStarts

\* buildEstadoEvolutionBuckets
Buckets(from, to) ==
    {b \in BucketStarts(from, to) \X (from .. to) : EndsBucket(b[1], b[2], to)}

Earlier(d, e) == IF d <= e THEN d ELSE e

\* resolveEstadoDataWindow: nothing is counted after today.
DataTo(to, today) == Earlier(to, today)

\* Mutated: a bucket that ends in the future keeps its calendar end.
SlotsUncut(from, calendarEnd, dataTo) ==
    {b \in Buckets(from, calendarEnd) : b[1] <= dataTo}

\* buildEstadoFlowSlots, without the future ones, which show no data: the
\* buckets of the whole calendar period, each with the end of what is counted.
\* That end is where its counts are looked up.
Slots(from, calendarEnd, dataTo) ==
    {<<b[1], Earlier(b[2], dataTo)>> : b \in {c \in Buckets(from, calendarEnd) : c[1] <= dataTo}}

=============================================================================
