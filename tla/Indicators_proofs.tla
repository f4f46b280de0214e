-------------------------- MODULE Indicators_proofs --------------------------
(***************************************************************************)
(* The two readers of the situations, for any problems, coordinations,     *)
(* limits and periods: what the overview and the indicators tell, though   *)
(* each is put together from queries that see different instants.          *)
(*                                                                         *)
(* Both rest on the same argument.  An invariant says of which table every *)
(* answer gathered so far is: the one of now, or, for the overview, that   *)
(* of before the single commit; and, for the indicators, that a write      *)
(* dated after the period leaves every answer as it was.  The rest is      *)
(* counting.  A count is that of disjoint parts; the buckets of a period   *)
(* part its days; and the sum of a series is the count of the whole, by    *)
(* the least set on which they would differ, which stands for an induction *)
(* that no prover here can make.                                           *)
(***************************************************************************)
EXTENDS OperationalKpi, OperationalOverview, FiniteSetTheorems, WellFoundedInduction, TLAPS

-----------------------------------------------------------------------------
(* Counting *)

\* Two parts that share nothing add up.
LEMMA PartsAddUp ==
    ASSUME NEW A, NEW B, IsFiniteSet(A), IsFiniteSet(B), A \cap B = {}
    PROVE  /\ IsFiniteSet(A \cup B)
           /\ Cardinality(A \cup B) = Cardinality(A) + Cardinality(B)
           /\ Cardinality(A) \in Nat /\ Cardinality(B) \in Nat
<1>1. Cardinality(A) \in Nat /\ Cardinality(B) \in Nat /\ Cardinality(A \cap B) = 0
  BY FS_CardinalityType, FS_EmptySet
<1>2. /\ IsFiniteSet(A \cup B)
      /\ Cardinality(A \cup B) = Cardinality(A) + Cardinality(B) - Cardinality(A \cap B)
  BY FS_Union
<1> QED BY <1>1, <1>2

\* A part counts no more than the whole, and nothing only if it is empty.
LEMMA PartCounts ==
    ASSUME NEW S, IsFiniteSet(S), NEW T, T \subseteq S
    PROVE  /\ IsFiniteSet(T) /\ Cardinality(T) \in Nat
           /\ Cardinality(T) <= Cardinality(S)
           /\ Cardinality(T) = 0 <=> T = {}
<1>1. IsFiniteSet(T) /\ Cardinality(T) <= Cardinality(S)
  BY FS_Subset
<1> QED BY <1>1, FS_CardinalityType, FS_EmptySet

-----------------------------------------------------------------------------
(* Tables of problems *)

\* A table the overview may read.
IsTable(T) ==
    /\ DOMAIN T \subseteq Problems
    /\ \A p \in DOMAIN T : T[p] \in Problem

\* The counts by severity are of disjoint parts of a set: they sum to it, and
\* the damage counts the heavy ones twice.
LEMMA SeveritiesAddUp ==
    ASSUME NEW T, IsTable(T), NEW set, set \subseteq DOMAIN T
    PROVE  LET n == BySeverity(T, set)
               heavy == {p \in set : T[p].severity \in {"HIGH", "CRITICAL"}}
           IN  /\ IsFiniteSet(set) /\ Cardinality(set) \in Nat
               /\ \A s \in Severities : n[s] \in Nat
               /\ Total(n) = Cardinality(set)
               /\ Damage(n) = Cardinality(set) + Cardinality(heavy)
               /\ IsFiniteSet(heavy) /\ Cardinality(heavy) \in Nat
<1> DEFINE low == {p \in set : T[p].severity = "LOW"}
           medium == {p \in set : T[p].severity = "MEDIUM"}
           high == {p \in set : T[p].severity = "HIGH"}
           critical == {p \in set : T[p].severity = "CRITICAL"}
           n == BySeverity(T, set)
           heavy == {p \in set : T[p].severity \in {"HIGH", "CRITICAL"}}
<1>1. IsFiniteSet(set)
  BY FS_Subset, OverviewAssumption DEF IsTable
<1>2. /\ IsFiniteSet(low) /\ IsFiniteSet(medium) /\ IsFiniteSet(high) /\ IsFiniteSet(critical)
      /\ Cardinality(low) \in Nat /\ Cardinality(medium) \in Nat
      /\ Cardinality(high) \in Nat /\ Cardinality(critical) \in Nat
  BY <1>1, PartCounts
<1>3. /\ n["LOW"] = Cardinality(low) /\ n["MEDIUM"] = Cardinality(medium)
      /\ n["HIGH"] = Cardinality(high) /\ n["CRITICAL"] = Cardinality(critical)
  BY DEF BySeverity, Severities
<1>4. /\ low \cap medium = {} /\ high \cap critical = {}
      /\ (low \cup medium) \cap (high \cup critical) = {}
  OBVIOUS
<1>5. set = (low \cup medium) \cup (high \cup critical) /\ heavy = high \cup critical
  BY DEF IsTable, Problem, Severities
<1> HIDE DEF low, medium, high, critical, n, heavy
<1>6. /\ IsFiniteSet(low \cup medium)
      /\ Cardinality(low \cup medium) = n["LOW"] + n["MEDIUM"]
  BY <1>2, <1>3, <1>4, PartsAddUp
<1>7. IsFiniteSet(heavy) /\ Cardinality(heavy) = n["HIGH"] + n["CRITICAL"]
  BY <1>2, <1>3, <1>4, <1>5, PartsAddUp
<1>8. Cardinality(set) = Cardinality(low \cup medium) + Cardinality(heavy)
  BY <1>4, <1>5, <1>6, <1>7, PartsAddUp
<1>9. \A s \in Severities : n[s] \in Nat
  BY <1>2, <1>3 DEF Severities
<1>10. Total(n) = Cardinality(set) /\ Damage(n) = Cardinality(set) + Cardinality(heavy)
  BY <1>6, <1>7, <1>8, <1>9 DEF Total, Damage, Severities
<1>11. Cardinality(set) \in Nat /\ Cardinality(heavy) \in Nat
  BY <1>1, <1>7, FS_CardinalityType
<1> QED BY <1>1, <1>7, <1>9, <1>10, <1>11 DEF n, heavy

-----------------------------------------------------------------------------
(* What one table says of an area *)

SnapshotAt(T, c) ==
    SnapshotOf(c, Aggregated("bySeverity", T), Aggregated("affected", T),
               Aggregated("incoming", T))

\* The answers of the three aggregations.
LEMMA AggregationsAre ==
    ASSUME NEW T, NEW c \in Owners
    PROVE  /\ Aggregated("bySeverity", T)[c] = BySeverity(T, Owned(T, c))
           /\ Aggregated("affected", T)[c] = Cardinality(Reached(T, c))
           /\ Aggregated("incoming", T)[c] =
                [incoming |-> Cardinality(Suffered(T, c)),
                 critical |-> BySeverity(T, Suffered(T, c))["CRITICAL"],
                 external |-> BySeverity(T, External(T, c))]
<1>1. /\ "bySeverity" # "affected" /\ "bySeverity" # "incoming" /\ "affected" # "incoming"
  OBVIOUS
<1> QED BY Zenon, <1>1 DEF Aggregated

\* So the snapshot of a table is made of these counts.
LEMMA SnapshotFields ==
    ASSUME NEW T, NEW c \in Owners
    PROVE  /\ SnapshotAt(T, c).own = BySeverity(T, Owned(T, c))
           /\ SnapshotAt(T, c).affected = Cardinality(Reached(T, c))
           /\ SnapshotAt(T, c).incoming = Cardinality(Suffered(T, c))
           /\ SnapshotAt(T, c).critical = BySeverity(T, Suffered(T, c))["CRITICAL"]
           /\ SnapshotAt(T, c).external = BySeverity(T, External(T, c))
<1> DEFINE own == Aggregated("bySeverity", T)
           affected == Aggregated("affected", T)
           incoming == Aggregated("incoming", T)
           i == Cardinality(Suffered(T, c))
           k == BySeverity(T, Suffered(T, c))["CRITICAL"]
           e == BySeverity(T, External(T, c))
           s == [own |-> own[c], affected |-> affected[c], incoming |-> incoming[c].incoming,
                 critical |-> incoming[c].critical, external |-> incoming[c].external]
<1>1. SnapshotAt(T, c) = s
  BY DEF SnapshotAt, SnapshotOf
<1>2. /\ s.own = own[c] /\ s.affected = affected[c] /\ s.incoming = incoming[c].incoming
      /\ s.critical = incoming[c].critical /\ s.external = incoming[c].external
  OBVIOUS
<1>3. /\ own[c] = BySeverity(T, Owned(T, c)) /\ affected[c] = Cardinality(Reached(T, c))
      /\ incoming[c] = [incoming |-> i, critical |-> k, external |-> e]
  BY Zenon, AggregationsAre
<1> HIDE DEF s, own, affected, incoming, i, k, e
<1>4. incoming[c].incoming = i /\ incoming[c].critical = k /\ incoming[c].external = e
  BY <1>3
<1> QED BY <1>1, <1>2, <1>3, <1>4 DEF i, k, e

\* The CRITICAL ones of a set.
LEMMA CriticalCount ==
    ASSUME NEW T, NEW set
    PROVE  BySeverity(T, set)["CRITICAL"] = Cardinality({p \in set : T[p].severity = "CRITICAL"})
<1> DEFINE count(s) == Cardinality({p \in set : T[p].severity = s})
<1>1. BySeverity(T, set) = [s \in Severities |-> count(s)]
  BY DEF BySeverity
<1>2. "CRITICAL" \in Severities
  BY DEF Severities
<1>3. count("CRITICAL") = Cardinality({p \in set : T[p].severity = "CRITICAL"})
  OBVIOUS
<1> HIDE DEF count
<1>4. BySeverity(T, set)["CRITICAL"] = count("CRITICAL")
  BY <1>1, <1>2
<1> QED BY <1>3, <1>4

\* The counts of one table never contradict each other.
LEMMA SnapshotFacts ==
    ASSUME NEW T, IsTable(T), NEW c \in Owners
    PROVE  LET s == SnapshotAt(T, c)
           IN  /\ Interpretable(s)
               /\ Total(s.own) = Cardinality(Owned(T, c)) /\ Total(s.own) \in Nat
               /\ Total(s.own) = 0 <=> Owned(T, c) = {}
               /\ s.incoming \in Nat
               /\ s.incoming = 0 <=> Suffered(T, c) = {}
               /\ \A x \in Severities : s.own[x] \in Nat
               /\ s.critical \in Nat
<1> DEFINE s == SnapshotAt(T, c)
           owned == Owned(T, c)
           suffered == Suffered(T, c)
           critical == {p \in suffered : T[p].severity = "CRITICAL"}
<1>1. owned \subseteq DOMAIN T /\ suffered \subseteq DOMAIN T
  BY DEF Owned, Suffered
<1>2. owned = {} => Reached(T, c) = {}
  BY DEF Reached
<1>3. s.critical = Cardinality(critical)
  BY SnapshotFields, CriticalCount
<1>4. /\ s.own = BySeverity(T, owned) /\ s.affected = Cardinality(Reached(T, c))
      /\ s.incoming = Cardinality(suffered)
  BY SnapshotFields
<1>5. critical \subseteq suffered
  OBVIOUS
<1> HIDE DEF s, owned, suffered, critical
<1>6. /\ IsFiniteSet(owned) /\ Total(s.own) = Cardinality(owned) /\ Cardinality(owned) \in Nat
      /\ \A x \in Severities : s.own[x] \in Nat
  BY <1>1, <1>4, SeveritiesAddUp
<1>7. IsFiniteSet(suffered) /\ Cardinality(suffered) \in Nat
  BY <1>1, SeveritiesAddUp
<1>8. s.critical \in Nat /\ s.critical <= s.incoming
  BY <1>3, <1>4, <1>5, <1>7, PartCounts
<1>9. (Total(s.own) = 0 <=> owned = {}) /\ (s.incoming = 0 <=> suffered = {})
  BY <1>4, <1>6, <1>7, FS_EmptySet
<1>10. Interpretable(s)
  BY <1>2, <1>4, <1>8, <1>9, FS_EmptySet DEF Interpretable
<1> QED BY <1>4, <1>6, <1>7, <1>8, <1>9, <1>10 DEF s, owned, suffered

\* An area loses what the problems it owns or suffers take, each once: those it
\* suffers from others and those it owns are disjoint.
LEMMA LifeAt ==
    ASSUME NEW T, IsTable(T), NEW c \in Owners
    PROVE  LET problems == {p \in DOMAIN T : T[p].owner = c \/ (T[p].inter /\ T[p].affected = c)}
               heavy == {p \in problems : T[p].severity \in {"HIGH", "CRITICAL"}}
               lost == Cardinality(problems) + Cardinality(heavy)
           IN  LifePoints(SnapshotAt(T, c)) = IF lost > MaxLife THEN 0 ELSE MaxLife - lost
<1> DEFINE s == SnapshotAt(T, c)
           owned == Owned(T, c)
           external == External(T, c)
           hard(set) == {p \in set : T[p].severity \in {"HIGH", "CRITICAL"}}
           heavyOwned == hard(owned)
           heavyExternal == hard(external)
           problems == {p \in DOMAIN T : T[p].owner = c \/ (T[p].inter /\ T[p].affected = c)}
           heavy == {p \in problems : T[p].severity \in {"HIGH", "CRITICAL"}}
           criticalExternal == {p \in external : T[p].severity = "CRITICAL"}
           criticalSuffered == {p \in Suffered(T, c) : T[p].severity = "CRITICAL"}
<1>1. /\ owned \subseteq DOMAIN T /\ external \subseteq Suffered(T, c)
      /\ Suffered(T, c) \subseteq DOMAIN T
  BY DEF Owned, External, Suffered
<1>2. owned \cap external = {} /\ owned \cup external = problems
  BY DEF Owned, External, Suffered
<1>3. heavyOwned \cap heavyExternal = {} /\ heavyOwned \cup heavyExternal = heavy
  BY <1>2
<1>4. criticalExternal \subseteq criticalSuffered /\ criticalSuffered \subseteq Suffered(T, c)
  BY <1>1
<1>5. /\ IsFiniteSet(owned) /\ IsFiniteSet(heavyOwned)
      /\ Damage(BySeverity(T, owned)) = Cardinality(owned) + Cardinality(heavyOwned)
  BY <1>1, SeveritiesAddUp
<1>6. /\ IsFiniteSet(external) /\ IsFiniteSet(heavyExternal)
      /\ Damage(BySeverity(T, external)) = Cardinality(external) + Cardinality(heavyExternal)
      /\ Total(BySeverity(T, external)) = Cardinality(external)
  <2>1. external \subseteq DOMAIN T
    BY <1>1
  <2> QED BY <2>1, SeveritiesAddUp
<1>7. /\ BySeverity(T, external)["CRITICAL"] = Cardinality(criticalExternal)
      /\ s.critical = Cardinality(criticalSuffered)
  BY SnapshotFields, CriticalCount
<1>8. /\ s.own = BySeverity(T, owned) /\ s.external = BySeverity(T, external)
      /\ s.incoming = Cardinality(Suffered(T, c))
  BY SnapshotFields
<1>9. IsFiniteSet(Suffered(T, c))
  BY <1>1, SeveritiesAddUp
<1> HIDE DEF s, owned, external, heavyOwned, heavyExternal, problems, heavy, criticalExternal,
             criticalSuffered
<1>10. IsFiniteSet(criticalSuffered)
  BY <1>4, <1>9, FS_Subset
<1>11. LifeInterpretable(s)
  <2>1. Interpretable(s)
    BY SnapshotFacts DEF s
  <2>2. Total(s.external) <= s.incoming
    BY <1>1, <1>6, <1>8, <1>9, FS_Subset
  <2>3. s.external["CRITICAL"] <= s.critical
    BY <1>4, <1>7, <1>8, <1>10, FS_Subset
  <2> QED BY <2>1, <2>2, <2>3 DEF LifeInterpretable
<1>12. /\ Cardinality(problems) = Cardinality(owned) + Cardinality(external)
       /\ Cardinality(owned) \in Nat /\ Cardinality(external) \in Nat
  BY <1>2, <1>5, <1>6, PartsAddUp
<1>13. /\ Cardinality(heavy) = Cardinality(heavyOwned) + Cardinality(heavyExternal)
       /\ Cardinality(heavyOwned) \in Nat /\ Cardinality(heavyExternal) \in Nat
  BY <1>3, <1>5, <1>6, PartsAddUp
<1>14. MaxLife \in Nat
  BY PoliciesAssumption
<1>15. Damage(s.own) + Damage(s.external) = Cardinality(problems) + Cardinality(heavy)
  BY <1>5, <1>6, <1>8, <1>12, <1>13
<1>16. LifePoints(s) = IF Cardinality(problems) + Cardinality(heavy) >= MaxLife THEN 0
                       ELSE MaxLife - (Cardinality(problems) + Cardinality(heavy))
  BY <1>11, <1>15 DEF LifePoints
<1>17. LifePoints(s) = IF Cardinality(problems) + Cardinality(heavy) > MaxLife THEN 0
                       ELSE MaxLife - (Cardinality(problems) + Cardinality(heavy))
  BY <1>12, <1>13, <1>14, <1>16
<1> QED BY <1>17 DEF s, problems, heavy

-----------------------------------------------------------------------------
(* Calm, told from two tables *)

CalmIn(T) == {c \in Catalogue : Integrity(SnapshotAt(T, c)) = "ESTABLE"}

\* An area that neither owns nor suffers anything is calm,
LEMMA NothingIsCalm ==
    ASSUME NEW T, IsTable(T), NEW c \in Catalogue, Owned(T, c) = {}, Suffered(T, c) = {}
    PROVE  c \in CalmIn(T)
<1> DEFINE s == SnapshotAt(T, c)
<1>0. c \in Owners
  BY DEF Owners, Coordinations
<1>1. /\ Interpretable(s) /\ Total(s.own) = 0 /\ s.incoming = 0 /\ s.critical \in Nat
      /\ \A x \in Severities : s.own[x] \in Nat
  BY <1>0, SnapshotFacts
<1> HIDE DEF s
<1>2. s.affected = 0 /\ s.critical = 0
  BY <1>1 DEF Interpretable
<1>3. s.own["HIGH"] = 0 /\ s.own["CRITICAL"] = 0
  <2>1. s.own["LOW"] \in Nat /\ s.own["MEDIUM"] \in Nat
        /\ s.own["HIGH"] \in Nat /\ s.own["CRITICAL"] \in Nat
    BY <1>1 DEF Severities
  <2>2. s.own["LOW"] + s.own["MEDIUM"] + s.own["HIGH"] + s.own["CRITICAL"] = 0
    BY <1>1 DEF Total
  <2>3. \A l, m, h, k \in Nat : l + m + h + k = 0 => h = 0 /\ k = 0
    OBVIOUS
  <2> QED BY Zenon, <2>1, <2>2, <2>3
<1>4. CriticalLimit > 0 /\ HighLimit > 0 /\ ActiveLimit > 0 /\ AffectedLimit > 0
      /\ {CriticalLimit, HighLimit, ActiveLimit, AffectedLimit} \subseteq Nat
  BY PoliciesAssumption
<1>5. CriticalRules(s) = {}
  BY <1>1, <1>2, <1>3, <1>4 DEF CriticalRules, Triggers
<1>6. Integrity(s) = "ESTABLE"
  BY <1>1, <1>5 DEF Integrity
<1> QED BY <1>6 DEF CalmIn, s

\* and only such an area is told to be.
LEMMA CalmIsNothing ==
    ASSUME NEW s, Integrity(s) = "ESTABLE" PROVE Total(s.own) = 0 /\ s.incoming = 0
  BY DEF Integrity

\* Two tables one commit apart: they differ in one problem at most, and if it is
\* in both it was INTER in both or in none, and affected the same area.
OneApart(T, U) ==
    \E p :
        /\ DOMAIN T \ {p} = DOMAIN U \ {p}
        /\ \A q \in DOMAIN T \ {p} : T[q] = U[q]
        /\ p \in DOMAIN T \cap DOMAIN U =>
              /\ T[p].inter = U[p].inter
              /\ T[p].inter => T[p].affected = U[p].affected

\* No single commit moves a problem from what an area owns to what it suffers.
LEMMA NothingSlipsThrough ==
    ASSUME NEW T, NEW U, OneApart(T, U), NEW c,
           \/ Owned(T, c) = {} /\ Suffered(U, c) = {}
           \/ Owned(U, c) = {} /\ Suffered(T, c) = {}
    PROVE  \/ Owned(T, c) = {} /\ Suffered(T, c) = {}
           \/ Owned(U, c) = {} /\ Suffered(U, c) = {}
<1>1. PICK p :
        /\ DOMAIN T \ {p} = DOMAIN U \ {p}
        /\ \A q \in DOMAIN T \ {p} : T[q] = U[q]
        /\ p \in DOMAIN T \cap DOMAIN U =>
              /\ T[p].inter = U[p].inter
              /\ T[p].inter => T[p].affected = U[p].affected
  BY DEF OneApart
<1>2. /\ Owned(T, c) \ {p} = Owned(U, c) \ {p}
      /\ Suffered(T, c) \ {p} = Suffered(U, c) \ {p}
  BY <1>1 DEF Owned, Suffered
<1>3. /\ p \in Owned(T, c) => p \in DOMAIN T
      /\ p \in Owned(U, c) => p \in DOMAIN U
      /\ p \in Suffered(T, c) <=> p \in DOMAIN T /\ T[p].inter /\ T[p].affected = c
      /\ p \in Suffered(U, c) <=> p \in DOMAIN U /\ U[p].inter /\ U[p].affected = c
  BY DEF Owned, Suffered
<1> QED BY <1>1, <1>2, <1>3

\* Whatever tables the three counts are of, an area told to be calm was.
LEMMA MixedCalm ==
    ASSUME NEW T, IsTable(T), NEW U, IsTable(U), OneApart(T, U), NEW c \in Catalogue,
           NEW V \in {T, U}, NEW affected, NEW W \in {T, U},
           Integrity(SnapshotOf(c, Aggregated("bySeverity", V), affected,
                                Aggregated("incoming", W))) = "ESTABLE"
    PROVE  c \in CalmIn(T) \cup CalmIn(U)
<1> DEFINE s == SnapshotOf(c, Aggregated("bySeverity", V), affected, Aggregated("incoming", W))
<1>0. c \in Owners
  BY DEF Owners, Coordinations
<1>1. Total(s.own) = 0 /\ s.incoming = 0
  BY CalmIsNothing
<1>2. s.own = Aggregated("bySeverity", V)[c] /\ s.incoming = Aggregated("incoming", W)[c].incoming
  BY DEF SnapshotOf
<1>3. SnapshotAt(V, c).own = Aggregated("bySeverity", V)[c]
      /\ SnapshotAt(W, c).incoming = Aggregated("incoming", W)[c].incoming
  BY DEF SnapshotAt, SnapshotOf
<1> HIDE DEF s
<1>4. IsTable(V) /\ IsTable(W)
  OBVIOUS
<1>5. Owned(V, c) = {}
  BY <1>0, <1>1, <1>2, <1>3, <1>4, SnapshotFacts
<1>6. Suffered(W, c) = {}
  BY <1>0, <1>1, <1>2, <1>3, <1>4, SnapshotFacts
<1>7. \/ Owned(T, c) = {} /\ Suffered(T, c) = {}
      \/ Owned(U, c) = {} /\ Suffered(U, c) = {}
  BY <1>5, <1>6, NothingSlipsThrough
<1> QED BY <1>7, NothingIsCalm

-----------------------------------------------------------------------------
(* What the overview has gathered *)

FirstTables == UNION {[set -> Standing] : set \in SUBSET Problems}

\* With no commit, what was gathered is of the table of now; after one, of that
\* table or of the one before it; and an area that was calm in either is noted.
OverviewInv ==
    /\ IsTable(active) /\ commits \in Nat
    /\ waiting \subseteq Aggregations /\ DOMAIN answer = Aggregations \ waiting
    /\ waiting = Aggregations => commits = 0
    /\ waiting # Aggregations => CalmIn(active) \subseteq calm
    /\ commits = 0 =>
          /\ active \in FirstTables
          /\ \A q \in DOMAIN answer : answer[q] = Aggregated(q, active)
    /\ commits = 1 =>
          \E T \in FirstTables :
              /\ OneApart(T, active) /\ CalmIn(T) \subseteq calm
              /\ \A q \in DOMAIN answer :
                    answer[q] \in {Aggregated(q, T), Aggregated(q, active)}

\* The tables a request may begin with.
LEMMA FirstAreTables == ASSUME NEW T \in FirstTables PROVE IsTable(T)
<1>1. PICK set \in SUBSET Problems : T \in [set -> Standing]
  BY DEF FirstTables
<1> QED BY <1>1, OverviewAssumption DEF IsTable

\* The areas calm now.
LEMMA CalmIsNow == CalmNow = CalmIn(active) /\ CalmNow' = CalmIn(active)'
  BY DEF CalmNow, CalmIn, SnapshotNow, SnapshotAt

\* Every commit is of a table one apart from that of now.
LEMMA CommitInv ==
    ASSUME OverviewInv, NEW T, IsTable(T), OneApart(active, T), Commit(T) PROVE OverviewInv'
<1> USE DEF OverviewInv
<1>1. /\ active' = T /\ commits' = commits + 1 /\ UNCHANGED <<waiting, answer>>
      /\ waiting # Aggregations /\ calm' = calm \cup CalmIn(active)'
  BY CalmIsNow DEF Commit
<1>2. CalmIn(active)' \subseteq calm'
  BY <1>1
<1>3. ASSUME commits' = 1
      PROVE  \E U \in FirstTables :
                /\ OneApart(U, active)' /\ CalmIn(U) \subseteq calm'
                /\ \A q \in DOMAIN answer' :
                      answer'[q] \in {Aggregated(q, U), Aggregated(q, active')}
  <2>1. commits = 0
    BY <1>1, <1>3
  <2>2. active \in FirstTables /\ OneApart(active, active') /\ CalmIn(active) \subseteq calm'
    BY <1>1, <2>1
  <2>3. \A q \in DOMAIN answer' : answer'[q] = Aggregated(q, active)
    BY <1>1, <2>1
  <2> QED BY <2>2, <2>3
<1>4. commits' \in Nat /\ commits' # 0
  BY <1>1
<1> QED BY <1>1, <1>2, <1>3, <1>4

\* What a commit writes in place of a row, or besides the others.
LEMMA PutInv ==
    ASSUME OverviewInv, NEW p \in Problems, NEW row \in Problem, Put(p, row),
           p \in DOMAIN active =>
              row.inter = active[p].inter /\ (row.inter => row.affected = active[p].affected)
    PROVE  OverviewInv'
<1> DEFINE T == [q \in DOMAIN active \cup {p} |-> IF q = p THEN row ELSE active[q]]
<1>1. IsTable(T)
  BY DEF IsTable, OverviewInv
<1>2. /\ DOMAIN active \ {p} = DOMAIN T \ {p}
      /\ \A q \in DOMAIN active \ {p} : active[q] = T[q]
      /\ p \in DOMAIN active \cap DOMAIN T =>
            /\ active[p].inter = T[p].inter
            /\ active[p].inter => active[p].affected = T[p].affected
  OBVIOUS
<1>3. Commit(T)
  BY DEF Put
<1> HIDE DEF T
<1>4. OneApart(active, T)
  BY <1>2 DEF OneApart
<1> QED BY <1>1, <1>3, <1>4, CommitInv

\* Each writer commits a table one apart.
LEMMA WriterInv ==
    ASSUME OverviewInv, NEW p \in Problems,
           Register(p) \/ Close(p) \/ Reassign(p) \/ Escalate(p) \/ Analyse(p)
    PROVE  OverviewInv'
<1>0. ASSUME p \in DOMAIN active PROVE active[p] \in Problem
  BY <1>0 DEF OverviewInv, IsTable
<1>1. CASE Register(p)
  <2>1. PICK row \in Reports : Put(p, row)
    BY <1>1 DEF Register
  <2>2. row \in Problem
    BY OverviewAssumption DEF Reports
  <2> QED BY <1>1, <2>1, <2>2, PutInv DEF Register
<1>2. CASE Close(p)
  <2> DEFINE T == [q \in DOMAIN active \ {p} |-> active[q]]
  <2>1. IsTable(T)
    BY DEF IsTable, OverviewInv
  <2>2. /\ DOMAIN active \ {p} = DOMAIN T \ {p} /\ p \notin DOMAIN T
        /\ \A q \in DOMAIN active \ {p} : active[q] = T[q]
    OBVIOUS
  <2>3. Commit(T)
    BY <1>2 DEF Close
  <2> HIDE DEF T
  <2>4. OneApart(active, T)
    BY <2>2 DEF OneApart
  <2> QED BY <2>1, <2>3, <2>4, CommitInv
<1>3. CASE Reassign(p)
  <2>1. PICK c \in Catalogue :
            Put(p, [active[p] EXCEPT !.owner = c,
                                     !.affected = IF active[p].inter THEN @ ELSE c])
    BY <1>3 DEF Reassign
  <2> DEFINE row == [active[p] EXCEPT !.owner = c,
                                      !.affected = IF active[p].inter THEN @ ELSE c]
  <2>2. active[p] \in Problem
    BY <1>0, <1>3 DEF Reassign
  <2>3. c \in Owners
    BY DEF Owners, Coordinations
  <2>4. row \in Problem /\ row.inter = active[p].inter
        /\ (row.inter => row.affected = active[p].affected)
    BY <2>2, <2>3 DEF Problem
  <2> QED BY <2>1, <2>4, PutInv
<1>4. CASE Escalate(p)
  <2>1. PICK s \in Severities : Put(p, [active[p] EXCEPT !.severity = s])
    BY <1>4 DEF Escalate
  <2> DEFINE row == [active[p] EXCEPT !.severity = s]
  <2>2. active[p] \in Problem
    BY <1>0, <1>4 DEF Escalate
  <2>3. row \in Problem /\ row.inter = active[p].inter
        /\ (row.inter => row.affected = active[p].affected)
    BY <2>2 DEF Problem
  <2> QED BY <2>1, <2>3, PutInv
<1>5. CASE Analyse(p)
  <2>1. PICK hits \in Impacts : Put(p, [active[p] EXCEPT !.hits = hits])
    BY <1>5 DEF Analyse
  <2> DEFINE row == [active[p] EXCEPT !.hits = hits]
  <2>2. active[p] \in Problem
    BY <1>0, <1>5 DEF Analyse
  <2>3. hits \in SUBSET Coordinations
    BY OverviewAssumption
  <2>4. row \in Problem /\ row.inter = active[p].inter
        /\ (row.inter => row.affected = active[p].affected)
    BY <2>2, <2>3 DEF Problem
  <2> QED BY <2>1, <2>4, PutInv
<1> QED BY <1>1, <1>2, <1>3, <1>4, <1>5

\* An aggregation adds an answer of the table of now.
LEMMA AggregateInv == ASSUME OverviewInv, NEW q \in Aggregations, Aggregate(q) PROVE OverviewInv'
<1> USE DEF OverviewInv
<1>1. /\ q \in waiting /\ waiting' = waiting \ {q} /\ calm' = calm \cup CalmIn(active)
      /\ DOMAIN answer' = DOMAIN answer \cup {q} /\ answer'[q] = Aggregated(q, active)
      /\ \A r \in DOMAIN answer : r # q => answer'[r] = answer[r]
      /\ UNCHANGED <<active, commits>>
  BY CalmIsNow DEF Aggregate
<1>2. q \notin DOMAIN answer /\ waiting' # Aggregations
  BY <1>1
<1>3. /\ IsTable(active)' /\ commits' \in Nat /\ waiting' \subseteq Aggregations
      /\ DOMAIN answer' = Aggregations \ waiting'
      /\ CalmIn(active)' \subseteq calm'
  BY <1>1
<1>4. ASSUME commits' = 0
      PROVE  active' \in FirstTables /\ \A r \in DOMAIN answer' : answer'[r] = Aggregated(r, active')
  BY <1>1, <1>2, <1>4
<1>5. ASSUME commits' = 1
      PROVE  \E T \in FirstTables :
                /\ OneApart(T, active) /\ CalmIn(T) \subseteq calm'
                /\ \A r \in DOMAIN answer' :
                      answer'[r] \in {Aggregated(r, T), Aggregated(r, active)}
  <2>1. PICK T \in FirstTables :
              /\ OneApart(T, active) /\ CalmIn(T) \subseteq calm
              /\ \A r \in DOMAIN answer :
                    answer[r] \in {Aggregated(r, T), Aggregated(r, active)}
    BY <1>1, <1>5
  <2>2. \A r \in DOMAIN answer' : answer'[r] \in {Aggregated(r, T), Aggregated(r, active)}
    BY <1>1, <1>2, <2>1
  <2> QED BY <1>1, <2>1, <2>2
<1> QED BY <1>1, <1>2, <1>3, <1>4, <1>5

\* The invariant holds always.
LEMMA OverviewInvariance == OverviewSpec => []OverviewInv
<1>1. OverviewInit => OverviewInv
  <2> SUFFICES ASSUME OverviewInit PROVE OverviewInv
    OBVIOUS
  <2>1. active \in FirstTables /\ waiting = Aggregations /\ DOMAIN answer = {} /\ commits = 0
    BY DEF OverviewInit, FirstTables
  <2> QED BY <2>1, FirstAreTables DEF OverviewInv
<1>2. OverviewInv /\ [OverviewNext]_overviewVars => OverviewInv'
  <2> SUFFICES ASSUME OverviewInv, [OverviewNext]_overviewVars PROVE OverviewInv'
    OBVIOUS
  <2>1. CASE UNCHANGED overviewVars
    <3>1. UNCHANGED <<active, waiting, answer, commits, calm>>
      BY <2>1 DEF overviewVars
    <3> QED BY <3>1 DEF OverviewInv
  <2> QED BY <2>1, WriterInv, AggregateInv DEF OverviewNext
<1> QED BY <1>1, <1>2, PTL DEF OverviewSpec

\* One commit among the three aggregations never makes an area look calm that
\* was not at any instant: for any problems, areas and limits.
THEOREM FalseCalm == OverviewSpec => []FalseCalmTakesTwo
<1>1. OverviewInv => FalseCalmTakesTwo
  <2> SUFFICES ASSUME OverviewInv, Answered, commits <= 1, NEW c \in Catalogue,
                      StatusRead(c) = "ESTABLE"
               PROVE  c \in calm
    BY DEF FalseCalmTakesTwo
  <2> USE DEF OverviewInv
  <2>1. /\ DOMAIN answer = Aggregations /\ CalmIn(active) \subseteq calm
        /\ commits = 0 \/ commits = 1
    BY DEF Answered, Aggregations
  <2>2. Integrity(SnapshotOf(c, answer["bySeverity"], answer["affected"], answer["incoming"]))
           = "ESTABLE"
    BY DEF StatusRead, SnapshotRead
  <2>3. PICK T \in FirstTables :
           /\ OneApart(T, active) /\ CalmIn(T) \subseteq calm
           /\ \A q \in Aggregations : answer[q] \in {Aggregated(q, T), Aggregated(q, active)}
    <3>1. CASE commits = 0
      <4>1. OneApart(active, active)
        BY DEF OneApart
      <4> QED BY <2>1, <3>1, <4>1
    <3>2. CASE commits = 1
      BY <2>1, <3>2
    <3> QED BY <2>1, <3>1, <3>2
  <2>4. PICK V \in {T, active} : answer["bySeverity"] = Aggregated("bySeverity", V)
    BY <2>3 DEF Aggregations
  <2>5. PICK W \in {T, active} : answer["incoming"] = Aggregated("incoming", W)
    BY <2>3 DEF Aggregations
  <2>6. IsTable(T) /\ IsTable(active)
    BY FirstAreTables
  <2>7. c \in CalmIn(T) \cup CalmIn(active)
    BY <2>2, <2>3, <2>4, <2>5, <2>6, MixedCalm
  <2> QED BY <2>1, <2>3, <2>7
<1> QED BY <1>1, OverviewInvariance, PTL

\* Without commits, what is read of an area is what the table of now says.
LEMMA ReadIsNow ==
    ASSUME OverviewInv, Answered, commits = 0, NEW c
    PROVE  SnapshotRead(c) = SnapshotAt(active, c)
<1>1. \A q \in Aggregations : answer[q] = Aggregated(q, active)
  BY DEF OverviewInv, Answered
<1> QED BY <1>1 DEF SnapshotRead, SnapshotAt, Aggregations

\* The points an area has left are told, and each problem took from them once.
THEOREM LivesLostOnce == OverviewSpec => []LivesAreLostOnce
<1>1. OverviewInv => LivesAreLostOnce
  <2> SUFFICES ASSUME OverviewInv, Answered, commits = 0 PROVE LivesAreLostOnce
    BY DEF LivesAreLostOnce
  <2>1. IsTable(active) /\ \A c \in Catalogue : c \in Owners
    BY DEF OverviewInv, Owners, Coordinations
  <2>2. \A c \in Catalogue : SnapshotRead(c) = SnapshotAt(active, c)
    BY ReadIsNow
  <2>3. \A c \in Catalogue :
           LET problems == {p \in DOMAIN active :
                               active[p].owner = c \/ (active[p].inter /\ active[p].affected = c)}
               heavy == {p \in problems : active[p].severity \in {"HIGH", "CRITICAL"}}
               lost == Cardinality(problems) + Cardinality(heavy)
           IN  LifePoints(SnapshotAt(active, c)) = IF lost > MaxLife THEN 0 ELSE MaxLife - lost
    BY <2>1, LifeAt
  <2> QED BY <2>2, <2>3 DEF LivesAreLostOnce
<1> QED BY <1>1, OverviewInvariance, PTL

\* One CRITICAL problem that an area owns or suffers makes it critical.
LEMMA CriticalIsTold ==
    ASSUME CriticalLimit = 1, NEW T, IsTable(T), NEW c \in Owners, NEW p \in DOMAIN T,
           T[p].severity = "CRITICAL",
           T[p].owner = c \/ (T[p].inter /\ T[p].affected = c)
    PROVE  Integrity(SnapshotAt(T, c)) = "CRITICO"
<1> DEFINE s == SnapshotAt(T, c)
           critical(set) == {q \in set : T[q].severity = "CRITICAL"}
           own == critical(Owned(T, c))
           suffered == critical(Suffered(T, c))
<1>1. s.own["CRITICAL"] = Cardinality(own) /\ s.critical = Cardinality(suffered)
  BY SnapshotFields, CriticalCount
<1>2. own \subseteq DOMAIN T /\ suffered \subseteq DOMAIN T
  BY DEF Owned, Suffered
<1>3. IsFiniteSet(own) /\ IsFiniteSet(suffered)
  <2> HIDE DEF own, suffered
  <2> QED BY <1>2, FS_Subset, OverviewAssumption DEF IsTable
<1>4. own # {} \/ suffered # {}
  BY DEF Owned, Suffered
<1> HIDE DEF s, own, suffered
<1>5. s.own["CRITICAL"] >= 1 \/ s.critical >= 1
  BY <1>1, <1>3, <1>4, FS_EmptySet, FS_CardinalityType
<1>6. CriticalRules(s) # {}
  BY <1>5 DEF CriticalRules, CriticalRule, Triggers
<1>7. Interpretable(s)
  BY SnapshotFacts DEF s
<1>8. Integrity(s) = "CRITICO"
  BY <1>6, <1>7 DEF Integrity
<1> QED BY <1>8 DEF s

\* With one critical area or more the Direction is not calm.
LEMMA DirectionIsNot ==
    ASSUME CriticalAreas <= 2, NEW total, NEW critical \in Nat, critical >= 1, NEW alert, NEW unknown
    PROVE  DirectionOf(total, critical, alert, unknown) # "ESTABLE"
<1>1. CriticalAreas \in Nat
  BY PoliciesAssumption
<1>2. critical = 1 \/ critical >= CriticalAreas
  BY <1>1
<1> QED BY <1>2 DEF DirectionOf

\* With the limits of the code (one CRITICAL problem makes an area critical, two
\* critical areas the Direction) no CRITICAL problem hides from the Direction.
THEOREM CriticalShows ==
    ASSUME CriticalLimit = 1, CriticalAreas <= 2 PROVE OverviewSpec => []CriticalNeverHides
<1>1. OverviewInv => CriticalNeverHides
  <2> SUFFICES ASSUME OverviewInv, Answered, commits = 0, NEW scoped \in BOOLEAN,
                      NEW p \in DOMAIN active, active[p].severity = "CRITICAL",
                      \/ active[p].owner \in Catalogue
                      \/ active[p].inter /\ active[p].affected \in Catalogue
                      \/ active[p].owner = Registry /\ ~ scoped
               PROVE  DirectionStatus(scoped) # "ESTABLE"
    BY DEF CriticalNeverHides
  <2> DEFINE critical == {c \in Catalogue : StatusRead(c) = "CRITICO"}
             registry == IF RegistryStatus(scoped) = "CRITICO" THEN 1 ELSE 0
  <2>1. IsTable(active) /\ \A c : SnapshotRead(c) = SnapshotAt(active, c)
    BY ReadIsNow DEF OverviewInv
  <2>2. Catalogue \subseteq Owners /\ Registry \in Owners
    BY DEF Owners, Coordinations
  <2>3. \A c \in Owners :
           active[p].owner = c \/ (active[p].inter /\ active[p].affected = c)
              => StatusRead(c) = "CRITICO"
    BY <2>1, CriticalIsTold DEF StatusRead
  <2>4. critical # {} \/ registry = 1
    BY <2>2, <2>3 DEF RegistryStatus
  <2>5. IsFiniteSet(critical)
    BY FS_Subset, OverviewAssumption DEF Coordinations
  <2>6. DirectionStatus(scoped) =
           DirectionOf(Cardinality(Catalogue), Cardinality(critical) + registry,
                       Cardinality({c \in Catalogue : StatusRead(c) = "ALERTA"})
                          + (IF RegistryStatus(scoped) = "ALERTA" THEN 1 ELSE 0),
                       Cardinality({c \in Catalogue : StatusRead(c) = "DESCONOCIDO"})
                          + (IF RegistryStatus(scoped) = "DESCONOCIDO" THEN 1 ELSE 0))
    BY Zenon DEF DirectionStatus
  <2>7. registry \in {0, 1}
    OBVIOUS
  <2> HIDE DEF critical, registry
  <2>8. Cardinality(critical) \in Nat /\ (critical # {} => Cardinality(critical) # 0)
    BY <2>5, FS_CardinalityType, FS_EmptySet
  <2>9. Cardinality(critical) + registry \in Nat /\ Cardinality(critical) + registry >= 1
    BY <2>4, <2>7, <2>8
  <2> QED BY <2>6, <2>9, DirectionIsNot
<1> QED BY <1>1, OverviewInvariance, PTL

-----------------------------------------------------------------------------
(* The buckets of a period *)

\* A bucket lies in the period, from one of its starts.
LEMMA BucketFacts ==
    ASSUME NEW from \in Int, NEW to \in Int, NEW b \in Buckets(from, to)
    PROVE  /\ b = <<b[1], b[2]>> /\ b[1] \in Int /\ b[2] \in Int
           /\ from <= b[1] /\ b[1] <= b[2] /\ b[2] <= to
           /\ b[1] = from \/ b[1] \in UnitStarts
           /\ EndsBucket(b[1], b[2], to)
  BY DEF Buckets, BucketStarts, EndsBucket

\* A pair that starts and ends as a bucket does is one.
LEMMA IsBucket ==
    ASSUME NEW from \in Int, NEW to \in Int, NEW d \in Int, NEW e \in Int,
           from <= d, d <= to, d = from \/ d \in UnitStarts, EndsBucket(d, e, to)
    PROVE  <<d, e>> \in Buckets(from, to)
  BY DEF Buckets, BucketStarts, EndsBucket

\* No two buckets end on the same day, which is the key of their counts.
LEMMA EndsAreUnique ==
    ASSUME NEW from \in Int, NEW to \in Int, NEW b \in Buckets(from, to),
           NEW c \in Buckets(from, to), b[2] = c[2]
    PROVE  b = c
<1>1. ASSUME NEW d \in Int, NEW x \in Int, NEW e \in Int, from <= d, d < x, x <= e,
             EndsBucket(d, e, to), x = from \/ x \in UnitStarts
      PROVE  FALSE
  BY <1>1 DEF EndsBucket
<1>2. b[1] = c[1]
  BY <1>1, BucketFacts
<1> QED BY <1>2, BucketFacts

\* The slots of the calendar period are the buckets of what is counted.
LEMMA SlotsAreBuckets ==
    ASSUME NEW from \in Int, NEW calendarEnd \in Int, NEW dataTo \in Int,
           dataTo <= calendarEnd, NEW slot \in Slots(from, calendarEnd, dataTo)
    PROVE  slot \in Buckets(from, dataTo)
<1>1. PICK b \in Buckets(from, calendarEnd) :
              b[1] <= dataTo /\ slot = <<b[1], Earlier(b[2], dataTo)>>
  BY DEF Slots
<1>2. /\ b[1] \in Int /\ b[2] \in Int /\ from <= b[1] /\ b[1] <= b[2] /\ b[2] <= calendarEnd
      /\ b[1] = from \/ b[1] \in UnitStarts
      /\ EndsBucket(b[1], b[2], calendarEnd)
  BY BucketFacts
<1>3. CASE b[2] <= dataTo
  <2>1. Earlier(b[2], dataTo) = b[2]
    BY <1>3 DEF Earlier
  <2>2. EndsBucket(b[1], b[2], dataTo)
    BY <1>2, <1>3 DEF EndsBucket
  <2> QED BY <1>1, <1>2, <1>3, <2>1, <2>2, IsBucket
<1>4. CASE ~ (b[2] <= dataTo)
  <2>1. Earlier(b[2], dataTo) = dataTo
    BY <1>4 DEF Earlier
  <2>2. EndsBucket(b[1], dataTo, dataTo)
    BY <1>1, <1>2, <1>4 DEF EndsBucket
  <2> QED BY <1>1, <1>2, <1>4, <2>1, <2>2, IsBucket
<1> QED BY <1>3, <1>4

\* A set of natural numbers has a least one.
LEMMA LeastNumber ==
    ASSUME NEW T, T \subseteq Nat, T # {}
    PROVE  \E x \in T : \A y \in T : x <= y
<1> DEFINE R == {ss \in Nat \X Nat : ss[1] < ss[2]}
<1>1. IsWellFoundedOn(R, Nat)
  BY NatLessThanWellFounded, Zenon DEF OpToRel
<1>2. PICK x \in T : \A y \in T : ~ (<<y, x>> \in R)
  <2> HIDE DEF R
  <2> QED BY <1>1, WFMin
<1>3. \A y \in T : ~ (y < x)
  BY <1>2
<1> QED BY <1>3

\* Every day of the period is in a bucket: from the last start until it, to the
\* first end from it on.
LEMMA BucketOfDay ==
    ASSUME NEW from \in Int, NEW to \in Int, NEW day \in Int, from <= day, day <= to
    PROVE  \E b \in Buckets(from, to) : b[1] <= day /\ day <= b[2]
<1> DEFINE Starts == {d \in from .. day : d = from \/ d \in UnitStarts}
           Ends == {e \in day .. to : e = to \/ e + 1 \in UnitStarts}
<1>1. PICK d \in Starts : \A x \in Starts : x <= d
  <2> DEFINE T == {day - x : x \in Starts}
  <2>1. T \subseteq Nat /\ T # {}
    OBVIOUS
  <2>2. PICK t \in T : \A y \in T : t <= y
    <3> HIDE DEF T
    <3> QED BY <2>1, LeastNumber
  <2>3. PICK d \in Starts : t = day - d
    BY DEF T
  <2>4. \A x \in Starts : day - d <= day - x
    BY <2>2, <2>3
  <2>5. \A x \in Starts : x <= d
    BY <2>4
  <2> QED BY <2>5
<1>2. PICK e \in Ends : \A x \in Ends : e <= x
  <2> DEFINE T == {x - day : x \in Ends}
  <2>1. T \subseteq Nat /\ T # {}
    OBVIOUS
  <2>2. PICK t \in T : \A y \in T : t <= y
    <3> HIDE DEF T
    <3> QED BY <2>1, LeastNumber
  <2>3. PICK e \in Ends : t = e - day
    BY DEF T
  <2>4. \A x \in Ends : e - day <= x - day
    BY <2>2, <2>3
  <2>5. \A x \in Ends : e <= x
    BY <2>4
  <2> QED BY <2>5
<1>3. /\ d \in Int /\ from <= d /\ d <= day /\ (d = from \/ d \in UnitStarts)
      /\ e \in Int /\ day <= e /\ e <= to /\ (e = to \/ e + 1 \in UnitStarts)
  OBVIOUS
<1>4. \A u \in d + 1 .. e : u \notin UnitStarts
  <2> SUFFICES ASSUME NEW u \in d + 1 .. e, u \in UnitStarts
               PROVE  FALSE
    OBVIOUS
  <2>1. u \in Int /\ d < u /\ u <= e
    BY <1>3
  <2>2. CASE u <= day
    <3>1. u \in Starts
      BY <1>3, <2>1, <2>2
    <3> QED BY <1>1, <1>3, <2>1, <3>1
  <2>3. CASE day < u
    <3>1. u - 1 \in Ends
      BY <1>3, <2>1, <2>3
    <3> QED BY <1>2, <1>3, <2>1, <3>1
  <2> QED BY <1>3, <2>2, <2>3
<1>5. <<d, e>> \in Buckets(from, to)
  BY <1>3, <1>4, IsBucket DEF EndsBucket
<1> QED BY <1>3, <1>5

\* And in one only.
LEMMA OneBucketOfDay ==
    ASSUME NEW from \in Int, NEW to \in Int, NEW day \in Int,
           NEW b \in Buckets(from, to), b[1] <= day, day <= b[2],
           NEW c \in Buckets(from, to), c[1] <= day, day <= c[2]
    PROVE  b = c
<1>1. ASSUME NEW x \in Int, NEW d \in Int, NEW e \in Int,
             from <= x, x < d, d <= e, d = from \/ d \in UnitStarts
      PROVE  ~ EndsBucket(x, e, to)
  BY <1>1 DEF EndsBucket
<1>2. ASSUME NEW d \in Int, NEW e \in Int, NEW f \in Int, d <= e, e < f, EndsBucket(d, f, to)
      PROVE  ~ EndsBucket(d, e, to)
  BY <1>2 DEF EndsBucket
<1>3. b[1] \in Int /\ b[2] \in Int /\ c[1] \in Int /\ c[2] \in Int
      /\ from <= b[1] /\ from <= c[1] /\ b[1] <= b[2] /\ c[1] <= c[2]
      /\ (b[1] = from \/ b[1] \in UnitStarts) /\ (c[1] = from \/ c[1] \in UnitStarts)
      /\ EndsBucket(b[1], b[2], to) /\ EndsBucket(c[1], c[2], to)
      /\ b = <<b[1], b[2]>> /\ c = <<c[1], c[2]>>
  BY BucketFacts
<1>4. c[1] <= b[2] /\ b[1] <= c[2]
  BY <1>3
<1>5. ~ (b[1] < c[1])
  BY <1>1, <1>3, <1>4
<1>6. ~ (c[1] < b[1])
  BY <1>1, <1>3, <1>4
<1>7. b[1] = c[1]
  BY <1>3, <1>5, <1>6
<1>8. ~ (b[2] < c[2])
  BY <1>2, <1>3, <1>7
<1>9. ~ (c[2] < b[2])
  BY <1>2, <1>3, <1>7
<1> QED BY <1>3, <1>7, <1>8, <1>9

\* The buckets of the evolution part the period: none of its days is told twice or
\* left out (buildEstadoEvolutionBuckets), wherever the units begin.
THEOREM BucketsPartThePeriod ==
    ASSUME NEW from \in Int, NEW to \in Int, NEW day \in from .. to
    PROVE  \E b \in Buckets(from, to) :
               /\ b[1] <= day /\ day <= b[2]
               /\ \A c \in Buckets(from, to) : c[1] <= day /\ day <= c[2] => c = b
<1>1. day \in Int /\ from <= day /\ day <= to
  OBVIOUS
<1>2. PICK b \in Buckets(from, to) : b[1] <= day /\ day <= b[2]
  BY <1>1, BucketOfDay
<1> QED BY <1>1, <1>2, OneBucketOfDay

\* The days that end a bucket are finitely many, the last of the period among them.
LEMMA BucketEnds ==
    ASSUME NEW from \in Int, NEW to \in Int, from <= to
    PROVE  /\ IsFiniteSet({b[2] : b \in Buckets(from, to)})
           /\ \E b \in Buckets(from, to) : b[2] = to
<1>1. {b[2] : b \in Buckets(from, to)} \subseteq from .. to
  BY BucketFacts
<1>2. IsFiniteSet(from .. to)
  BY FS_Interval
<1>3. PICK b \in Buckets(from, to) : b[1] <= to /\ to <= b[2]
  BY BucketOfDay
<1>4. b[2] = to
  BY <1>3, BucketFacts
<1> QED BY <1>1, <1>2, <1>4, FS_Subset

-----------------------------------------------------------------------------
(* The sum of a series *)

\* A function of the parts of S that adds up f, element by element.
SumsUp(f, S, g) ==
    g = [s \in SUBSET S |->
            IF s = {} THEN 0 ELSE LET x == CHOOSE x \in s : TRUE IN f[x] + g[s \ {x}]]

SumOf(f) == FoldFunction(+, 0, f)

\* There is only one, and SumOf is its value at the domain of f.
LEMMA SumIs ==
    ASSUME NEW f, IsFiniteSet(DOMAIN f), NEW g, SumsUp(f, DOMAIN f, g)
    PROVE  SumOf(f) = g[DOMAIN f]
<1> DEFINE S == DOMAIN f
           h == CHOOSE it : it = [s \in SUBSET S |->
                   IF s = {} THEN 0 ELSE LET x == CHOOSE x \in s : TRUE IN f[x] + it[s \ {x}]]
           Wrong == {s \in SUBSET S : h[s] # g[s]}
<1>1. SumOf(f) = h[S]
  BY DEF SumOf, FoldFunction, FoldFunctionOnSet, MapThenFoldSet
<1>2. h = [s \in SUBSET S |->
              IF s = {} THEN 0 ELSE LET x == CHOOSE x \in s : TRUE IN f[x] + h[s \ {x}]]
  BY Zenon DEF SumsUp
<1> HIDE DEF h
<1>3. \A s \in SUBSET S : s # {} =>
          /\ h[s] = f[CHOOSE x \in s : TRUE] + h[s \ {CHOOSE x \in s : TRUE}]
          /\ g[s] = f[CHOOSE x \in s : TRUE] + g[s \ {CHOOSE x \in s : TRUE}]
  BY <1>2 DEF SumsUp
<1>4. h[{}] = 0 /\ g[{}] = 0
  BY <1>2 DEF SumsUp
<1>5. \A s \in SUBSET S : IsFiniteSet(s) /\ Cardinality(s) \in Nat
  BY FS_Subset, FS_CardinalityType
<1>6. Wrong = {}
  <2> DEFINE T == {Cardinality(s) : s \in Wrong}
  <2>1. SUFFICES ASSUME Wrong # {}
                 PROVE  FALSE
    OBVIOUS
  <2>2. T \subseteq Nat /\ T # {}
    BY <1>5, <2>1
  <2>3. PICK n \in T : \A m \in T : n <= m
    <3> HIDE DEF T
    <3> QED BY <2>2, LeastNumber
  <2>4. PICK s \in Wrong : n = Cardinality(s)
    BY DEF T
  <2>5. s \in SUBSET S /\ s # {} /\ h[s] # g[s]
    BY <1>4
  <2> DEFINE x == CHOOSE y \in s : TRUE
  <2>6. x \in s
    BY <2>5
  <2>7. s \ {x} \in SUBSET S /\ h[s \ {x}] = g[s \ {x}]
    <3>1. s \ {x} \in SUBSET S
      BY <2>5
    <3>2. Cardinality(s \ {x}) = Cardinality(s) - 1
      <4> HIDE DEF x
      <4> QED BY <1>5, <2>5, <2>6, FS_RemoveElement
    <3>3. ~ (Cardinality(s \ {x}) \in T)
      BY <1>5, <2>3, <2>4, <2>5, <3>2
    <3> QED BY <3>1, <3>3
  <2> QED BY <1>3, <2>5, <2>7
<1> QED BY <1>1, <1>6

\* The events of X, each on its day, counted by buckets and added up are those of
\* the whole period.
LEMMA SeriesAddsUp ==
    ASSUME NEW from \in Int, NEW to \in Int, from <= to,
           NEW X, IsFiniteSet(X), NEW day \in [X -> Int], NEW f,
           DOMAIN f = {b[2] : b \in Buckets(from, to)},
           \A b \in Buckets(from, to) : f[b[2]] = Cardinality({x \in X : Within(day[x], b)})
    PROVE  SumOf(f) = Cardinality({x \in X : Within(day[x], <<from, to>>)})
<1> DEFINE S == {b[2] : b \in Buckets(from, to)}
           Of(b) == {x \in X : Within(day[x], b)}
           Until(s) == {x \in X : \E b \in Buckets(from, to) : b[2] \in s /\ Within(day[x], b)}
           g == [s \in SUBSET S |-> Cardinality(Until(s))]
<1>1. IsFiniteSet(S)
  BY BucketEnds
<1>2. /\ \A b : IsFiniteSet(Of(b))
      /\ \A s : IsFiniteSet(Until(s))
  <2>1. \A Y \in SUBSET X : IsFiniteSet(Y)
    BY FS_Subset
  <2> QED BY <2>1
<1>3. \A b \in Buckets(from, to), c \in Buckets(from, to), x \in X :
          Within(day[x], b) /\ Within(day[x], c) => b = c
  BY OneBucketOfDay DEF Within
<1>4. Until({}) = {}
  OBVIOUS
<1>5. ASSUME NEW s \in SUBSET S, NEW e \in s
      PROVE  Cardinality(Until(s)) = f[e] + Cardinality(Until(s \ {e}))
  <2>1. PICK b \in Buckets(from, to) : b[2] = e
    BY <1>5
  <2>2. \A c \in Buckets(from, to) : c[2] = e => c = b
    BY <2>1, EndsAreUnique
  <2>3. Until(s) = Of(b) \cup Until(s \ {e})
    BY <1>5, <2>1, <2>2
  <2>4. Of(b) \cap Until(s \ {e}) = {}
    BY <1>3, <2>1
  <2>5. f[e] = Cardinality(Of(b))
    BY <2>1
  <2> HIDE DEF Of, Until
  <2>6. Cardinality(Of(b) \cup Until(s \ {e})) = Cardinality(Of(b)) + Cardinality(Until(s \ {e}))
    BY <1>2, <2>4, PartsAddUp
  <2> QED BY <2>3, <2>5, <2>6
<1>6. Until(S) = {x \in X : Within(day[x], <<from, to>>)}
  <2>1. ASSUME NEW x \in X, NEW b \in Buckets(from, to), Within(day[x], b)
        PROVE  Within(day[x], <<from, to>>)
    BY <2>1, BucketFacts DEF Within
  <2>2. ASSUME NEW x \in X, Within(day[x], <<from, to>>)
        PROVE  \E b \in Buckets(from, to) : b[2] \in S /\ Within(day[x], b)
    BY <2>2, BucketOfDay DEF Within
  <2> QED BY <2>1, <2>2
<1> HIDE DEF Until
<1>7. SumsUp(f, S, g)
  <2>1. Cardinality(Until({})) = 0
    BY <1>4, FS_EmptySet
  <2>2. \A s \in SUBSET S : g[s] =
            IF s = {} THEN 0 ELSE LET x == CHOOSE x \in s : TRUE IN f[x] + g[s \ {x}]
    <3>1. SUFFICES ASSUME NEW s \in SUBSET S, s # {}
                   PROVE  g[s] = f[CHOOSE x \in s : TRUE] + g[s \ {CHOOSE x \in s : TRUE}]
      BY <2>1
    <3>2. (CHOOSE x \in s : TRUE) \in s
      BY <3>1
    <3>3. s \ {CHOOSE x \in s : TRUE} \in SUBSET S
      OBVIOUS
    <3> QED BY <1>5, <3>2, <3>3
  <2> QED BY <2>2, Zenon DEF SumsUp
<1>8. SumOf(f) = g[S]
  BY <1>1, <1>7, SumIs
<1> QED BY <1>6, <1>8

-----------------------------------------------------------------------------
(* The invariant of the indicators *)

\* What a query of the request gives, were it to run now.
Now(q) ==
    [e \in {b[2] : b \in BucketsOf(q)} |->
        Counted(request.view, q, CHOOSE b \in BucketsOf(q) : b[2] = e)]

Views == {"state"} \cup Metrics

Request ==
    [pc : {"asked"}, view : Views, from : Days, calendarEnd : Days, dataTo : Days,
     today : Days, writes : Nat, late : BOOLEAN]

\* A row is dated once it is stamped, and never with a day to come.
RowIsDated(s) ==
    LET row == situations[s]
    IN  /\ row.state # "none" => row.createdAt \in Days /\ row.createdAt <= today
        /\ row.state \in {"closing", "closed"} =>
               /\ row.closedAt \in Days
               /\ row.createdAt <= row.closedAt /\ row.closedAt <= today

\* The clock and the rows; what is asked; and that a request no late write has
\* touched would get the same answers again.
RowsInv ==
    /\ today \in Days
    /\ situations \in [Situations -> Row]
    /\ \A s \in Situations : RowIsDated(s)

RequestInv ==
    /\ request # NoRequest =>
           /\ request \in Request
           /\ request.from <= request.dataTo
           /\ request.dataTo <= request.calendarEnd
           /\ DOMAIN results \subseteq Queries(request.view)
    /\ request = NoRequest => DOMAIN results = {}

AnswersHold ==
    request # NoRequest /\ ~ request.late => \A q \in DOMAIN results : results[q] = Now(q)

KpiInv == RowsInv /\ RequestInv /\ AnswersHold

\* A bucket of a query lies in what is counted, and its last day tells it from
\* the others.
LEMMA QueryBuckets ==
    ASSUME request \in Request, request.from <= request.dataTo,
           NEW q, NEW b \in BucketsOf(q)
    PROVE  /\ b = <<b[1], b[2]>> /\ b[1] \in Int /\ b[2] \in Int
           /\ request.from <= b[1] /\ b[1] <= b[2] /\ b[2] <= request.dataTo
           /\ \A c \in BucketsOf(q) : c[2] = b[2] => c = b
<1>1. request.from \in Int /\ request.dataTo \in Int
  BY KpiAssumption DEF Request, Days
<1>2. CASE BucketsOf(q) = Buckets(request.from, request.dataTo)
  BY <1>1, <1>2, BucketFacts, EndsAreUnique
<1>3. CASE BucketsOf(q) = {<<request.from, request.dataTo>>}
  BY <1>1, <1>3
<1> QED BY <1>2, <1>3 DEF BucketsOf

\* So it is what a query counts under that day.
LEMMA NowAt ==
    ASSUME request \in Request, request.from <= request.dataTo,
           NEW q, NEW b \in BucketsOf(q)
    PROVE  b[2] \in DOMAIN Now(q) /\ Now(q)[b[2]] = Counted(request.view, q, b)
<1>1. (CHOOSE c \in BucketsOf(q) : c[2] = b[2]) = b
  BY QueryBuckets
<1> QED BY <1>1 DEF Now

\* The count of a bucket reads no more than what was registered and solved until
\* its last day: SeenAlike says that a step leaves that be.
SeenAlike(d) ==
    \A s \in Situations :
        /\ (s \in Committed /\ situations[s].createdAt <= d)
               <=> (s \in Committed' /\ situations'[s].createdAt <= d)
        /\ s \in Committed /\ situations[s].createdAt <= d =>
               /\ situations'[s].owner = situations[s].owner
               /\ situations'[s].inter = situations[s].inter
               /\ situations'[s].affected = situations[s].affected
               /\ situations'[s].createdAt = situations[s].createdAt
               /\ \/ ClosedOn(s)' = ClosedOn(s)
                  \/ ClosedOn(s) = Never /\ ClosedOn(s)' > d

\* What a row that is committed says.
RowsTell ==
    \A s \in Committed :
        /\ s \in Situations /\ situations[s] \in Row
        /\ situations[s].createdAt \in Int /\ 1 <= situations[s].createdAt
        /\ ClosedOn(s) \in Int /\ 0 <= ClosedOn(s)
        /\ ClosedOn(s) # Never => situations[s].createdAt <= ClosedOn(s)

LEMMA CommittedRows == RowsInv => RowsTell
<1> SUFFICES ASSUME RowsInv, NEW s \in Committed
             PROVE  /\ s \in Situations /\ situations[s] \in Row
                    /\ situations[s].createdAt \in Int /\ 1 <= situations[s].createdAt
                    /\ ClosedOn(s) \in Int /\ 0 <= ClosedOn(s)
                    /\ ClosedOn(s) # Never => situations[s].createdAt <= ClosedOn(s)
  BY DEF RowsTell
<1>1. s \in Situations /\ situations[s] \in Row /\ situations[s].state \in {"open", "closing", "closed"}
  BY DEF RowsInv, Committed
<1>2. RowIsDated(s)
  BY <1>1 DEF RowsInv
<1>3. situations[s].createdAt \in Days
  BY <1>1, <1>2 DEF RowIsDated
<1>4. situations[s].state = "closed" =>
          situations[s].closedAt \in Days /\ situations[s].createdAt <= situations[s].closedAt
  BY <1>2 DEF RowIsDated
<1> QED BY <1>1, <1>3, <1>4, KpiAssumption DEF ClosedOn, Days, Never

\* The sets a query counts are the same before and after such a step.
LEMMA SameSets ==
    ASSUME RowsInv, RowsInv', NEW d \in Int, SeenAlike(d),
           NEW b, b[1] \in Int, b[2] \in Int, b[2] <= d
    PROVE  /\ BacklogAt(b)' = BacklogAt(b)
           /\ CreatedIn(b)' = CreatedIn(b)
           /\ ClosedIn(b)' = ClosedIn(b)
           /\ ActiveAtCut(b[2])' = ActiveAtCut(b[2])
           /\ \A s \in Committed : situations[s].createdAt <= d =>
                  /\ situations'[s].inter = situations[s].inter
                  /\ situations'[s].affected = situations[s].affected
<1>1. \A s \in Committed :
          /\ situations[s].createdAt \in Int /\ ClosedOn(s) \in Int
          /\ ClosedOn(s) # Never => situations[s].createdAt <= ClosedOn(s)
  BY CommittedRows DEF RowsTell
<1>2. RowsTell'
  BY CommittedRows, PTL
<1>3. \A s \in Committed' :
          /\ situations'[s].createdAt \in Int /\ ClosedOn(s)' \in Int
          /\ ClosedOn(s)' # Never => situations'[s].createdAt <= ClosedOn(s)'
  BY <1>2 DEF RowsTell
<1>4. Committed \subseteq Situations /\ Committed' \subseteq Situations
  BY DEF Committed
<1>5. /\ \A s \in Committed : situations[s].createdAt <= d =>
            /\ s \in Committed'
            /\ situations'[s].owner = situations[s].owner
            /\ situations'[s].inter = situations[s].inter
            /\ situations'[s].affected = situations[s].affected
            /\ situations'[s].createdAt = situations[s].createdAt
            /\ \/ ClosedOn(s)' = ClosedOn(s)
               \/ ClosedOn(s) = Never /\ ClosedOn(s)' > d
      /\ \A s \in Committed' : situations'[s].createdAt <= d =>
            s \in Committed /\ situations[s].createdAt <= d
  BY <1>4 DEF SeenAlike
<1>6. BacklogAt(b)' = BacklogAt(b)
  BY <1>1, <1>3, <1>5 DEF BacklogAt, OwnedBy, InStock
<1>7. CreatedIn(b)' = CreatedIn(b)
  BY <1>1, <1>3, <1>5 DEF CreatedIn, OwnedBy, Within
<1>8. ClosedIn(b)' = ClosedIn(b)
  BY <1>1, <1>3, <1>5 DEF ClosedIn, OwnedBy, Within, Never
<1>9. ActiveAtCut(b[2])' = ActiveAtCut(b[2])
  BY <1>1, <1>3, <1>5 DEF ActiveAtCut, OwnedBy, InStock
<1> QED BY <1>5, <1>6, <1>7, <1>8, <1>9

\* A metric measures rows that were registered by the end of the bucket.
LEMMA MeasuredRows ==
    ASSUME RowsInv, NEW metric \in Metrics, NEW b, b[1] \in Int, b[2] \in Int,
           NEW s \in Measured(metric, b)
    PROVE  s \in Committed /\ situations[s].createdAt <= b[2]
<1>1. \A x \in Committed :
          /\ situations[x].createdAt \in Int /\ ClosedOn(x) \in Int
          /\ ClosedOn(x) # Never => situations[x].createdAt <= ClosedOn(x)
  BY CommittedRows DEF RowsTell
<1>2. CASE metric = "backlog"
  BY <1>2 DEF Measured, BacklogAt, OwnedBy, InStock
<1>3. CASE metric = "created"
  BY <1>3 DEF Measured, CreatedIn, OwnedBy, Within
<1>4. CASE metric = "closed"
  BY <1>1, <1>4 DEF Measured, ClosedIn, OwnedBy, Within
<1> QED BY <1>2, <1>3, <1>4 DEF Metrics

\* No query of a view tells the step.
LEMMA CountedAlike ==
    ASSUME RowsInv, RowsInv', NEW d \in Int, SeenAlike(d),
           NEW b, b[1] \in Int, b[2] \in Int, b[2] <= d,
           NEW view \in Views, NEW q \in Queries(view)
    PROVE  Counted(view, q, b)' = Counted(view, q, b)
<1>1. \A metric \in Metrics : Measured(metric, b)' = Measured(metric, b)
  BY SameSets DEF Metrics, Measured
<1>2. ActiveAtCut(b[2])' = ActiveAtCut(b[2])
  BY SameSets
<1>3. \A s \in Committed : situations[s].createdAt <= b[2] =>
          /\ situations'[s].inter = situations[s].inter
          /\ situations'[s].affected = situations[s].affected
  <2>1. \A s \in Committed : situations[s].createdAt \in Int
    BY CommittedRows DEF RowsTell
  <2>2. \A s \in Committed : situations[s].createdAt <= d =>
            /\ situations'[s].inter = situations[s].inter
            /\ situations'[s].affected = situations[s].affected
    BY SameSets
  <2> QED BY <2>1, <2>2
<1>4. \A metric \in Metrics : ByCategory(metric, b)' = ByCategory(metric, b)
  BY <1>1, <1>3, MeasuredRows DEF ByCategory
<1>5. \A metric \in Metrics : CommittedTo(metric, b)' = CommittedTo(metric, b)
  BY <1>1, <1>3, MeasuredRows DEF CommittedTo
<1>6. ProblemRows(b[2])' = ProblemRows(b[2])
  <2>1. InternalProblems(b[2])' = InternalProblems(b[2])
    BY <1>2, <1>3 DEF InternalProblems, ActiveAtCut, OwnedBy, InStock
  <2> QED BY <2>1 DEF ProblemRows, CutAt
<1>7. Recurring(b)' = Recurring(b)
  <2>1. CreatedIn(b)' = CreatedIn(b)
    BY SameSets
  <2> QED BY <1>3, <2>1 DEF Recurring, CreatedIn, OwnedBy, Within
<1>8. CASE q \in Metrics
  BY <1>1, <1>8 DEF Counted, Metrics
<1>9. CASE q \in {"byKind", "aging", "composition"}
  BY <1>2, <1>9 DEF Counted, Metrics, AgedAt, ComposedAt
<1>10. CASE q \in Distributions
  <2>1. view \in Metrics
    BY <1>10 DEF Views, Queries, Metrics, Distributions
  <2> QED BY <1>4, <1>5, <1>10, <2>1 DEF Counted, Metrics, Distributions
<1>11. CASE q \in {"problems", "recurrence"}
  BY <1>6, <1>7, <1>11 DEF Counted, Metrics
<1>12. CASE q \in {"registered", "learnings"}
  <2>1. CreatedIn(b)' = CreatedIn(b) /\ ClosedIn(b)' = ClosedIn(b)
    BY SameSets
  <2> QED BY <1>12, <2>1 DEF Counted, Metrics, Registered, LearntFrom
<1> QED BY <1>8, <1>9, <1>10, <1>11, <1>12
        DEF Views, Queries, Metrics, Distributions, ReportsOn

\* A write of a day after what is counted leaves every answer as it would be given
\* again; any other is kept as late.
LEMMA WriteInv ==
    ASSUME KpiInv, NEW s \in Situations, NEW row, NEW day \in Int, Write(s, row, day),
           RowsInv', request \in Request /\ request.dataTo < day => SeenAlike(request.dataTo)
    PROVE  KpiInv'
<1>1. CASE request = NoRequest
  <2>1. request' = NoRequest /\ results' = results
    BY <1>1 DEF Write, NoRequest
  <2>2. RequestInv' /\ AnswersHold'
    BY <1>1, <2>1 DEF KpiInv, RequestInv, AnswersHold
  <2> QED BY <2>2 DEF KpiInv
<1>2. CASE request # NoRequest
  <2>1. /\ request \in Request /\ request.from <= request.dataTo
        /\ request.dataTo <= request.calendarEnd /\ DOMAIN results \subseteq Queries(request.view)
    BY <1>2 DEF KpiInv, RequestInv
  <2>2. /\ results' = results
        /\ request' = [request EXCEPT !.writes = @ + 1,
                                      !.late = @ \/ day <= request.dataTo]
    BY <2>1 DEF Write, Request
  <2>3. /\ request' \in Request /\ request'.from = request.from
        /\ request'.dataTo = request.dataTo /\ request'.calendarEnd = request.calendarEnd
        /\ request'.view = request.view
        /\ request'.late <=> (request.late \/ day <= request.dataTo)
    <3>1. /\ request'.pc = request.pc /\ request'.from = request.from
          /\ request'.dataTo = request.dataTo /\ request'.calendarEnd = request.calendarEnd
          /\ request'.view = request.view /\ request'.today = request.today
          /\ request'.writes = request.writes + 1
      BY <2>1, <2>2 DEF Request
    <3>2. request'.late = (request.late \/ day <= request.dataTo)
      BY <2>1, <2>2, Zenon DEF Request
    <3>3. request' = [pc |-> request'.pc, view |-> request'.view, from |-> request'.from,
                      calendarEnd |-> request'.calendarEnd, dataTo |-> request'.dataTo,
                      today |-> request'.today, writes |-> request'.writes,
                      late |-> request'.late]
      BY <2>1, <2>2 DEF Request
    <3>4. request'.late \in BOOLEAN
      BY <3>2, Zenon
    <3>5. request' \in Request
      BY <2>1, <3>1, <3>3, <3>4 DEF Request
    <3> QED BY <3>1, <3>2, <3>5
  <2>4. request' # NoRequest
    BY <2>3 DEF Request, NoRequest
  <2>5. RequestInv'
    BY <2>1, <2>2, <2>3, <2>4 DEF RequestInv
  <2>6. ASSUME ~ request'.late, NEW q \in DOMAIN results
        PROVE  results'[q] = Now(q)'
    <3>1. request.dataTo \in Int /\ request.view \in Views /\ q \in Queries(request.view)
      BY <2>1, KpiAssumption DEF Request, Days
    <3>2. ~ request.late /\ request.dataTo < day
      BY <2>3, <2>6, <3>1
    <3>3. SeenAlike(request.dataTo)
      BY <2>1, <3>2
    <3>4. BucketsOf(q)' = BucketsOf(q)
      BY <2>3 DEF BucketsOf
    <3>5. \A b \in BucketsOf(q) : Counted(request.view, q, b)' = Counted(request.view, q, b)
      <4>1. SUFFICES ASSUME NEW b \in BucketsOf(q)
                     PROVE  Counted(request.view, q, b)' = Counted(request.view, q, b)
        OBVIOUS
      <4>2. b[1] \in Int /\ b[2] \in Int /\ b[2] <= request.dataTo
        BY <2>1, QueryBuckets
      <4>3. ASSUME NEW view \in Views, view = request.view, NEW d \in Int, d = request.dataTo
            PROVE  Counted(view, q, b)' = Counted(view, q, b)
        <5>1. SeenAlike(d)
          BY <3>3, <4>3 DEF SeenAlike
        <5> QED BY <3>1, <4>2, <4>3, <5>1, CountedAlike DEF KpiInv
      <4> QED BY <2>3, <3>1, <4>3
    <3>6. Now(q)' = Now(q)
      <4>1. \A e \in {b[2] : b \in BucketsOf(q)} :
                (CHOOSE b \in BucketsOf(q) : b[2] = e) \in BucketsOf(q)
        OBVIOUS
      <4> QED BY <2>3, <3>4, <3>5, <4>1 DEF Now
    <3> QED BY <1>2, <2>2, <3>2, <3>6 DEF KpiInv, AnswersHold
  <2>7. AnswersHold'
    BY <2>2, <2>6 DEF AnswersHold
  <2> QED BY <2>5, <2>7 DEF KpiInv
<1> QED BY <1>1, <1>2

\* What is read of the row that is written.
Dated(row) ==
    /\ row.state # "none" => row.createdAt \in Days /\ row.createdAt <= today
    /\ row.state \in {"closing", "closed"} =>
           /\ row.closedAt \in Days
           /\ row.createdAt <= row.closedAt /\ row.closedAt <= today

Seen(row, d) == row.state \in {"open", "closing", "closed"} /\ row.createdAt <= d

Closed(row) == IF row.state = "closed" THEN row.closedAt ELSE Never

\* A write keeps the rows as they must be, and tells nothing of a day until d, when
\* the row it writes is so.
LEMMA RowWritten ==
    ASSUME RowsInv, NEW s \in Situations, NEW row \in Row, NEW day,
           Write(s, row, day), Dated(row)
    PROVE  /\ RowsInv'
           /\ \A d \in Int :
                 /\ Seen(row, d) <=> Seen(situations[s], d)
                 /\ Seen(row, d) =>
                       /\ row.owner = situations[s].owner
                       /\ row.inter = situations[s].inter
                       /\ row.affected = situations[s].affected
                       /\ row.createdAt = situations[s].createdAt
                       /\ \/ Closed(row) = Closed(situations[s])
                          \/ Closed(situations[s]) = Never /\ Closed(row) > d
                 => SeenAlike(d)
<1>1. /\ situations' = [situations EXCEPT ![s] = row] /\ today' = today
      /\ situations \in [Situations -> Row]
  BY DEF Write, RowsInv
<1>2. situations'[s] = row /\ \A x \in Situations : x # s => situations'[x] = situations[x]
  BY <1>1
<1>3. RowsInv'
  <2>1. \A x \in Situations : RowIsDated(x)'
    BY <1>1, <1>2 DEF RowsInv, RowIsDated, Dated
  <2> QED BY <1>1, <2>1 DEF RowsInv
<1>4. \A x \in Situations :
          /\ x \in Committed <=> situations[x].state \in {"open", "closing", "closed"}
          /\ x \in Committed' <=> situations'[x].state \in {"open", "closing", "closed"}
          /\ ClosedOn(x) = Closed(situations[x])
          /\ ClosedOn(x)' = Closed(situations'[x])
  BY DEF Committed, ClosedOn, Closed
<1>5. ASSUME NEW d \in Int,
             Seen(row, d) <=> Seen(situations[s], d),
             Seen(row, d) =>
                /\ row.owner = situations[s].owner
                /\ row.inter = situations[s].inter
                /\ row.affected = situations[s].affected
                /\ row.createdAt = situations[s].createdAt
                /\ \/ Closed(row) = Closed(situations[s])
                   \/ Closed(situations[s]) = Never /\ Closed(row) > d
      PROVE  SeenAlike(d)
  <2>1. SUFFICES ASSUME NEW x \in Situations
                 PROVE  /\ Seen(situations[x], d) <=> Seen(situations'[x], d)
                        /\ Seen(situations[x], d) =>
                              /\ situations'[x].owner = situations[x].owner
                              /\ situations'[x].inter = situations[x].inter
                              /\ situations'[x].affected = situations[x].affected
                              /\ situations'[x].createdAt = situations[x].createdAt
                              /\ \/ Closed(situations'[x]) = Closed(situations[x])
                                 \/ /\ Closed(situations[x]) = Never
                                    /\ Closed(situations'[x]) > d
    BY <1>4 DEF SeenAlike, Seen
  <2>2. CASE x = s
    BY <1>2, <1>5, <2>2
  <2>3. CASE x # s
    BY <1>2, <2>3
  <2> QED BY <2>2, <2>3
<1> QED BY <1>3, <1>5

-----------------------------------------------------------------------------
(* Its steps *)

LEMMA StampRegistrationInv ==
    ASSUME KpiInv, NEW s \in Situations, StampRegistration(s)
    PROVE  KpiInv'
<1>1. PICK owner \in Areas, inter \in BOOLEAN, affected \in Areas :
          Write(s, [NoRow EXCEPT !.state = "registering", !.owner = owner, !.inter = inter,
                                 !.affected = affected, !.createdAt = today], today)
  BY DEF StampRegistration
<1> DEFINE row == [NoRow EXCEPT !.state = "registering", !.owner = owner, !.inter = inter,
                                !.affected = affected, !.createdAt = today]
<1>2. RowsInv /\ today \in Days /\ today \in Int
  BY KpiAssumption DEF KpiInv, RowsInv, Days
<1>3. row \in Row /\ row.state = "registering" /\ row.createdAt = today
  BY <1>2 DEF Row, NoRow
<1>4. situations[s].state = "none"
  BY DEF StampRegistration
<1>5. Dated(row) /\ \A d : ~ Seen(row, d) /\ ~ Seen(situations[s], d)
  BY <1>2, <1>3, <1>4 DEF Dated, Seen
<1>6. Write(s, row, today)
  BY <1>1
<1> HIDE DEF row
<1>7. RowsInv' /\ \A d \in Int : SeenAlike(d)
  BY <1>2, <1>3, <1>5, <1>6, RowWritten
<1>8. request \in Request => request.dataTo \in Int
  BY KpiAssumption DEF Request, Days
<1> QED BY <1>2, <1>6, <1>7, <1>8, WriteInv

LEMMA CommitRegistrationInv ==
    ASSUME KpiInv, NEW s \in Situations, CommitRegistration(s)
    PROVE  KpiInv'
<1> DEFINE row == [situations[s] EXCEPT !.state = "open"]
<1>1. /\ situations[s].state = "registering" /\ Write(s, row, situations[s].createdAt)
      /\ RowsInv /\ situations[s] \in Row /\ RowIsDated(s)
  BY DEF CommitRegistration, KpiInv, RowsInv
<1>2. /\ row \in Row /\ row.state = "open" /\ row.createdAt = situations[s].createdAt
      /\ situations[s].createdAt \in Days /\ situations[s].createdAt <= today
  BY <1>1 DEF Row, RowIsDated
<1>3. situations[s].createdAt \in Int
  BY <1>2, KpiAssumption DEF Days
<1>4. /\ Dated(row)
      /\ \A d \in Int : d < situations[s].createdAt => ~ Seen(row, d)
      /\ \A d : ~ Seen(situations[s], d)
  BY <1>1, <1>2, <1>3 DEF Dated, Seen
<1> HIDE DEF row
<1>5. RowsInv' /\ \A d \in Int : d < situations[s].createdAt => SeenAlike(d)
  BY <1>1, <1>2, <1>4, RowWritten
<1>6. request \in Request => request.dataTo \in Int
  BY KpiAssumption DEF Request, Days
<1> QED BY <1>1, <1>3, <1>5, <1>6, WriteInv

LEMMA StampClosingInv ==
    ASSUME KpiInv, NEW s \in Situations, StampClosing(s)
    PROVE  KpiInv'
<1> DEFINE row == [situations[s] EXCEPT !.state = "closing", !.closedAt = today]
<1>1. /\ situations[s].state = "open" /\ Write(s, row, today)
      /\ RowsInv /\ today \in Days /\ situations[s] \in Row /\ RowIsDated(s)
  BY DEF StampClosing, KpiInv, RowsInv
<1>2. today \in Int /\ today <= today
  BY <1>1, KpiAssumption DEF Days
<1>3. /\ row \in Row /\ row.state = "closing" /\ row.closedAt = today
      /\ row.createdAt = situations[s].createdAt /\ row.owner = situations[s].owner
      /\ row.inter = situations[s].inter /\ row.affected = situations[s].affected
      /\ situations[s].createdAt \in Days /\ situations[s].createdAt <= today
  BY <1>1 DEF Row, RowIsDated
<1>4. /\ Dated(row) /\ Closed(row) = Closed(situations[s])
      /\ \A d : Seen(row, d) <=> Seen(situations[s], d)
  BY <1>1, <1>2, <1>3 DEF Dated, Seen, Closed
<1> HIDE DEF row
<1>5. RowsInv' /\ \A d \in Int : SeenAlike(d)
  BY <1>1, <1>3, <1>4, RowWritten
<1>6. request \in Request => request.dataTo \in Int
  BY KpiAssumption DEF Request, Days
<1> QED BY <1>1, <1>2, <1>5, <1>6, WriteInv

LEMMA CommitClosingInv ==
    ASSUME KpiInv, NEW s \in Situations, CommitClosing(s)
    PROVE  KpiInv'
<1> DEFINE row == [situations[s] EXCEPT !.state = "closed"]
<1>1. /\ situations[s].state = "closing" /\ Write(s, row, situations[s].closedAt)
      /\ RowsInv /\ situations[s] \in Row /\ RowIsDated(s)
  BY DEF CommitClosing, KpiInv, RowsInv
<1>2. /\ row \in Row /\ row.state = "closed" /\ row.closedAt = situations[s].closedAt
      /\ row.createdAt = situations[s].createdAt /\ row.owner = situations[s].owner
      /\ row.inter = situations[s].inter /\ row.affected = situations[s].affected
      /\ situations[s].createdAt \in Days /\ situations[s].createdAt <= today
      /\ situations[s].closedAt \in Days /\ situations[s].closedAt <= today
      /\ situations[s].createdAt <= situations[s].closedAt
  BY <1>1 DEF Row, RowIsDated
<1>3. situations[s].closedAt \in Int
  BY <1>2, KpiAssumption DEF Days
<1>4. /\ Dated(row) /\ Closed(row) = situations[s].closedAt
      /\ Closed(situations[s]) = Never
      /\ \A d : Seen(row, d) <=> Seen(situations[s], d)
  BY <1>1, <1>2 DEF Dated, Seen, Closed
<1> HIDE DEF row
<1>5. RowsInv' /\ \A d \in Int : d < situations[s].closedAt => SeenAlike(d)
  BY <1>1, <1>2, <1>3, <1>4, RowWritten
<1>6. request \in Request => request.dataTo \in Int
  BY KpiAssumption DEF Request, Days
<1> QED BY <1>1, <1>3, <1>5, <1>6, WriteInv

\* A change of area is always late: it carries no day.
LEMMA MoveToAreaInv ==
    ASSUME KpiInv, NEW s \in Situations, MoveToArea(s)
    PROVE  KpiInv'
<1>1. PICK a \in Areas \ {situations[s].owner} :
          Write(s, [situations[s] EXCEPT !.owner = a,
                        !.affected = IF situations[s].inter THEN @ ELSE a], Never)
  BY DEF MoveToArea
<1> DEFINE row == [situations[s] EXCEPT !.owner = a,
                        !.affected = IF situations[s].inter THEN @ ELSE a]
<1>2. RowsInv /\ situations[s] \in Row /\ RowIsDated(s) /\ situations[s].state = "open"
  BY DEF MoveToArea, KpiInv, RowsInv
<1>3. row \in Row /\ row.state = "open" /\ row.createdAt = situations[s].createdAt
  BY <1>2 DEF Row
<1>4. Dated(row) /\ Write(s, row, Never)
  BY <1>1, <1>2, <1>3 DEF Dated, RowIsDated
<1> HIDE DEF row
<1>5. RowsInv'
  BY <1>2, <1>3, <1>4, RowWritten
<1>6. Never \in Int /\ (request \in Request => ~ (request.dataTo < Never))
  BY KpiAssumption DEF Request, Days, Never
<1> QED BY <1>4, <1>5, <1>6, WriteInv

LEMMA AskInv ==
    ASSUME KpiInv, NEW view \in Views, NEW p \in Periods, Ask(view, p)
    PROVE  KpiInv'
<1>1. /\ p.from \in Days /\ p.to \in Days /\ p.calendarEnd \in Days
      /\ p.from <= p.to /\ p.to <= p.calendarEnd /\ p.from <= today
      /\ today \in Days /\ today' = today /\ situations' = situations /\ results' = results
  BY KpiAssumption DEF Ask, KpiInv, RowsInv
<1>2. /\ DataTo(p.to, today) \in Days
      /\ p.from <= DataTo(p.to, today) /\ DataTo(p.to, today) <= p.calendarEnd
  BY <1>1, KpiAssumption DEF DataTo, Earlier, Days
<1>3. request' = [pc |-> "asked", view |-> view, from |-> p.from,
                  calendarEnd |-> p.calendarEnd, dataTo |-> DataTo(p.to, today),
                  today |-> today, writes |-> 0, late |-> FALSE]
  BY DEF Ask
<1>4. /\ request' \in Request /\ request'.from <= request'.dataTo
      /\ request'.dataTo <= request'.calendarEnd /\ request' # NoRequest
  BY <1>1, <1>2, <1>3 DEF Request, NoRequest
<1>5. DOMAIN results = {}
  BY DEF Ask, KpiInv, RequestInv
<1>6. RowsInv'
  BY <1>1 DEF KpiInv, RowsInv, RowIsDated
<1>7. RequestInv' /\ AnswersHold'
  BY <1>1, <1>4, <1>5 DEF RequestInv, AnswersHold
<1> QED BY <1>6, <1>7 DEF KpiInv

LEMMA RunQueryInv ==
    ASSUME KpiInv, NEW q, RunQuery(q)
    PROVE  KpiInv'
<1>1. /\ today' = today /\ situations' = situations /\ request' = request
      /\ request # NoRequest /\ q \in Queries(request.view) \ DOMAIN results
  BY DEF RunQuery, NoRequest
<1>2. results' = [r \in DOMAIN results \cup {q} |-> IF r # q THEN results[r] ELSE Now(q)]
  BY DEF RunQuery, Now
<1>3. \A r : Now(r)' = Now(r)
  BY <1>1 DEF Now, BucketsOf, Counted, Measured, BacklogAt, CreatedIn, ClosedIn, OwnedBy,
              Committed, ClosedOn, InStock, Within, ActiveAtCut, AgedAt, ComposedAt,
              ByCategory, CommittedTo, InternalProblems, ProblemRows, CutAt, Recurring, Registered,
              LearntFrom
<1>4. RowsInv'
  BY <1>1 DEF KpiInv, RowsInv, RowIsDated
<1>5. RequestInv'
  BY <1>1, <1>2 DEF KpiInv, RequestInv
<1>6. AnswersHold'
  <2>1. SUFFICES ASSUME ~ request.late, NEW r \in DOMAIN results \cup {q}
                 PROVE  results'[r] = Now(r)
    BY <1>1, <1>2, <1>3 DEF AnswersHold
  <2>2. CASE r = q
    BY <1>2, <2>2
  <2>3. CASE r # q
    BY <1>1, <1>2, <2>1, <2>3 DEF KpiInv, AnswersHold
  <2> QED BY <2>2, <2>3
<1> QED BY <1>4, <1>5, <1>6 DEF KpiInv

\* Midnight makes nothing of the past untrue.
LEMMA MidnightInv ==
    ASSUME KpiInv, Midnight
    PROVE  KpiInv'
<1>1. /\ today \in Days /\ today' = today + 1 /\ today < LastDay
      /\ situations' = situations /\ request' = request /\ results' = results
  BY DEF Midnight, KpiInv, RowsInv
<1>2. today' \in Days /\ \A d \in Days : d <= today => d <= today'
  BY <1>1, KpiAssumption DEF Days
<1>3. RowsInv'
  <2>1. \A s \in Situations : RowIsDated(s)'
    BY <1>1, <1>2 DEF KpiInv, RowsInv, RowIsDated
  <2> QED BY <1>1, <1>2, <2>1 DEF KpiInv, RowsInv
<1>4. \A q : Now(q)' = Now(q)
  BY <1>1 DEF Now, BucketsOf, Counted, Measured, BacklogAt, CreatedIn, ClosedIn, OwnedBy,
              Committed, ClosedOn, InStock, Within, ActiveAtCut, AgedAt, ComposedAt,
              ByCategory, CommittedTo, InternalProblems, ProblemRows, CutAt, Recurring, Registered,
              LearntFrom
<1>5. RequestInv' /\ AnswersHold'
  BY <1>1, <1>4 DEF KpiInv, RequestInv, AnswersHold
<1> QED BY <1>3, <1>5 DEF KpiInv

LEMMA KpiInvariance == KpiSpec => []KpiInv
<1>1. KpiInit => KpiInv
  <2> SUFFICES ASSUME KpiInit
               PROVE  KpiInv
    OBVIOUS
  <2>1. NoRow \in Row /\ NoRow.state = "none" /\ 1 \in Days
    BY KpiAssumption DEF NoRow, Row, Areas, Days
  <2>2. today = 1 /\ situations = [s \in Situations |-> NoRow] /\ request = NoRequest
        /\ results = [q \in {} |-> 0]
    BY DEF KpiInit
  <2>3. RowsInv
    BY <2>1, <2>2 DEF RowsInv, RowIsDated
  <2>4. RequestInv /\ AnswersHold
    BY <2>2 DEF RequestInv, AnswersHold
  <2> QED BY <2>3, <2>4 DEF KpiInv
<1>2. KpiInv /\ [KpiNext]_kpiVars => KpiInv'
  <2> SUFFICES ASSUME KpiInv, [KpiNext]_kpiVars
               PROVE  KpiInv'
    OBVIOUS
  <2>1. CASE Midnight
    BY <2>1, MidnightInv
  <2>2. ASSUME NEW s \in Situations,
               \/ StampRegistration(s) \/ CommitRegistration(s)
               \/ StampClosing(s) \/ CommitClosing(s) \/ MoveToArea(s)
        PROVE  KpiInv'
    BY <2>2, StampRegistrationInv, CommitRegistrationInv, StampClosingInv, CommitClosingInv,
       MoveToAreaInv
  <2>3. CASE \E view \in Views, p \in Periods : Ask(view, p)
    BY <2>3, AskInv
  <2>4. CASE \E q : RunQuery(q)
    BY <2>4, RunQueryInv
  <2>5. CASE UNCHANGED kpiVars
    <3>1. \A q : Now(q)' = Now(q)
      BY <2>5 DEF kpiVars, Now, BucketsOf, Counted, Measured, BacklogAt, CreatedIn, ClosedIn,
              OwnedBy, Committed, ClosedOn, InStock, Within, ActiveAtCut, AgedAt, ComposedAt,
              ByCategory, CommittedTo, InternalProblems, ProblemRows, CutAt, Recurring, Registered,
              LearntFrom
    <3> QED BY <2>5, <3>1 DEF kpiVars, KpiInv, RowsInv, RowIsDated, RequestInv, AnswersHold
  <2> QED BY <2>1, <2>2, <2>3, <2>4, <2>5 DEF KpiNext, Views
<1> QED BY <1>1, <1>2, PTL DEF KpiSpec

-----------------------------------------------------------------------------
(* What the indicators promise *)

\* What a settled answer shows of a bucket is what is counted in it now.
LEMMA SettledAnswers ==
    ASSUME KpiInv, Settled, NEW q \in Queries(request.view), NEW b \in BucketsOf(q)
    PROVE  /\ b[2] \in DOMAIN results[q]
           /\ results[q] = Now(q)
           /\ results[q][b[2]] = Counted(request.view, q, b)
<1>1. /\ request \in Request /\ request.from <= request.dataTo /\ request # NoRequest
      /\ ~ request.late /\ q \in DOMAIN results
  BY DEF KpiInv, RequestInv, Settled, Responded, NoRequest
<1>2. results[q] = Now(q)
  BY <1>1 DEF KpiInv, AnswersHold
<1> QED BY <1>1, <1>2, NowAt

\* The sets that are counted are finite.
LEMMA CountedSets ==
    /\ \A b : IsFiniteSet(BacklogAt(b)) /\ IsFiniteSet(CreatedIn(b)) /\ IsFiniteSet(ClosedIn(b))
    /\ \A d : IsFiniteSet(ActiveAtCut(d))
<1>1. \A S \in SUBSET Situations : IsFiniteSet(S)
  BY FS_Subset, KpiAssumption
<1> QED BY <1>1 DEF BacklogAt, CreatedIn, ClosedIn, ActiveAtCut, OwnedBy, Committed

\* The views of the stock of one answer agree, whatever comes while they are
\* counted of later days (src/src/operational-kpis, operational-kpi-state.dto.ts).
THEOREM StockViews == KpiSpec => []StockViewsAgree
<1>1. KpiInv => StockViewsAgree
  <2>1. SUFFICES ASSUME KpiInv, Settled, request.view = "state",
                        NEW slot \in SlotsShown, slot[2] = request.dataTo
                 PROVE  /\ Shown("byKind", slot) = Shown("composition", slot)
                        /\ Shown("aging", slot) = Shown("composition", slot)
                        /\ Shown("composition", slot) <= Shown("backlog", slot)
    BY DEF StockViewsAgree
  <2>2. /\ request \in Request /\ request.from \in Int /\ request.dataTo \in Int
        /\ request.calendarEnd \in Int /\ request.dataTo <= request.calendarEnd
    BY <2>1, KpiAssumption DEF KpiInv, RequestInv, Settled, Responded, NoRequest, Request, Days
  <2>3. slot \in Buckets(request.from, request.dataTo)
    BY <2>2, SlotsAreBuckets DEF SlotsShown
  <2> DEFINE whole == <<request.from, request.dataTo>>
  <2>4. /\ slot \in BucketsOf("byKind") /\ slot \in BucketsOf("backlog")
        /\ whole \in BucketsOf("aging") /\ whole \in BucketsOf("composition")
        /\ {"byKind", "backlog", "aging", "composition"} \subseteq Queries(request.view)
        /\ whole[2] = slot[2]
    BY <2>1, <2>3 DEF BucketsOf, Metrics, Queries
  <2> HIDE DEF whole
  <2>5. /\ Shown("byKind", slot) = Counted("state", "byKind", slot)
        /\ Shown("backlog", slot) = Counted("state", "backlog", slot)
        /\ Shown("aging", slot) = Counted("state", "aging", whole)
        /\ Shown("composition", slot) = Counted("state", "composition", whole)
    BY <2>1, <2>4, SettledAnswers DEF Shown
  <2>6. /\ Shown("byKind", slot) = Cardinality(ActiveAtCut(request.dataTo))
        /\ Shown("aging", slot) = Cardinality(ActiveAtCut(request.dataTo))
        /\ Shown("composition", slot) = Cardinality(ActiveAtCut(request.dataTo))
        /\ Shown("backlog", slot) = Cardinality(BacklogAt(slot))
    BY <2>1, <2>4, <2>5 DEF Counted, Metrics, AgedAt, ComposedAt, Measured
  <2>7. ActiveAtCut(request.dataTo) \subseteq BacklogAt(slot)
    BY <2>1 DEF ActiveAtCut, BacklogAt
  <2>8. Cardinality(ActiveAtCut(request.dataTo)) <= Cardinality(BacklogAt(slot))
    BY <2>7, CountedSets, FS_Subset
  <2> QED BY <2>6, <2>8
<1> QED BY <1>1, KpiInvariance, PTL

\* The stock of a bucket and of the one before differ by what came in and what was
\* solved in it, though each of the four numbers is counted at another instant.
THEOREM Flow == KpiSpec => []FlowBalances
<1>1. KpiInv => FlowBalances
  <2>1. SUFFICES ASSUME KpiInv, Settled, request.view = "state",
                        NEW before \in SlotsShown, NEW slot \in SlotsShown,
                        before[2] + 1 = slot[1]
                 PROVE  Shown("backlog", slot) + Shown("closed", slot)
                            = Shown("backlog", before) + Shown("created", slot)
    BY DEF FlowBalances
  <2>2. /\ request \in Request /\ request.from \in Int /\ request.dataTo \in Int
        /\ request.calendarEnd \in Int /\ request.dataTo <= request.calendarEnd
    BY <2>1, KpiAssumption DEF KpiInv, RequestInv, Settled, Responded, NoRequest, Request, Days
  <2>3. /\ slot \in Buckets(request.from, request.dataTo)
        /\ before \in Buckets(request.from, request.dataTo)
    BY <2>2, SlotsAreBuckets DEF SlotsShown
  <2>4. /\ \A q \in Metrics : slot \in BucketsOf(q) /\ before \in BucketsOf(q)
        /\ Metrics \subseteq Queries(request.view)
    BY <2>1, <2>3 DEF BucketsOf, Queries
  <2>5. \A q \in Metrics : /\ Shown(q, slot) = Counted("state", q, slot)
                           /\ Shown(q, before) = Counted("state", q, before)
    BY <2>1, <2>4, SettledAnswers DEF Shown
  <2>6. /\ Shown("backlog", slot) = Cardinality(BacklogAt(slot))
        /\ Shown("closed", slot) = Cardinality(ClosedIn(slot))
        /\ Shown("backlog", before) = Cardinality(BacklogAt(before))
        /\ Shown("created", slot) = Cardinality(CreatedIn(slot))
    BY <2>5 DEF Counted, Metrics, Measured
  <2>7. /\ slot[1] \in Int /\ slot[2] \in Int /\ slot[1] <= slot[2]
        /\ before[1] \in Int /\ before[2] \in Int
    BY <2>2, <2>3, BucketFacts
  <2>8. \A s \in Committed :
            /\ situations[s].createdAt \in Int /\ ClosedOn(s) \in Int
            /\ ClosedOn(s) # Never => situations[s].createdAt <= ClosedOn(s)
    BY <2>1, CommittedRows DEF RowsTell, KpiInv
  <2>9. BacklogAt(slot) \cup ClosedIn(slot) = BacklogAt(before) \cup CreatedIn(slot)
    BY <2>1, <2>7, <2>8 DEF BacklogAt, ClosedIn, CreatedIn, OwnedBy, InStock, Within
  <2>10. /\ BacklogAt(slot) \cap ClosedIn(slot) = {}
         /\ BacklogAt(before) \cap CreatedIn(slot) = {}
    BY <2>1, <2>7, <2>8 DEF BacklogAt, ClosedIn, CreatedIn, OwnedBy, InStock, Within
  <2>11. /\ Cardinality(BacklogAt(slot) \cup ClosedIn(slot))
                = Cardinality(BacklogAt(slot)) + Cardinality(ClosedIn(slot))
         /\ Cardinality(BacklogAt(before) \cup CreatedIn(slot))
                = Cardinality(BacklogAt(before)) + Cardinality(CreatedIn(slot))
    BY <2>10, CountedSets, PartsAddUp
  <2> QED BY <2>6, <2>9, <2>11
<1> QED BY <1>1, KpiInvariance, PTL

\* What a metric measures in the whole period is what its history tells.
LEMMA HistoryTells ==
    ASSUME KpiInv, Settled, request.view \in Metrics
    PROVE  Told(request.view)
               = Cardinality(Measured(request.view, <<request.from, request.dataTo>>))
<1> DEFINE from == request.from
           to == request.dataTo
           view == request.view
<1>1. /\ request \in Request /\ from \in Int /\ to \in Int /\ from <= to
  BY KpiAssumption DEF KpiInv, RequestInv, Settled, Responded, NoRequest, Request, Days
<1>2. /\ view \in Queries(view) /\ BucketsOf(view) = Buckets(from, to)
  BY DEF Queries, BucketsOf, Metrics
<1>3. \A b \in Buckets(from, to) : results[view][b[2]] = Cardinality(Measured(view, b))
  BY <1>2, SettledAnswers DEF Counted, Metrics
<1>4. PICK b \in Buckets(from, to) : b[2] = to
  BY <1>1, BucketEnds
<1>5. DOMAIN results[view] = {c[2] : c \in Buckets(from, to)}
  <2>1. results[view] = Now(view)
    BY <1>2, <1>4, SettledAnswers
  <2> QED BY <1>2, <2>1 DEF Now
<1>6. \A s \in OwnedBy(Area) : s \in Situations /\ situations[s].createdAt \in Int /\ ClosedOn(s) \in Int
  BY CommittedRows DEF KpiInv, RowsTell, OwnedBy
<1>7. IsFiniteSet(OwnedBy(Area))
  BY FS_Subset, KpiAssumption DEF OwnedBy, Committed
<1> HIDE DEF from, to, view
<1>8. CASE view = "backlog"
  <2>1. Measured(view, b) = Measured(view, <<from, to>>)
    BY <1>4, <1>8 DEF Measured, BacklogAt
  <2>2. Told(view) = results[view][to]
    BY <1>8 DEF Told, to
  <2> QED BY <1>3, <1>4, <2>1, <2>2 DEF from, to, view
<1>9. CASE view = "created"
  <2> DEFINE day == [s \in OwnedBy(Area) |-> situations[s].createdAt]
  <2>1. day \in [OwnedBy(Area) -> Int]
    BY <1>6
  <2>2. \A c : Measured(view, c) = {s \in OwnedBy(Area) : Within(day[s], c)}
    BY <1>9 DEF Measured, CreatedIn
  <2> HIDE DEF day
  <2>3. \A c \in Buckets(from, to) :
             results[view][c[2]] = Cardinality({s \in OwnedBy(Area) : Within(day[s], c)})
    BY <1>3, <2>2
  <2>4. SumOf(results[view])
            = Cardinality({s \in OwnedBy(Area) : Within(day[s], <<from, to>>)})
    BY <1>1, <1>5, <1>7, <2>1, <2>3, SeriesAddsUp
  <2>5. Told(view) = SumOf(results[view])
    BY <1>9, Zenon DEF Told, SumOf
  <2> QED BY <2>2, <2>4, <2>5 DEF from, to, view
<1>10. CASE view = "closed"
  <2> DEFINE X == {s \in OwnedBy(Area) : ClosedOn(s) # Never}
             day == [s \in X |-> ClosedOn(s)]
  <2>1. day \in [X -> Int] /\ IsFiniteSet(X)
    BY <1>6, <1>7, FS_Subset
  <2>2. \A c : Measured(view, c) = {s \in X : Within(day[s], c)}
    BY <1>10 DEF Measured, ClosedIn
  <2> HIDE DEF X, day
  <2>3. \A c \in Buckets(from, to) :
             results[view][c[2]] = Cardinality({s \in X : Within(day[s], c)})
    BY <1>3, <2>2
  <2>4. SumOf(results[view]) = Cardinality({s \in X : Within(day[s], <<from, to>>)})
    BY <1>1, <1>5, <2>1, <2>3, SeriesAddsUp
  <2>5. Told(view) = SumOf(results[view])
    BY <1>10, Zenon DEF Told, SumOf
  <2> QED BY <2>2, <2>4, <2>5 DEF from, to, view
<1> QED BY <1>8, <1>9, <1>10 DEF view, Metrics

\* The recurrence by buckets adds up to the INTERNAL ones of the whole period.
LEMMA RecurrenceTells ==
    ASSUME KpiInv, Settled, request.view = "created"
    PROVE  RecurrenceTotal
               = Cardinality(ByCategory("created", <<request.from, request.dataTo>>))
<1> DEFINE from == request.from
           to == request.dataTo
           X == {s \in OwnedBy(Area) : ~ situations[s].inter}
           day == [s \in X |-> situations[s].createdAt]
<1>1. /\ request \in Request /\ from \in Int /\ to \in Int /\ from <= to
  BY KpiAssumption DEF KpiInv, RequestInv, Settled, Responded, NoRequest, Request, Days
<1>2. "recurrence" \in Queries(request.view) /\ BucketsOf("recurrence") = Buckets(from, to)
  BY DEF Queries, ReportsOn, BucketsOf, Metrics
<1>3. \A b \in Buckets(from, to) : results["recurrence"][b[2]] = Cardinality(Recurring(b))
  BY <1>2, SettledAnswers DEF Counted, Metrics
<1>4. PICK b \in Buckets(from, to) : b[2] = to
  BY <1>1, BucketEnds
<1>5. DOMAIN results["recurrence"] = {c[2] : c \in Buckets(from, to)}
  <2>1. results["recurrence"] = Now("recurrence")
    BY <1>2, <1>4, SettledAnswers
  <2> QED BY <1>2, <2>1 DEF Now
<1>6. day \in [X -> Int] /\ IsFiniteSet(X)
  <2>1. \A s \in OwnedBy(Area) : s \in Situations /\ situations[s].createdAt \in Int
    BY CommittedRows DEF KpiInv, RowsTell, OwnedBy
  <2>2. X \subseteq Situations
    BY <2>1
  <2> QED BY <2>1, <2>2, FS_Subset, KpiAssumption
<1>7. \A c : Recurring(c) = {s \in X : Within(day[s], c)}
  BY DEF Recurring, CreatedIn
<1>8. \A c : ByCategory("created", c) = {s \in X : Within(day[s], c)}
  BY DEF ByCategory, Measured, CreatedIn
<1> HIDE DEF from, to, X, day
<1>9. \A c \in Buckets(from, to) :
          results["recurrence"][c[2]] = Cardinality({s \in X : Within(day[s], c)})
  BY <1>3, <1>7
<1>10. SumOf(results["recurrence"])
          = Cardinality({s \in X : Within(day[s], <<from, to>>)})
  BY <1>1, <1>5, <1>6, <1>9, SeriesAddsUp
<1>11. RecurrenceTotal = SumOf(results["recurrence"])
  BY Zenon DEF RecurrenceTotal, SumOf
<1> QED BY <1>8, <1>10, <1>11 DEF from, to

\* How a metric is distributed over categories and commitments, and what the reports
\* count again, is the population its history tells of
\* (src/src/operational-kpis/operational-kpi-breakdown.repository.ts).
THEOREM PopulationsAgree == KpiSpec => []DistributionsAddUp
<1>1. KpiInv => DistributionsAddUp
  <2> SUFFICES ASSUME KpiInv, Settled, request.view \in Metrics
               PROVE  DistributionsAddUp
    BY Zenon DEF DistributionsAddUp
  <2> DEFINE whole == <<request.from, request.dataTo>>
             view == request.view
             categories == results["byCategory"][request.dataTo]
             commitments == results["commitments"][request.dataTo]
             own == {s \in OwnedBy(Area) : situations[s].inter /\ situations[s].affected = Area}
  <2>1. \A q \in Queries(view) : q \notin Metrics \cup {"byKind", "recurrence"} =>
            results[q][request.dataTo] = Counted(view, q, whole)
    <3>1. SUFFICES ASSUME NEW q \in Queries(view), q \notin Metrics \cup {"byKind", "recurrence"}
                   PROVE  results[q][whole[2]] = Counted(view, q, whole)
      OBVIOUS
    <3>2. whole \in BucketsOf(q)
      BY <3>1 DEF BucketsOf
    <3> HIDE DEF whole
    <3> QED BY <3>2, SettledAnswers
  <2>2. /\ {"byCategory", "commitments"} \subseteq Queries(view)
        /\ view = "backlog" => "problems" \in Queries(view)
        /\ view = "created" => "registered" \in Queries(view)
        /\ view = "closed" => "learnings" \in Queries(view)
    BY DEF Queries, Metrics, Distributions, ReportsOn
  <2>3. /\ categories = Cardinality(ByCategory(view, whole))
        /\ commitments = Cardinality(CommittedTo(view, whole))
    BY <2>1, <2>2 DEF Counted, Metrics
  <2>4. Told(view) = Cardinality(Measured(view, whole))
    BY HistoryTells
  <2>5. /\ Measured(view, whole) \subseteq OwnedBy(Area)
        /\ IsFiniteSet(Measured(view, whole))
    <3>1. Measured(view, whole) \subseteq OwnedBy(Area)
      BY DEF Measured, BacklogAt, CreatedIn, ClosedIn, Metrics
    <3>2. OwnedBy(Area) \subseteq Situations
      BY DEF OwnedBy, Committed
    <3> QED BY <3>1, <3>2, FS_Subset, KpiAssumption
  <2>6. /\ ByCategory(view, whole) \cap CommittedTo(view, whole) = {}
        /\ ByCategory(view, whole) \cup CommittedTo(view, whole) \subseteq Measured(view, whole)
        /\ own = {} => ByCategory(view, whole) \cup CommittedTo(view, whole)
                            = Measured(view, whole)
    BY <2>5 DEF ByCategory, CommittedTo
  <2>7. view = "backlog" => /\ Truncated = (categories > ProblemsLimit)
                            /\ ProblemsTotal = CutAt(ProblemsLimit, categories)
    <3> SUFFICES ASSUME view = "backlog"
                 PROVE  /\ Truncated = (categories > ProblemsLimit)
                        /\ ProblemsTotal = CutAt(ProblemsLimit, categories)
      OBVIOUS
    <3> DEFINE rows == results["problems"][request.dataTo]
    <3>1. InternalProblems(request.dataTo) = ByCategory(view, whole)
      BY DEF InternalProblems, ActiveAtCut, ByCategory, Measured, BacklogAt
    <3>2. rows = ProblemRows(request.dataTo)
      BY <2>1, <2>2 DEF Counted, Metrics
    <3>3. rows = CutAt(ProblemsLimit + 1, categories)
      BY <2>3, <3>1, <3>2 DEF ProblemRows
    <3>4. IsFiniteSet(ByCategory(view, whole))
      BY <2>5, <2>6, FS_Subset
    <3>5. categories \in Nat /\ ProblemsLimit \in Nat
      BY <2>3, <3>4, FS_CardinalityType, KpiAssumption
    <3> HIDE DEF rows, categories, view, whole
    <3>6. /\ (rows > ProblemsLimit) = (categories > ProblemsLimit)
          /\ CutAt(ProblemsLimit, rows) = CutAt(ProblemsLimit, categories)
      BY <3>3, <3>5 DEF CutAt
    <3> QED BY <3>6 DEF Truncated, ProblemsTotal, rows
  <2>8. view = "created" => RecurrenceTotal = categories /\ RegisteredCount = Told("created")
    <3> SUFFICES ASSUME view = "created"
                 PROVE  RecurrenceTotal = categories /\ RegisteredCount = Told("created")
      OBVIOUS
    <3>1. RegisteredCount = Cardinality(CreatedIn(whole))
      BY <2>1, <2>2 DEF RegisteredCount, Counted, Metrics, Registered
    <3>2. Measured(view, whole) = CreatedIn(whole)
      BY DEF Measured
    <3> QED BY <2>3, <2>4, <3>1, <3>2, RecurrenceTells
  <2>9. view = "closed" => ClosedCount = Told("closed")
    <3> SUFFICES ASSUME view = "closed"
                 PROVE  ClosedCount = Told("closed")
      OBVIOUS
    <3>1. ClosedCount = Cardinality(ClosedIn(whole))
      BY <2>1, <2>2 DEF ClosedCount, Counted, Metrics, LearntFrom
    <3>2. Measured(view, whole) = ClosedIn(whole)
      BY DEF Measured
    <3> QED BY <2>4, <3>1, <3>2
  <2> HIDE DEF whole, own
  <2>10. /\ IsFiniteSet(ByCategory(view, whole)) /\ IsFiniteSet(CommittedTo(view, whole))
         /\ Cardinality(ByCategory(view, whole) \cup CommittedTo(view, whole))
                <= Cardinality(Measured(view, whole))
    BY <2>5, <2>6, FS_Subset
  <2>11. Cardinality(ByCategory(view, whole) \cup CommittedTo(view, whole))
             = categories + commitments
    BY <2>3, <2>6, <2>10, PartsAddUp
  <2>12. /\ categories + commitments <= Told(view)
         /\ own = {} => categories + commitments = Told(view)
    BY <2>4, <2>6, <2>10, <2>11
  <2> QED BY <2>7, <2>8, <2>9, <2>12 DEF DistributionsAddUp, Metrics, own
<1> QED BY <1>1, KpiInvariance, PTL

=============================================================================
