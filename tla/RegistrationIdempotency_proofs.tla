------------------- MODULE RegistrationIdempotency_proofs -------------------
(***************************************************************************)
(* For any users, keys, contents and attempts: a key has at most one row,  *)
(* answers are truthful, a refused reuse is real, 409                      *)
(* REGISTRATION_IN_PROGRESS is never answered, and the commits implement   *)
(* AtMostOnceRegistration.                                                 *)
(*                                                                         *)
(* OneProblemPerKey is not inductive: a commit only preserves it because   *)
(* a pending row excludes, through the unique index, both committed and    *)
(* other pending rows of its entry (Exclusive).                            *)
(***************************************************************************)
EXTENDS RegistrationIdempotency, TLAPS

\* An attempt that was received has a submission.
Received == \A r \in Attempts : pc[r] # "new" => sent[r] \in Submissions

\* A committed row is the row of an attempt that is past its commit.
Owned ==
    \A x \in situations :
        /\ pc[x.id] \in {"committed", "done", "lost"}
        /\ x = RowOf(x.id)

\* The unique index.
Exclusive ==
    \A r \in Attempts : pc[r] = "inserted" =>
        /\ Registered(sent[r]) = {}
        /\ \A q \in Attempts : pc[q] = "inserted" /\ SameEntry(sent[r], sent[q]) => q = r

Settled ==
    \A r \in Attempts :
        /\ pc[r] = "conflict" => Registered(sent[r]) # {}
        /\ pc[r] = "committed" => RowOf(r) \in situations
        /\ answer[r] # Absent => pc[r] = "done"
        /\ answer[r] # Absent /\ answer[r].kind = "created" =>
              answer[r].id = r /\ RowOf(r) \in situations

IInv ==
    /\ TypeOK /\ Received /\ Owned /\ Exclusive /\ Settled
    /\ OneProblemPerKey /\ AnswersAreTruthful /\ ReuseIsReal /\ NeverInProgress

\* Nothing is registered at first.
LEMMA InitInv == Init => IInv
  BY RegistrationAssumption
  DEF Init, IInv, TypeOK, Received, Owned, Exclusive, Settled, OneProblemPerKey,
      AnswersAreTruthful, ReuseIsReal, NeverInProgress, Steps, Registered

\* What a submission is.
LEMMA SubmissionType ==
    ASSUME NEW s \in Submissions
    PROVE  /\ s.user \in Users /\ s.key \in Keys \cup {Absent} /\ s.content \in Contents
           /\ s # Absent
  BY RegistrationAssumption DEF Submission

\* Every variable keeps its type.
LEMMA TypeStep == IInv /\ [Next]_vars => TypeOK'
<1> SUFFICES ASSUME IInv, [Next]_vars PROVE TypeOK'
  OBVIOUS
<1> USE DEF IInv, Goto, Reply
<1>1. ASSUME NEW r \in Attempts, NEW s \in Submissions, Receive(r, s) PROVE TypeOK'
  BY <1>1 DEF Receive, TypeOK, Steps
<1>2. ASSUME NEW r \in Attempts, Serve(r) PROVE TypeOK'
  <2>1. \A x \in situations : ExistingAnswer(r, x) \in Answers
    BY DEF ExistingAnswer, Answers, TypeOK, Row
  <2>2. CASE Lookup(r)
    BY <2>1, <2>2 DEF Lookup, TypeOK, Steps, Registered
  <2>3. CASE Insert(r)
    BY <2>3 DEF Insert, TypeOK, Steps
  <2>4. CASE Commit(r)
    <3>1. sent[r] \in Submissions
      BY <2>4 DEF Commit, Received
    <3>2. RowOf(r) \in Row
      BY <3>1, SubmissionType DEF RowOf, Row
    <3> QED BY <2>4, <3>2 DEF Commit, TypeOK, Steps
  <2>5. CASE Abort(r)
    BY <2>5 DEF Abort, TypeOK, Steps, Answers
  <2>6. CASE Respond(r)
    BY <2>6 DEF Respond, TypeOK, Steps, Answers
  <2>7. CASE LoseAnswer(r)
    BY <2>7 DEF LoseAnswer, TypeOK, Steps
  <2>8. CASE ResolveConflict(r)
    BY <2>1, <2>8 DEF ResolveConflict, TypeOK, Steps, Registered, Answers
  <2> QED BY <1>2, <2>2, <2>3, <2>4, <2>5, <2>6, <2>7, <2>8 DEF Serve, Proceed
<1>3. CASE UNCHANGED vars
  BY <1>3 DEF vars, TypeOK
<1> QED BY <1>1, <1>2, <1>3 DEF Next

\* A commit adds a row whose entry no committed row has.
LEMMA CommitStep == ASSUME IInv, TypeOK', NEW r \in Attempts, Commit(r) PROVE IInv'
<1> USE DEF IInv
<1>1. /\ pc[r] = "inserted"
      /\ situations' = situations \cup {RowOf(r)}
      /\ pc' = [pc EXCEPT ![r] = "committed"]
      /\ UNCHANGED <<sent, answer>>
  BY DEF Commit, Goto
<1>2. \A q \in Attempts : pc'[q] = IF q = r THEN "committed" ELSE pc[q]
  BY <1>1 DEF TypeOK
<1>3. \A x \in situations : x.id \in Attempts
  BY DEF TypeOK, Row
<1>4. \A q \in Attempts : RowOf(q)' = RowOf(q)
  BY <1>1 DEF RowOf
<1>5. RowOf(r).id = r /\ \A s : SameEntry(s, RowOf(r)) = SameEntry(s, sent[r])
  BY DEF RowOf, SameEntry
<1>6. \A x \in situations : ~SameEntry(sent[r], x)
  BY <1>1 DEF Exclusive, Registered
<1>7. Received'
  BY <1>1, <1>2 DEF Received
<1>8. Owned'
  BY <1>1, <1>2, <1>3, <1>4, <1>5 DEF Owned
<1>9. Exclusive'
  <2> SUFFICES ASSUME NEW q \in Attempts, pc'[q] = "inserted"
               PROVE  /\ Registered(sent[q])' = {}
                      /\ \A p \in Attempts :
                            pc'[p] = "inserted" /\ SameEntry(sent[q], sent[p]) => p = q
    BY <1>1 DEF Exclusive, SameEntry
  <2>1. q # r /\ pc[q] = "inserted" /\ ~SameEntry(sent[q], sent[r])
    BY <1>1, <1>2 DEF Exclusive
  <2>2. Registered(sent[q])' = {}
    BY <2>1, <1>1, <1>5 DEF Registered, Exclusive, SameEntry
  <2> QED BY <2>1, <2>2, <1>2 DEF Exclusive
<1>10. Settled'
  BY <1>1, <1>2, <1>4 DEF Settled, Registered, SameEntry, TypeOK
<1>11. OneProblemPerKey'
  BY <1>1, <1>5, <1>6 DEF OneProblemPerKey, SameEntry, RowOf
<1>12. AnswersAreTruthful' /\ ReuseIsReal' /\ NeverInProgress'
  BY <1>1 DEF AnswersAreTruthful, ReuseIsReal, NeverInProgress, SameEntry
<1> QED BY <1>7, <1>8, <1>9, <1>10, <1>11, <1>12

\* An answer is given once, about what is committed.
LEMMA ReplyStep ==
    ASSUME IInv, TypeOK', NEW r \in Attempts, NEW a,
           pc[r] \in {"lookup", "create", "inserted", "committed", "conflict"},
           Reply(r, a), UNCHANGED <<situations, sent>>,
           a.kind \in {"created", "replayed"} =>
               \E x \in situations :
                   /\ x.id = a.id
                   /\ x.user = sent[r].user
                   /\ x.key = sent[r].key
                   /\ x.content = sent[r].content,
           a.kind = "keyReused" =>
               \E x \in situations :
                   SameEntry(sent[r], x) /\ x.content # sent[r].content,
           a.kind = "created" => a.id = r /\ RowOf(r) \in situations,
           a.kind # "inProgress"
    PROVE  IInv'
<1> USE DEF IInv
<1>1. /\ pc' = [pc EXCEPT ![r] = "done"]
      /\ answer' = [answer EXCEPT ![r] = a]
  BY DEF Reply, Goto
<1>2. \A q \in Attempts : /\ pc'[q] = IF q = r THEN "done" ELSE pc[q]
                          /\ answer'[q] = IF q = r THEN a ELSE answer[q]
  BY <1>1 DEF TypeOK
<1>3. \A q \in Attempts : RowOf(q)' = RowOf(q)
  BY DEF RowOf
<1>4. Received'
  BY <1>2 DEF Received
<1>5. Owned'
  <2>1. \A x \in situations : x.id \in Attempts
    BY DEF TypeOK, Row
  <2> QED BY <1>2, <1>3, <2>1 DEF Owned
<1>6. Exclusive'
  BY <1>2 DEF Exclusive, Registered, SameEntry
<1>7. Settled'
  BY <1>2, <1>3 DEF Settled, Registered, SameEntry
<1>8. AnswersAreTruthful'
  BY <1>2 DEF AnswersAreTruthful
<1>9. ReuseIsReal'
  BY <1>2 DEF ReuseIsReal, SameEntry
<1>10. NeverInProgress' /\ OneProblemPerKey'
  BY <1>2 DEF NeverInProgress, OneProblemPerKey, SameEntry
<1> QED BY <1>4, <1>5, <1>6, <1>7, <1>8, <1>9, <1>10

\* An attempt that finds a row of its entry answers with that row, or that the
\* key was reused.
LEMMA ExistingStep ==
    ASSUME IInv, TypeOK', NEW r \in Attempts, pc[r] \in {"lookup", "conflict"},
           NEW x \in Registered(sent[r]), Reply(r, ExistingAnswer(r, x)),
           UNCHANGED <<situations, sent>>
    PROVE  IInv'
<1>1. x \in situations /\ SameEntry(sent[r], x)
  BY DEF Registered
<1>2. x.user = sent[r].user /\ x.key = sent[r].key
  BY <1>1 DEF SameEntry
<1>3. CASE x.content # sent[r].content
  <2>1. ExistingAnswer(r, x) = [kind |-> "keyReused"]
    BY <1>3 DEF ExistingAnswer
  <2> QED BY <1>1, <1>3, <2>1, ReplyStep
<1>4. CASE x.content = sent[r].content
  <2>1. ExistingAnswer(r, x) = [kind |-> "replayed", id |-> x.id]
    BY <1>4 DEF ExistingAnswer
  <2> QED BY <1>1, <1>2, <1>4, <2>1, ReplyStep
<1> QED BY <1>3, <1>4

\* A step that only moves one attempt forward.
LEMMA MoveStep ==
    ASSUME IInv, TypeOK', NEW r \in Attempts, NEW step \in Steps \ {"new", "committed"},
           pc[r] \in {"lookup", "create", "committed"}, Goto(r, step),
           pc[r] = "committed" => step = "lost",
           step = "inserted" =>
               /\ Registered(sent[r]) = {}
               /\ \A q \in Attempts \ {r} :
                     pc[q] = "inserted" => ~SameEntry(sent[r], sent[q]),
           step = "conflict" => Registered(sent[r]) # {},
           UNCHANGED <<situations, sent, answer>>
    PROVE  IInv'
<1> USE DEF IInv
<1>1. \A q \in Attempts : pc'[q] = IF q = r THEN step ELSE pc[q]
  BY DEF Goto, TypeOK
<1>2. \A q \in Attempts : RowOf(q)' = RowOf(q) /\ Registered(sent[q])' = Registered(sent[q])
  BY DEF RowOf, Registered, SameEntry
<1>3. Received'
  BY <1>1 DEF Received
<1>4. Owned'
  <2>1. \A x \in situations : x.id \in Attempts
    BY DEF TypeOK, Row
  <2> QED BY <1>1, <1>2, <2>1 DEF Owned
<1>5. Exclusive'
  <2>1. \A p, q \in Attempts : SameEntry(sent[p], sent[q]) => SameEntry(sent[q], sent[p])
    BY DEF SameEntry
  <2>2. \A p, q \in Attempts : SameEntry(sent[p], sent[q])' = SameEntry(sent[p], sent[q])
    BY DEF SameEntry
  <2> QED BY <1>1, <1>2, <2>1, <2>2 DEF Exclusive, Steps
<1>6. Settled'
  BY <1>1, <1>2 DEF Settled
<1>7. OneProblemPerKey' /\ AnswersAreTruthful' /\ ReuseIsReal' /\ NeverInProgress'
  BY DEF OneProblemPerKey, AnswersAreTruthful, ReuseIsReal, NeverInProgress, SameEntry
<1> QED BY <1>3, <1>4, <1>5, <1>6, <1>7


\* The inductive invariant is preserved by every step.
LEMMA NextInv == IInv /\ [Next]_vars => IInv'
<1> SUFFICES ASSUME IInv, [Next]_vars PROVE IInv'
  OBVIOUS
<1>0. TypeOK'
  BY TypeStep
<1>1. ASSUME NEW r \in Attempts, NEW s \in Submissions, Receive(r, s) PROVE IInv'
  <2> USE DEF IInv
  <2>1. /\ pc[r] = "new" /\ UNCHANGED <<situations, answer>>
        /\ \A q \in Attempts :
              /\ pc'[q] = IF q = r THEN (IF s.key = Absent THEN "create" ELSE "lookup") ELSE pc[q]
              /\ sent'[q] = IF q = r THEN s ELSE sent[q]
    BY <1>1 DEF Receive, Goto, TypeOK
  <2>2. \A x \in situations : x.id \in Attempts /\ x.id # r
    BY <2>1 DEF TypeOK, Row, Owned
  <2>3. \A q \in Attempts \ {r} : RowOf(q)' = RowOf(q) /\ Registered(sent[q])' = Registered(sent[q])
    BY <2>1 DEF RowOf, Registered, SameEntry
  <2>4. answer[r] = Absent
    BY <2>1 DEF Settled
  <2>5. Received'
    BY <2>1 DEF Received
  <2>6. Owned'
    BY <2>1, <2>2, <2>3 DEF Owned
  <2>7. Exclusive'
    BY <2>1, <2>3 DEF Exclusive, SameEntry
  <2>8. Settled'
    BY <2>1, <2>3, <2>4 DEF Settled
  <2>9. OneProblemPerKey' /\ AnswersAreTruthful' /\ ReuseIsReal' /\ NeverInProgress'
    BY <2>1, <2>4 DEF OneProblemPerKey, AnswersAreTruthful, ReuseIsReal, NeverInProgress, SameEntry
  <2> QED BY <1>0, <2>5, <2>6, <2>7, <2>8, <2>9
<1>2. ASSUME NEW r \in Attempts, Serve(r) PROVE IInv'
  <2>1. CASE Lookup(r)
    <3>1. CASE Registered(sent[r]) = {}
      BY <2>1, <3>1, <1>0, MoveStep DEF Lookup, Steps
    <3>2. CASE Registered(sent[r]) # {}
      BY <2>1, <3>2, <1>0, ExistingStep DEF Lookup
    <3> QED BY <3>1, <3>2
  <2>2. CASE Insert(r)
    BY <2>2, <1>0, MoveStep DEF Insert, Steps
  <2>3. CASE Commit(r)
    BY <2>3, <1>0, CommitStep
  <2>4. CASE Abort(r)
    BY <2>4, <1>0, ReplyStep DEF Abort
  <2>5. CASE Respond(r)
    <3>1. RowOf(r) \in situations
      BY <2>5 DEF Respond, IInv, Settled
    <3>2. RowOf(r).id = r /\ RowOf(r).user = sent[r].user /\ RowOf(r).key = sent[r].key
          /\ RowOf(r).content = sent[r].content
      BY DEF RowOf
    <3>3. \E x \in situations : /\ x.id = r /\ x.user = sent[r].user
                                /\ x.key = sent[r].key /\ x.content = sent[r].content
      BY <3>1, <3>2
    <3> QED BY <2>5, <3>1, <3>3, <1>0, ReplyStep DEF Respond
  <2>6. CASE LoseAnswer(r)
    BY <2>6, <1>0, MoveStep DEF LoseAnswer, Steps
  <2>7. CASE ResolveConflict(r)
    <3>1. Registered(sent[r]) # {}
      BY <2>7 DEF ResolveConflict, IInv, Settled
    <3> QED BY <2>7, <3>1, <1>0, ExistingStep DEF ResolveConflict
  <2> QED BY <1>2, <2>1, <2>2, <2>3, <2>4, <2>5, <2>6, <2>7 DEF Serve, Proceed
<1>3. CASE UNCHANGED vars
  BY <1>3, <1>0 DEF vars, IInv, TypeOK, Received, Owned, Exclusive, Settled, OneProblemPerKey,
     AnswersAreTruthful, ReuseIsReal, NeverInProgress, Registered, SameEntry, RowOf
<1> QED BY <1>1, <1>2, <1>3 DEF Next

\* The invariant holds always.
LEMMA Invariance == Spec => []IInv
  BY InitInv, NextInv, PTL DEF Spec

\* Every variable keeps its type.
THEOREM TypeCorrect == Spec => []TypeOK
<1>1. IInv => TypeOK
  BY DEF IInv
<1> QED BY <1>1, Invariance, PTL

\* A key of a user has at most one committed problem, whatever attempts race,
\* retry or die (registerAndExecute over uq_situations_creator_client_request).
THEOREM AtMostOneRow == Spec => []OneProblemPerKey
<1>1. IInv => OneProblemPerKey
  BY DEF IInv
<1> QED BY <1>1, Invariance, PTL

\* An attempt is only answered with the problem it asked to register.
THEOREM TruthfulAnswers == Spec => []AnswersAreTruthful
<1>1. IInv => AnswersAreTruthful
  BY DEF IInv
<1> QED BY <1>1, Invariance, PTL

\* 422 is only answered to a user who used the key before with another content:
\* the row it was refused for is still there, and is his
\* (resolveExistingRegistration).
THEOREM RefusedReuseIsReal == Spec => []ReuseIsReal
<1>1. IInv => ReuseIsReal
  BY DEF IInv
<1> QED BY <1>1, Invariance, PTL

\* One attempt alone is told that it created the problem of a key.
THEOREM SingleCreator == Spec => []OneCreator
<1>1. IInv => OneCreator
  <2> SUFFICES ASSUME IInv, NEW q \in Attempts, NEW r \in Attempts,
                      answer[q] # Absent, answer[q].kind = "created",
                      answer[r] # Absent, answer[r].kind = "created",
                      SameEntry(sent[q], sent[r])
               PROVE  q = r
    BY DEF OneCreator
  <2>1. RowOf(q) \in situations /\ RowOf(r) \in situations
    BY DEF IInv, Settled
  <2>2. SameEntry(RowOf(q), RowOf(r))
    BY DEF SameEntry, RowOf
  <2>3. RowOf(q) = RowOf(r)
    BY <2>1, <2>2 DEF IInv, OneProblemPerKey
  <2> QED BY <2>3 DEF RowOf
<1> QED BY <1>1, Invariance, PTL

\* The branch that answers REGISTRATION_IN_PROGRESS is dead.
THEOREM ConflictFindsTheWinner == Spec => []NeverInProgress
<1>1. IInv => NeverInProgress
  BY DEF IInv
<1> QED BY <1>1, Invariance, PTL

-----------------------------------------------------------------------------
(* The commits implement AtMostOnceRegistration. *)

Unique(S) == \A x, y \in S : SameEntry(x, y) => x = y

\* With one row per entry, the content of an entry is that of its row.
LEMMA ContentOfRow ==
    ASSUME NEW S, S \subseteq Row, Unique(S), NEW y \in S, y.key # Absent
    PROVE  KeyedContent(S)[<<y.user, y.key>>] = y.content
<1> DEFINE x == <<y.user, y.key>>
<1>1. x \in Users \X Keys /\ HasEntry(y, x)
  BY DEF Row, HasEntry
<1>2. PICK z \in S : HasEntry(z, x) /\ z = (CHOOSE w \in S : HasEntry(w, x))
  BY <1>1
<1>3. SameEntry(y, z)
  BY <1>2 DEF HasEntry, SameEntry
<1>4. z = y
  BY <1>2, <1>3 DEF Unique
<1> QED BY <1>1, <1>2, <1>4 DEF KeyedContent

\* An entry without a row has no content.
LEMMA ContentOfNone ==
    ASSUME NEW S, NEW x \in Users \X Keys, \A y \in S : ~HasEntry(y, x)
    PROVE  KeyedContent(S)[x] = Absent
  BY DEF KeyedContent

\* Committing a row with a key registers its content under a free entry.
LEMMA KeyedCommit ==
    ASSUME NEW S, S \subseteq Row, NEW x \in Row, x.key # Absent, Unique(S \cup {x}),
           \A y \in S : ~SameEntry(x, y)
    PROVE  /\ KeyedContent(S)[<<x.user, x.key>>] = Absent
           /\ KeyedContent(S \cup {x}) =
                 [KeyedContent(S) EXCEPT ![<<x.user, x.key>>] = x.content]
           /\ PlainIds(S \cup {x}) = PlainIds(S)
<1> DEFINE e == <<x.user, x.key>>
           T == S \cup {x}
<1>1. e \in Users \X Keys /\ T \subseteq Row /\ Unique(S)
  BY DEF Row, Unique
<1>2. \A y \in S : ~HasEntry(y, e)
  BY DEF HasEntry, SameEntry
<1>3. KeyedContent(S)[e] = Absent
  BY <1>1, <1>2, ContentOfNone
<1>4. KeyedContent(T)[e] = x.content
  BY <1>1, ContentOfRow
<1>5. ASSUME NEW d \in Users \X Keys, d # e
      PROVE  KeyedContent(T)[d] = KeyedContent(S)[d]
  <2>1. ~HasEntry(x, d)
    BY <1>5 DEF HasEntry
  <2>2. CASE \E y \in S : HasEntry(y, d)
    <3>1. PICK y \in S : HasEntry(y, d)
      BY <2>2
    <3>2. d = <<y.user, y.key>> /\ y.key # Absent
      BY <3>1, RegistrationAssumption DEF HasEntry
    <3>3. KeyedContent(T)[<<y.user, y.key>>] = y.content
      BY <3>2, <1>1, ContentOfRow
    <3>4. KeyedContent(S)[<<y.user, y.key>>] = y.content
      BY <3>2, <1>1, ContentOfRow
    <3> QED BY <3>2, <3>3, <3>4
  <2>3. CASE \A y \in S : ~HasEntry(y, d)
    <3>1. \A y \in T : ~HasEntry(y, d)
      BY <2>1, <2>3
    <3> QED BY <2>3, <3>1, ContentOfNone
  <2> QED BY <2>2, <2>3
<1>6. KeyedContent(T) = [KeyedContent(S) EXCEPT ![e] = x.content]
  <2>1. KeyedContent(T) = [d \in Users \X Keys |-> KeyedContent(T)[d]]
    BY DEF KeyedContent
  <2>2. KeyedContent(S) = [d \in Users \X Keys |-> KeyedContent(S)[d]]
    BY DEF KeyedContent
  <2> HIDE DEF T, e
  <2> QED BY <2>1, <2>2, <1>1, <1>4, <1>5
<1>7. PlainIds(T) = PlainIds(S)
  BY DEF PlainIds
<1> QED BY <1>3, <1>6, <1>7

\* Committing a row without a key only adds a plain problem.
LEMMA PlainCommit ==
    ASSUME NEW S, S \subseteq Row, NEW x \in Row, x.key = Absent, Unique(S),
           \A y \in S : y.id # x.id
    PROVE  /\ KeyedContent(S \cup {x}) = KeyedContent(S)
           /\ x.id \notin PlainIds(S)
           /\ PlainIds(S \cup {x}) = PlainIds(S) \cup {x.id}
<1> DEFINE T == S \cup {x}
<1>1. Unique(T) /\ T \subseteq Row
  BY DEF Unique, SameEntry
<1>2. ASSUME NEW d \in Users \X Keys PROVE KeyedContent(T)[d] = KeyedContent(S)[d]
  <2>1. ~HasEntry(x, d)
    BY RegistrationAssumption DEF HasEntry
  <2>2. CASE \E y \in S : HasEntry(y, d)
    <3>1. PICK y \in S : HasEntry(y, d)
      BY <2>2
    <3>2. d = <<y.user, y.key>> /\ y.key # Absent
      BY <3>1, RegistrationAssumption DEF HasEntry
    <3>3. KeyedContent(T)[<<y.user, y.key>>] = y.content
      BY <3>2, <1>1, ContentOfRow
    <3>4. KeyedContent(S)[<<y.user, y.key>>] = y.content
      BY <3>2, <1>1, ContentOfRow
    <3> QED BY <3>2, <3>3, <3>4
  <2>3. CASE \A y \in S : ~HasEntry(y, d)
    <3>1. \A y \in T : ~HasEntry(y, d)
      BY <2>1, <2>3
    <3> QED BY <2>3, <3>1, ContentOfNone
  <2> QED BY <2>2, <2>3
<1>3. KeyedContent(T) = KeyedContent(S)
  <2>1. KeyedContent(T) = [d \in Users \X Keys |-> KeyedContent(T)[d]]
    BY DEF KeyedContent
  <2>2. KeyedContent(S) = [d \in Users \X Keys |-> KeyedContent(S)[d]]
    BY DEF KeyedContent
  <2> HIDE DEF T
  <2> QED BY <2>1, <2>2, <1>2
<1>4. x.id \notin PlainIds(S) /\ PlainIds(T) = PlainIds(S) \cup {x.id}
  BY DEF PlainIds
<1> QED BY <1>3, <1>4

\* Registering nothing is the abstract initial state.
LEMMA PromiseInit == Init => Promise!Init
<1> SUFFICES ASSUME Init PROVE Promise!Init
  OBVIOUS
<1>1. KeyedContent(situations) = [x \in Users \X Keys |-> Absent]
  BY DEF Init, KeyedContent
<1>2. PlainIds(situations) = {}
  BY DEF Init, PlainIds
<1> QED BY <1>1, <1>2 DEF Promise!Init

\* A commit registers under a key or without one, and nothing else touches
\* what is registered.
LEMMA PromiseStep == IInv /\ IInv' /\ [Next]_vars => [Promise!Next]_(Promise!promise)
<1> SUFFICES ASSUME IInv, IInv', [Next]_vars PROVE [Promise!Next]_(Promise!promise)
  OBVIOUS
<1>1. ASSUME UNCHANGED situations PROVE UNCHANGED Promise!promise
  BY <1>1 DEF Promise!promise, KeyedContent, PlainIds
<1>2. ASSUME NEW r \in Attempts, Commit(r) PROVE Promise!Next
  <2> DEFINE x == RowOf(r)
  <2>1. situations' = situations \cup {x} /\ situations \subseteq Row
    BY <1>2 DEF Commit, IInv, TypeOK
  <2>2. /\ Registered(sent[r]) = {} /\ sent[r] \in Submissions
        /\ \A y \in situations : y.id # r
    BY <1>2 DEF Commit, IInv, Exclusive, Received, Owned
  <2>3. x \in Row /\ x.user \in Users /\ x.content \in Contents /\ x.id = r
    BY <2>2, SubmissionType DEF RowOf, Row
  <2>4. Unique(situations) /\ Unique(situations \cup {x})
    BY <2>1 DEF IInv, OneProblemPerKey, Unique, SameEntry
  <2>5. \A y \in situations : ~SameEntry(x, y)
    BY <2>2 DEF Registered, SameEntry, RowOf
  <2>6. CASE x.key # Absent
    <3>1. <<x.user, x.key>> \in Users \X Keys
      BY <2>3, <2>6 DEF Row
    <3>2. /\ KeyedContent(situations)[<<x.user, x.key>>] = Absent
          /\ KeyedContent(situations') =
                [KeyedContent(situations) EXCEPT ![<<x.user, x.key>>] = x.content]
          /\ PlainIds(situations') = PlainIds(situations)
      <4> HIDE DEF x
      <4> QED BY <2>1, <2>3, <2>4, <2>5, <2>6, KeyedCommit
    <3>3. Promise!RegisterKeyed(<<x.user, x.key>>, x.content)
      BY <3>2 DEF Promise!RegisterKeyed, KeyedContent, PlainIds
    <3> QED BY <2>3, <3>1, <3>3 DEF Promise!Next
  <2>7. CASE x.key = Absent
    <3>1. /\ KeyedContent(situations') = KeyedContent(situations)
          /\ x.id \notin PlainIds(situations)
          /\ PlainIds(situations') = PlainIds(situations) \cup {x.id}
      <4> HIDE DEF x
      <4> QED BY <2>1, <2>2, <2>3, <2>4, <2>7, PlainCommit
    <3>2. Promise!RegisterPlain(r)
      BY <2>3, <3>1 DEF Promise!RegisterPlain, KeyedContent, PlainIds
    <3> QED BY <3>2 DEF Promise!Next
  <2> QED BY <2>6, <2>7
<1>3. ASSUME NEW r \in Attempts, Serve(r), ~Commit(r) PROVE UNCHANGED situations
  BY <1>3 DEF Serve, Proceed, Lookup, Insert, Abort, Respond, LoseAnswer, ResolveConflict
<1>4. ASSUME NEW r \in Attempts, NEW s \in Submissions, Receive(r, s)
      PROVE  UNCHANGED situations
  BY <1>4 DEF Receive
<1> QED BY <1>1, <1>2, <1>3, <1>4 DEF Next, vars

\* The service implements at-most-once registration: every commit registers a
\* free key or a new plain problem, and nothing registered is ever replaced.
THEOREM AtMostOnce == Spec => RegistersAtMostOnce
<1>1. Spec => Promise!Spec
  BY Invariance, PromiseInit, PromiseStep, PTL DEF Spec, Promise!Spec
<1> QED BY <1>1 DEF RegistersAtMostOnce

=============================================================================
