----------------------- MODULE RegistrationIdempotency -----------------------
(***************************************************************************)
(* POST /situations/register-with-analysis under retries, double clicks    *)
(* and crashes: AIOrchestrator.registerAndExecute                          *)
(* (src/src/ai-orchestration/ai-orchestrator.service.ts) over the          *)
(* transaction of SituationsService.persistNewSituation.                   *)
(*                                                                         *)
(* An attempt is one HTTP request.  What it carries is a submission: the   *)
(* user, the Idempotency-Key (Absent when the header is absent) and the      *)
(* content, which the SHA-256 fingerprint stands for.  Several attempts    *)
(* may carry the same submission.                                          *)
(*                                                                         *)
(* The insert runs in a transaction that goes on after it (severity row,   *)
(* initial effect, timeline), so a row is first pending and then committed *)
(* or rolled back.  PostgreSQL makes an insert wait while another pending  *)
(* row holds the same entry of uq_situations_creator_client_request, and   *)
(* fails it once that row is committed.                                    *)
(***************************************************************************)
EXTENDS FiniteSets

CONSTANTS
    Users, Keys, Contents, Absent,
    Attempts,     \* HTTP requests
    Submissions   \* what an attempt may carry

Submission == [user : Users, key : Keys \cup {Absent}, content : Contents]

ASSUME RegistrationAssumption ==
    /\ Submissions \subseteq Submission
    /\ Absent \notin Keys \cup Contents \cup Submission \cup Attempts

VARIABLES
    situations,  \* committed rows: [id, user, key, content]
    pc,          \* where each attempt is
    sent,        \* the submission of each attempt
    answer       \* what each attempt answered

vars == <<situations, pc, sent, answer>>

Steps == {"new", "lookup", "create", "inserted", "committed", "conflict", "done", "lost"}

Answers ==
    [kind : {"created", "replayed"}, id : Attempts]
        \cup [kind : {"keyReused", "inProgress", "failed"}]

Row == [id : Attempts, user : Users, key : Keys \cup {Absent}, content : Contents]

\* The row an attempt inserts; its id names the attempt.
RowOf(r) == [id |-> r, user |-> sent[r].user, key |-> sent[r].key,
             content |-> sent[r].content]

\* Two submissions that meet in the partial unique index.
SameEntry(s, t) == s.key # Absent /\ s.user = t.user /\ s.key = t.key

\* findRegistrationByKey
Registered(s) == {x \in situations : SameEntry(s, x)}

\* Mutated: the fingerprint is not compared; it is compared the wrong way.
ReplayAlways(r, x) == [kind |-> "replayed", id |-> x.id]
ReuseIfEqual(r, x) ==
    IF x.content = sent[r].content
    THEN [kind |-> "keyReused"]
    ELSE [kind |-> "replayed", id |-> x.id]

\* resolveExistingRegistration: read-only.
ExistingAnswer(r, x) ==
    IF x.content # sent[r].content
    THEN [kind |-> "keyReused"]
    ELSE [kind |-> "replayed", id |-> x.id]

Init ==
    /\ situations = {}
    /\ pc = [r \in Attempts |-> "new"]
    /\ sent = [r \in Attempts |-> Absent]
    /\ answer = [r \in Attempts |-> Absent]

Goto(r, step) == pc' = [pc EXCEPT ![r] = step]

Reply(r, a) ==
    /\ Goto(r, "done")
    /\ answer' = [answer EXCEPT ![r] = a]

Receive(r, s) ==
    /\ pc[r] = "new"
    /\ sent' = [sent EXCEPT ![r] = s]
    /\ Goto(r, IF s.key = Absent THEN "create" ELSE "lookup")
    /\ UNCHANGED <<situations, answer>>

Lookup(r) ==
    /\ pc[r] = "lookup"
    /\ IF Registered(sent[r]) = {}
       THEN Goto(r, "create") /\ UNCHANGED answer
       ELSE \E x \in Registered(sent[r]) : Reply(r, ExistingAnswer(r, x))
    /\ UNCHANGED <<situations, sent>>

\* Mutated: no unique index; an index that does not wait for pending rows.
InsertUnchecked(r) ==
    /\ pc[r] = "create"
    /\ Goto(r, "inserted")
    /\ UNCHANGED <<situations, sent, answer>>
InsertWithoutWaiting(r) ==
    /\ pc[r] = "create"
    /\ Goto(r, IF /\ Registered(sent[r]) = {}
                  /\ \A q \in Attempts : pc[q] = "inserted" => ~SameEntry(sent[r], sent[q])
               THEN "inserted" ELSE "conflict")
    /\ UNCHANGED <<situations, sent, answer>>

\* The INSERT of the transaction.
Insert(r) ==
    /\ pc[r] = "create"
    /\ \A q \in Attempts \ {r} : pc[q] = "inserted" => ~SameEntry(sent[r], sent[q])
    /\ Goto(r, IF Registered(sent[r]) = {} THEN "inserted" ELSE "conflict")
    /\ UNCHANGED <<situations, sent, answer>>

Commit(r) ==
    /\ pc[r] = "inserted"
    /\ situations' = situations \cup {RowOf(r)}
    /\ Goto(r, "committed")
    /\ UNCHANGED <<sent, answer>>

\* A refused submission, a failing statement or a crash before the commit: the
\* transaction, if any, is rolled back and the client sees an error.  So does a
\* replay whose read of the stored problem fails.
Abort(r) ==
    /\ pc[r] \in {"lookup", "create", "inserted", "conflict"}
    /\ Reply(r, [kind |-> "failed"])
    /\ UNCHANGED <<situations, sent>>

Respond(r) ==
    /\ pc[r] = "committed"
    /\ Reply(r, [kind |-> "created", id |-> r])
    /\ UNCHANGED <<situations, sent>>

\* The process dies, or the connection drops, after the commit.
LoseAnswer(r) ==
    /\ pc[r] = "committed"
    /\ Goto(r, "lost")
    /\ UNCHANGED <<situations, sent, answer>>

\* Mutated: a conflict retries the transaction.
RetryConflict(r) ==
    /\ pc[r] = "conflict"
    /\ Goto(r, "create")
    /\ UNCHANGED <<situations, sent, answer>>

\* The unique index refused the insert: look again.
ResolveConflict(r) ==
    /\ pc[r] = "conflict"
    /\ IF Registered(sent[r]) = {}
       THEN Reply(r, [kind |-> "inProgress"])
       ELSE \E x \in Registered(sent[r]) : Reply(r, ExistingAnswer(r, x))
    /\ UNCHANGED <<situations, sent>>

\* What the server does unless it fails.
Proceed(r) ==
    \/ Lookup(r)
    \/ Insert(r)
    \/ Commit(r)
    \/ Respond(r)
    \/ ResolveConflict(r)

Serve(r) == Proceed(r) \/ Abort(r) \/ LoseAnswer(r)

Next ==
    \E r \in Attempts :
        \/ \E s \in Submissions : Receive(r, s)
        \/ Serve(r)

Spec == Init /\ [][Next]_vars

\* A server that is up goes on with what it received; failing is never counted
\* on, so an attempt that waits for a row really needs that row to be decided.
FairSpec == Spec /\ \A r \in Attempts : WF_vars(Proceed(r))

-----------------------------------------------------------------------------
(* Properties *)

\* Every variable has its type.
TypeOK ==
    /\ situations \subseteq Row
    /\ pc \in [Attempts -> Steps]
    /\ sent \in [Attempts -> Submissions \cup {Absent}]
    /\ answer \in [Attempts -> Answers \cup {Absent}]

\* However many attempts race, retry or die, a key of a user has at most one
\* row: the lookup alone would not give it.
OneProblemPerKey ==
    \A x, y \in situations : SameEntry(x, y) => x = y

\* An answer that names a problem names a committed one, of the same user,
\* key and content the attempt carried: a retry is never answered with someone
\* else's problem nor with a content that was not the one sent.
AnswersAreTruthful ==
    \A r \in Attempts :
        answer[r] # Absent /\ answer[r].kind \in {"created", "replayed"} =>
            \E x \in situations :
                /\ x.id = answer[r].id
                /\ x.user = sent[r].user
                /\ x.key = sent[r].key
                /\ x.content = sent[r].content

\* 422 is only answered to a user who really used that key before with another
\* content; the keys of other users are never seen.
ReuseIsReal ==
    \A r \in Attempts :
        answer[r] # Absent /\ answer[r].kind = "keyReused" =>
            \E x \in situations :
                SameEntry(sent[r], x) /\ x.content # sent[r].content

\* Of all the attempts with one key, one alone is told that it created the
\* problem; without a key every created answer has its own.
OneCreator ==
    \A q, r \in Attempts :
        /\ answer[q] # Absent /\ answer[q].kind = "created"
        /\ answer[r] # Absent /\ answer[r].kind = "created"
        /\ SameEntry(sent[q], sent[r])
        => q = r

\* REGISTRATION_IN_PROGRESS is never answered: PostgreSQL reports the
\* violation only once the other row is committed, and rows are not deleted.
NeverInProgress ==
    \A r \in Attempts : answer[r] # Absent => answer[r].kind # "inProgress"

\* The content a set of rows gives to each (user, key), and its other rows.
HasEntry(y, x)   == y.user = x[1] /\ y.key = x[2]
KeyedContent(S)  ==
    [x \in Users \X Keys |->
        IF \E y \in S : HasEntry(y, x)
        THEN (CHOOSE y \in S : HasEntry(y, x)).content
        ELSE Absent]
PlainIds(S)      == {y.id : y \in {z \in S : z.key = Absent}}

Promise == INSTANCE AtMostOnceRegistration
    WITH keyed <- KeyedContent(situations), plain <- PlainIds(situations),
         Ids <- Attempts

\* The commits implement at-most-once registration.
RegistersAtMostOnce == Promise!Spec

\* No attempt waits for ever: neither for the row of an attempt that died
\* inside its transaction nor for one that waits for it in turn.
AttemptsEnd ==
    \A r \in Attempts : pc[r] # "new" ~> pc[r] \in {"done", "lost"}

=============================================================================
