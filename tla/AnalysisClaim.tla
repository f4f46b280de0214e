---------------------------- MODULE AnalysisClaim ----------------------------
(***************************************************************************)
(* POST /situations/:id/analyze: the AI analysis of one situation under a  *)
(* leased claim with a fencing token.  AIOrchestrator.execute,             *)
(* runClaimedAnalysis, claimAnalysis, releaseAnalysisClaim and             *)
(* assertClaimHeld (src/src/ai-orchestration/ai-orchestrator.service.ts),  *)
(* with the versions of ai-analysis-sessions.                              *)
(*                                                                         *)
(* An attempt is one request; its randomUUID token is its own name.  The   *)
(* claim is two columns of the situation: the token and the instant the    *)
(* lease expires, kept here as the time left, ttl.  A claim whose ttl is 0 *)
(* is expired: it still has its token, and anyone may take it over.        *)
(*                                                                         *)
(* The claim and its release are single UPDATEs and the confirmation is a  *)
(* transaction under FOR UPDATE, so each is one step; between them an      *)
(* attempt takes as long as the model takes to answer.                     *)
(***************************************************************************)
EXTENDS Integers, Sequences

CONSTANTS
    Attempts,
    None,
    Lease      \* ANALYSIS_CLAIM_LEASE_MS

ASSUME ClaimAssumption ==
    /\ Lease \in Nat \ {0}
    /\ None \notin Attempts

EventTypes == {"AI_ANALYSIS_STARTED", "AI_ANALYSIS_VERSION_CREATED",
               "AI_REANALYZED", "AI_ANALYSIS_FAILED"}

VARIABLES
    claim,     \* analysis_claim_token and the time left to its expiry
    pc,        \* where each attempt is
    previous,  \* the latest version each attempt read when it began; 0 for none
    versions,  \* the versions confirmed, in order: who, and which they replaced
    timeline,  \* number of entries by type
    taken,     \* history: how many times the claim was taken
    turn       \* history: which time was each attempt's; 0 for never

history == <<taken, turn>>
vars    == <<claim, pc, previous, versions, timeline, history>>

Steps == {"waiting", "claimed", "running", "committed", "releasing", "done", "dead"}
Working == {"claimed", "running", "committed", "releasing"}

Version == [by : Attempts, replaced : Nat]

Free == [token |-> None, ttl |-> 0]

Init ==
    /\ claim = Free
    /\ pc = [a \in Attempts |-> "waiting"]
    /\ previous = [a \in Attempts |-> 0]
    /\ versions = << >>
    /\ timeline = [e \in EventTypes |-> 0]
    /\ taken = 0
    /\ turn = [a \in Attempts |-> 0]

Goto(a, step) == pc' = [pc EXCEPT ![a] = step]

\* Mutated: a claim never expires.
Unclaimed == claim.token = None

\* analysis_claim_expires_at IS NULL OR analysis_claim_expires_at < now()
Claimable == claim.ttl = 0

\* claimAnalysis; while it is not claimable the request answers 409 and
\* changes nothing.
Claim(a) ==
    /\ pc[a] = "waiting"
    /\ Claimable
    /\ claim' = [token |-> a, ttl |-> Lease]
    /\ taken' = taken + 1
    /\ turn' = [turn EXCEPT ![a] = taken + 1]
    /\ Goto(a, "claimed")
    /\ UNCHANGED <<previous, versions, timeline>>

\* Mutated: off by one.
BeginOffByOne(a) ==
    /\ pc[a] = "claimed"
    /\ previous' = [previous EXCEPT ![a] = Len(versions) - 1]
    /\ timeline' = [timeline EXCEPT !["AI_ANALYSIS_STARTED"] = @ + 1]
    /\ Goto(a, "running")
    /\ UNCHANGED <<claim, versions, history>>

\* The latest session is read and the start is recorded, before the try block.
Begin(a) ==
    /\ pc[a] = "claimed"
    /\ previous' = [previous EXCEPT ![a] = Len(versions)]
    /\ timeline' = [timeline EXCEPT !["AI_ANALYSIS_STARTED"] = @ + 1]
    /\ Goto(a, "running")
    /\ UNCHANGED <<claim, versions, history>>

\* One of those two statements fails, or the entry of a failure cannot be
\* written: straight to the finally block.
FailsUnrecorded(a) ==
    /\ pc[a] \in {"claimed", "running"}
    /\ Goto(a, "releasing")
    /\ UNCHANGED <<claim, previous, versions, timeline, history>>

\* Mutated: any claim will do.
SomeClaim(a) == claim.token # None

\* assertClaimHeld: a live token is not asked for, only that it is still ours.
Holds(a) == claim.token = a

\* The confirmation: version latest + 1, the current record, VERSION_CREATED
\* and, if the attempt had read a version when it began, AI_REANALYZED.
Confirm(a) ==
    /\ pc[a] = "running"
    /\ Holds(a)
    /\ versions' = Append(versions, [by |-> a, replaced |-> previous[a]])
    /\ timeline' = [timeline EXCEPT
           !["AI_ANALYSIS_VERSION_CREATED"] = @ + 1,
           !["AI_REANALYZED"] = IF previous[a] > 0 THEN @ + 1 ELSE @]
    /\ Goto(a, "committed")
    /\ UNCHANGED <<claim, previous, history>>

\* ANALYSIS_CLAIM_LOST: not a failure of the analysis, nothing is recorded.
LoseClaim(a) ==
    /\ pc[a] = "running"
    /\ ~Holds(a)
    /\ Goto(a, "releasing")
    /\ UNCHANGED <<claim, previous, versions, timeline, history>>

\* The provider, the validation or the confirmation fails; or, once confirmed,
\* one of the reads that build the answer.  Both are recorded as a failure.
Fail(a) ==
    /\ pc[a] \in {"running", "committed"}
    /\ timeline' = [timeline EXCEPT !["AI_ANALYSIS_FAILED"] = @ + 1]
    /\ Goto(a, "releasing")
    /\ UNCHANGED <<claim, previous, versions, history>>

Answer(a) ==
    /\ pc[a] = "committed"
    /\ Goto(a, "releasing")
    /\ UNCHANGED <<claim, previous, versions, timeline, history>>

\* Mutated: the release does not look at the token.
ReleaseAnyway(a) ==
    /\ pc[a] = "releasing"
    /\ claim' = Free
    /\ Goto(a, "done")
    /\ UNCHANGED <<previous, versions, timeline, history>>

\* releaseAnalysisClaim, in the finally block: only if the token is still ours.
Release(a) ==
    /\ pc[a] = "releasing"
    /\ claim' = IF Holds(a) THEN Free ELSE claim
    /\ Goto(a, "done")
    /\ UNCHANGED <<previous, versions, timeline, history>>

\* The process dies; the claim stays until it expires.
Crash(a) ==
    /\ pc[a] \in Working
    /\ Goto(a, "dead")
    /\ UNCHANGED <<claim, previous, versions, timeline, history>>

Tick ==
    /\ claim.ttl > 0
    /\ claim' = [claim EXCEPT !.ttl = @ - 1]
    /\ UNCHANGED <<pc, previous, versions, timeline, history>>

Work(a) ==
    \/ Begin(a)
    \/ FailsUnrecorded(a)
    \/ Confirm(a)
    \/ LoseClaim(a)
    \/ Fail(a)
    \/ Answer(a)
    \/ Release(a)

Next ==
    \/ Tick
    \/ \E a \in Attempts : Claim(a) \/ Work(a) \/ Crash(a)

Spec == Init /\ [][Next]_vars

\* Time passes, a request that works goes on until it answers (or dies), and
\* a user who was answered 409 asks again.
FairSpec ==
    /\ Spec
    /\ WF_vars(Tick)
    /\ \A a \in Attempts : WF_vars(Claim(a)) /\ WF_vars(Work(a))

-----------------------------------------------------------------------------
(* Properties *)

\* Every variable has its type.
TypeOK ==
    /\ claim \in [token : Attempts \cup {None}, ttl : 0..Lease]
    /\ pc \in [Attempts -> Steps]
    /\ previous \in [Attempts -> Nat]
    /\ versions \in Seq(Version)
    /\ timeline \in [EventTypes -> Nat]
    /\ taken \in Nat
    /\ turn \in [Attempts -> Nat]

\* Versions are confirmed in the order in which their attempts took the claim:
\* an attempt whose expired claim was taken over never overwrites a newer
\* analysis, however late the provider answers it.
ConfirmedInOrder ==
    \A i, j \in 1..Len(versions) :
        i < j => turn[versions[i].by] < turn[versions[j].by]

\* The version an analysis says it replaces is the one it did replace, although
\* it is read before the provider is called: "v(n) reemplazo la version vigente
\* v(n-1)", and only the first has none.
ReplacesTheLatest ==
    \A i \in 1..Len(versions) : versions[i].replaced = i - 1

\* Every version is announced once, and every one but the first as a reanalysis.
VersionsAreAnnounced ==
    /\ timeline["AI_ANALYSIS_VERSION_CREATED"] = Len(versions)
    /\ timeline["AI_REANALYZED"] = IF versions = << >> THEN 0 ELSE Len(versions) - 1

\* While a claim has not expired, nobody but its holder ends it: a late release
\* by an attempt that lost it does not let a third one in.
LiveClaimIsSafe ==
    [][claim.token # None /\ claim.ttl > 0 /\ claim'.token # claim.token
           => pc[claim.token] = "releasing"]_vars

\* An analysis that somebody keeps asking for is eventually attempted, even if
\* every attempt before it died with the claim in its hands.
EveryRequestIsServed ==
    \A a \in Attempts : pc[a] = "waiting" ~> pc[a] \in {"done", "dead"}

=============================================================================
