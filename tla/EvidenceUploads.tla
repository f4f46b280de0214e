-------------------------- MODULE EvidenceUploads --------------------------
(***************************************************************************)
(* POST and DELETE of the evidences of one situation                       *)
(* (src/src/situation-evidence/situation-evidence.service.ts).  A note of  *)
(* the capture carries a client key, the same in every retry; a partial    *)
(* unique index on (situation, key) lets one row have it.  The             *)
(* ATTACHMENT_ADDED entry of the timeline is a statement of its own after  *)
(* the insert has committed.                                               *)
(*                                                                         *)
(* An evidence is named by the upload that inserted it.                    *)
(***************************************************************************)
EXTENDS Naturals

CONSTANTS
    Uploads,   \* requests; a retry is another request
    Keys,
    NoKey,
    KeyOf      \* the client key of each upload, or NoKey

ASSUME UploadsAssumption ==
    /\ NoKey \notin Keys
    /\ KeyOf \in [Uploads -> Keys \cup {NoKey}]

VARIABLES
    evidences,   \* the rows
    removed,     \* history: those that were deleted
    entries,     \* how many ATTACHMENT_ADDED entries each evidence has
    upload       \* where each request is, and the evidence it was answered

evidenceVars == <<evidences, removed, entries, upload>>

UploadSteps == {"new", "saving", "violated", "saved", "announcing", "orphaned", "answered",
                "failed", "unanswered", "dead"}

EvidenceInit ==
    /\ evidences = {}
    /\ removed = {}
    /\ entries = [u \in Uploads |-> 0]
    /\ upload = [u \in Uploads |-> [pc |-> "new", evidence |-> u]]

At(u, step) == upload[u].pc = step

Move(u, step) == upload' = [upload EXCEPT ![u].pc = step]

AnswerWith(u, e) == upload' = [upload EXCEPT ![u] = [pc |-> "answered", evidence |-> e]]

\* findByClientKey
SameKey(u) == {e \in evidences : KeyOf[u] # NoKey /\ KeyOf[e] = KeyOf[u]}

LookUp(u) ==
    /\ At(u, "new")
    /\ IF SameKey(u) = {} THEN Move(u, "saving")
       ELSE \E e \in SameKey(u) : AnswerWith(u, e)
    /\ UNCHANGED <<evidences, removed, entries>>

\* Mutated: there is no index; the first lookup is all that guards the key.
SaveUnindexed(u) ==
    /\ At(u, "saving")
    /\ evidences' = evidences \cup {u}
    /\ Move(u, "saved")
    /\ UNCHANGED <<removed, entries>>

\* The INSERT, under the index.
SaveEvidence(u) ==
    /\ At(u, "saving")
    /\ IF SameKey(u) = {}
       THEN evidences' = evidences \cup {u} /\ Move(u, "saved")
       ELSE UNCHANGED evidences /\ Move(u, "violated")
    /\ UNCHANGED <<removed, entries>>

\* Mutated: the upload that lost the race goes on to its entry.
AnnounceTheWinner(u) ==
    /\ At(u, "violated")
    /\ \/ \E e \in SameKey(u) : AnswerWith(u, e) /\ entries' = [entries EXCEPT ![e] = @ + 1]
       \/ SameKey(u) = {} /\ Move(u, "failed") /\ UNCHANGED entries
    /\ UNCHANGED <<evidences, removed>>

\* "Otra solicitud con la misma clave inserto primero."  Its row may be gone.
LookUpAgain(u) ==
    /\ At(u, "violated")
    /\ \/ \E e \in SameKey(u) : AnswerWith(u, e)
       \/ SameKey(u) = {} /\ Move(u, "failed")
    /\ UNCHANGED <<evidences, removed, entries>>

\* The row is read again, with its user, before the entry.
ReadAgain(u) ==
    /\ At(u, "saved")
    /\ Move(u, IF u \in evidences THEN "announcing" ELSE "orphaned")
    /\ UNCHANGED <<evidences, removed, entries>>

\* The entry is written even if the evidence has been deleted; but an answer
\* without the user, which only the second read brings, cannot be composed.
Announce(u) ==
    /\ entries' = [entries EXCEPT ![u] = @ + 1]
    /\ \/ At(u, "announcing") /\ AnswerWith(u, u)
       \/ At(u, "orphaned") /\ Move(u, "unanswered")
    /\ UNCHANGED <<evidences, removed>>

\* The process dies, or a query fails.
UploadDies(u) ==
    /\ upload[u].pc \in {"saving", "violated", "saved", "announcing", "orphaned"}
    /\ Move(u, "dead")
    /\ UNCHANGED <<evidences, removed, entries>>

\* delete: the timeline is not told.
DeleteEvidence(e) ==
    /\ e \in evidences
    /\ evidences' = evidences \ {e}
    /\ removed' = removed \cup {e}
    /\ UNCHANGED <<entries, upload>>

EvidenceNext ==
    \E u \in Uploads :
        \/ LookUp(u) \/ SaveEvidence(u) \/ LookUpAgain(u)
        \/ ReadAgain(u) \/ Announce(u) \/ UploadDies(u)
        \/ DeleteEvidence(u)

EvidenceSpec == EvidenceInit /\ [][EvidenceNext]_evidenceVars

-----------------------------------------------------------------------------
(* Properties                                                               *)

\* Every variable has its type.
EvidenceTypeOK ==
    /\ evidences \subseteq Uploads /\ removed \subseteq Uploads
    /\ entries \in [Uploads -> Nat]
    /\ upload \in [Uploads -> [pc : UploadSteps, evidence : Uploads]]

\* However an evidence is retried, the timeline tells of it once; it tells
\* nothing only while the upload that inserted it is at it, or if that died:
\* then no retry makes up for it.  What was never stored is not told.
EvidenceIsAnnounced ==
    \A e \in Uploads :
        entries[e] = IF /\ e \in evidences \cup removed
                        /\ upload[e].pc \in {"answered", "unanswered"}
                     THEN 1 ELSE 0

\* All the uploads of a key that are answered are answered the same evidence,
\* which has that key, and none is refused, as long as nobody deletes it.
RetriesAgree ==
    \A u, v \in Uploads :
        /\ At(u, "answered")
        /\ KeyOf[u] = KeyOf[v] /\ KeyOf[u] # NoKey
        /\ upload[u].evidence \notin removed
        => /\ KeyOf[upload[u].evidence] = KeyOf[u]
           /\ At(v, "answered") =>
                upload[v].evidence \in removed \cup {upload[u].evidence}
           /\ upload[v].pc \in {"failed", "unanswered"} =>
                \E e \in removed : KeyOf[e] = KeyOf[u]

=============================================================================
